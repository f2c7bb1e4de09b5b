------------------------ MODULE QueryAdmissionProofs ------------------------
(***************************************************************************)
(* Proofs, for any number of goroutines, tenants and permits, that the     *)
(* admission controller neither leaks nor over-commits permits, that its   *)
(* queues never lose a waiter, that no permit is idle while somebody       *)
(* waits, and that the tenants of a class take turns and each tenant's     *)
(* queries are served in the order they came.                              *)
(***************************************************************************)
EXTENDS AdmissionRotation, FiniteSetTheorems, SequenceTheorems, WellFoundedInduction, TLAPS

\* The parts of the invariant support each other: pop finds the waiters only
\* if the queues are coherent, permits are counted right only if whom pop
\* returns really waits, and borrowing looks at the right thing only if the
\* counts are coherent.
AdmissionInv ==
    /\ TypeOK
    /\ PermitAccounting
    /\ QueueCoherent
    /\ RotationCoherent
    /\ CountsCoherent
    /\ WorkConserving

-----------------------------------------------------------------------------
\* What pop computes.

\* A set of natural numbers that is not empty has a least element.
LEMMA LeastNat ==
    ASSUME NEW S \in SUBSET Nat, S # {}
    PROVE  \E m \in S : \A k \in S : m <= k
<1>1. \E m \in S : \A k \in S : ~(<<k, m>> \in OpToRel(<, Nat))
  BY NatLessThanWellFounded, WFMin
<1>2. \A m, k \in S : <<k, m>> \in OpToRel(<, Nat) <=> k < m
  BY DEF OpToRel
<1>3. \E m \in S : \A k \in S : ~(k < m)
  BY <1>1, <1>2, Zenon
<1> QED
  BY <1>3

\* pop strips exactly the cancelled entries in front of the first waiter.
LEMMA FirstLiveIs ==
    ASSUME TypeOK, NEW c \in Class, NEW t \in Tenant, Live(c, t) # {}
    PROVE  /\ FirstLive(c, t) \in Live(c, t)
           /\ \A j \in Live(c, t) : FirstLive(c, t) <= j
<1>1. Live(c, t) \in SUBSET Nat
  BY DEF TypeOK, Live
<1>2. \E i \in Live(c, t) : \A j \in Live(c, t) : i <= j
  BY <1>1, LeastNat
<1> QED
  BY <1>2 DEF FirstLive

\* pop stops at the first position of the rotation that has a waiter.
LEMMA NextAtIs ==
    ASSUME TypeOK, NEW c \in Class, LiveAt(c) # {}
    PROVE  /\ NextAt(c) \in LiveAt(c)
           /\ \A j \in LiveAt(c) : Distance(c, NextAt(c)) <= Distance(c, j)
<1> DEFINE D == {Distance(c, i) : i \in LiveAt(c)}
<1>1. LiveAt(c) \subseteq 1 .. Len(order[c])
  BY DEF TypeOK, LiveAt
<1>2. Start(c) \in 0 .. Len(order[c]) /\ Len(order[c]) \in Nat
  BY DEF TypeOK, Start
<1>3. \A i \in LiveAt(c) : Distance(c, i) \in Nat
  BY <1>1, <1>2 DEF Distance
<1>4. D \in SUBSET Nat /\ D # {}
  BY <1>3
<1>5. \E m \in D : \A k \in D : m <= k
  BY <1>4, LeastNat
<1>6. \E i \in LiveAt(c) : \A j \in LiveAt(c) : Distance(c, i) <= Distance(c, j)
  BY <1>5
<1> QED
  BY <1>6 DEF NextAt

\* The two shapes of the rotation after pop.
Cut(o, s, n) == SubSeq(o, 1, s) \o SubSeq(o, n, Len(o))
Span(o, n, s) == SubSeq(o, n, s)

Distinct(o) == \A i, j \in DOMAIN o : o[i] = o[j] => i = j

\* Cutting the middle out of a sequence keeps what is left of it and right of
\* it, and introduces no repetition.
LEMMA CutMiddle ==
    ASSUME NEW T, NEW o \in Seq(T), NEW s \in Nat, NEW n \in Nat, s < n, n <= Len(o)
    PROVE  /\ Cut(o, s, n) \in Seq(T)
           /\ \A j \in 1 .. Len(o) : j <= s \/ n <= j
                  => \E k \in DOMAIN Cut(o, s, n) : Cut(o, s, n)[k] = o[j]
           /\ Distinct(o) => Distinct(Cut(o, s, n))
<1> DEFINE P == Cut(o, s, n)
           f == SubSeq(o, 1, s)
           b == SubSeq(o, n, Len(o))
<1>1. f \in Seq(T) /\ Len(f) = s /\ \A i \in 1 .. s : f[i] = o[i]
  BY SubSeqProperties
<1>2. /\ b \in Seq(T) /\ Len(b) = Len(o) - n + 1
      /\ \A i \in 1 .. Len(o) - n + 1 : b[i] = o[n + i - 1]
  BY SubSeqProperties
<1> HIDE DEF f, b
<1>3. /\ P \in Seq(T) /\ Len(P) = Len(f) + Len(b)
      /\ \A i \in 1 .. Len(f) + Len(b) : P[i] = IF i <= Len(f) THEN f[i] ELSE b[i - Len(f)]
  BY <1>1, <1>2, ConcatProperties DEF f, b, Cut
<1> HIDE DEF P
<1> DEFINE m == s + (Len(o) - n + 1)
<1>4. Len(o) \in Nat /\ m \in Nat /\ m = s + (Len(o) - n + 1)
  OBVIOUS
<1> HIDE DEF m
<1>5. DOMAIN P = 1 .. m
  BY <1>1, <1>2, <1>3, <1>4, LenProperties
<1>6. \A i \in 1 .. m : i <= s => P[i] = o[i]
  BY <1>1, <1>2, <1>3, <1>4
<1>7. ASSUME NEW i \in 1 .. m, i > s
      PROVE  P[i] = o[n + i - s - 1] /\ n + i - s - 1 \in n .. Len(o)
  <2>1. i - s \in 1 .. Len(o) - n + 1 /\ ~(i <= s)
    BY <1>4, <1>7
  <2>2. P[i] = b[i - s]
    BY <2>1, <1>1, <1>2, <1>3, <1>4
  <2>3. n + (i - s) - 1 = n + i - s - 1
    OBVIOUS
  <2> QED
    BY <2>1, <2>2, <2>3, <1>2, <1>4, <1>7
<1>8. ASSUME NEW j \in 1 .. Len(o), j <= s \/ n <= j PROVE \E k \in DOMAIN P : P[k] = o[j]
  <2>1. CASE j <= s
    <3>1. j \in 1 .. m
      BY <2>1, <1>4
    <3> QED
      BY <3>1, <2>1, <1>5, <1>6
  <2>2. CASE n <= j
    <3>1. PICK k \in Int : k = j - n + 1 + s
      OBVIOUS
    <3>2. k \in 1 .. m /\ k > s /\ n + k - s - 1 = j
      BY <3>1, <2>2, <1>4
    <3> QED
      BY <3>2, <1>5, <1>7
  <2> QED
    BY <1>8, <2>1, <2>2
<1>9. ASSUME NEW i \in 1 .. m
      PROVE  \E x \in 1 .. Len(o) : P[i] = o[x] /\ x = IF i <= s THEN i ELSE n + i - s - 1
  <2>1. CASE i <= s
    <3>1. i \in 1 .. Len(o)
      BY <2>1, <1>4
    <3> QED
      BY <3>1, <2>1, <1>6
  <2>2. CASE i > s
    <3>1. n + i - s - 1 \in 1 .. Len(o) /\ P[i] = o[n + i - s - 1] /\ ~(i <= s)
      BY <2>2, <1>4, <1>7
    <3> QED
      BY <3>1
  <2> QED
    BY <2>1, <2>2, <1>4
<1>10. ASSUME \A x, y \in 1 .. Len(o) : o[x] = o[y] => x = y,
              NEW i \in 1 .. m, NEW j \in 1 .. m, P[i] = P[j]
       PROVE  i = j
  <2>1. PICK x \in 1 .. Len(o) : P[i] = o[x] /\ x = IF i <= s THEN i ELSE n + i - s - 1
    BY <1>9
  <2>2. PICK y \in 1 .. Len(o) : P[j] = o[y] /\ y = IF j <= s THEN j ELSE n + j - s - 1
    BY <1>9
  <2>3. x = y
    BY <2>1, <2>2, <1>10
  <2> QED
    BY <2>1, <2>2, <2>3, <1>4
<1>11. DOMAIN o = 1 .. Len(o)
  BY LenProperties
<1> QED
  BY <1>3, <1>5, <1>8, <1>10, <1>11 DEF P, Distinct

\* A contiguous part of a sequence keeps what it spans.
LEMMA Middle ==
    ASSUME NEW T, NEW o \in Seq(T), NEW s \in Nat, NEW n \in Nat,
           1 <= n, n <= s, s <= Len(o)
    PROVE  /\ Span(o, n, s) \in Seq(T)
           /\ \A j \in n .. s : \E k \in DOMAIN Span(o, n, s) : Span(o, n, s)[k] = o[j]
           /\ Distinct(o) => Distinct(Span(o, n, s))
<1> DEFINE P == Span(o, n, s)
<1>1. /\ P \in Seq(T) /\ Len(P) = s - n + 1
      /\ \A i \in 1 .. s - n + 1 : P[i] = o[n + i - 1]
  BY SubSeqProperties DEF Span
<1> HIDE DEF P
<1>2. DOMAIN P = 1 .. s - n + 1
  BY <1>1, LenProperties
<1>3. ASSUME NEW j \in n .. s PROVE \E k \in DOMAIN P : P[k] = o[j]
  <2>1. PICK k \in Int : k = j - n + 1
    OBVIOUS
  <2>2. k \in 1 .. s - n + 1 /\ n + k - 1 = j
    BY <2>1
  <2> QED
    BY <2>2, <1>1, <1>2
<1>4. ASSUME \A x, y \in 1 .. Len(o) : o[x] = o[y] => x = y,
             NEW i \in 1 .. s - n + 1, NEW j \in 1 .. s - n + 1, P[i] = P[j]
      PROVE  i = j
  <2>1. n + i - 1 \in 1 .. Len(o) /\ n + j - 1 \in 1 .. Len(o)
    OBVIOUS
  <2>2. n + i - 1 = n + j - 1
    BY <2>1, <1>1, <1>4
  <2> QED
    BY <2>2
<1>5. DOMAIN o = 1 .. Len(o)
  BY LenProperties
<1> QED
  BY <1>1, <1>2, <1>3, <1>4, <1>5 DEF P, Distinct

\* The rotation after pop: a sequence without repetitions that still names
\* every tenant with a waiter, the one just served included.
LEMMA PoppedOrderIs ==
    ASSUME TypeOK, RotationCoherent, NEW c \in Class, LiveAt(c) # {}
    PROVE  /\ PoppedOrder(c) \in Seq(Tenant)
           /\ PoppedCursor(c) \in Nat
           /\ \A j \in LiveAt(c) : \E k \in DOMAIN PoppedOrder(c) :
                  PoppedOrder(c)[k] = order[c][j]
           /\ Distinct(PoppedOrder(c))
<1>1. order[c] \in Seq(Tenant) /\ Len(order[c]) \in Nat /\ DOMAIN order[c] = 1 .. Len(order[c])
  BY DEF TypeOK
<1>2. Start(c) \in Nat /\ Start(c) <= Len(order[c])
  BY <1>1 DEF Start, TypeOK
<1>3. /\ NextAt(c) \in Nat /\ 1 <= NextAt(c) /\ NextAt(c) <= Len(order[c])
      /\ \A j \in LiveAt(c) : j \in 1 .. Len(order[c]) /\ Distance(c, NextAt(c)) <= Distance(c, j)
  <2>1. LiveAt(c) \subseteq 1 .. Len(order[c])
    BY <1>1 DEF LiveAt
  <2>2. /\ NextAt(c) \in LiveAt(c)
        /\ \A j \in LiveAt(c) : Distance(c, NextAt(c)) <= Distance(c, j)
    BY NextAtIs
  <2>3. NextAt(c) \in 1 .. Len(order[c])
    BY <2>1, <2>2
  <2> QED
    BY <2>1, <2>2, <2>3, <1>1
<1>4. Distinct(order[c])
  BY DEF RotationCoherent, Distinct
<1>5. PoppedCursor(c) \in Nat
  BY <1>2 DEF PoppedCursor
<1>6. CASE NextAt(c) > Start(c)
  <2>1. PoppedOrder(c) = Cut(order[c], Start(c), NextAt(c))
    BY <1>6 DEF PoppedOrder, Cut
  <2>2. ASSUME NEW j \in LiveAt(c)
        PROVE  j \in 1 .. Len(order[c]) /\ (j <= Start(c) \/ NextAt(c) <= j)
    <3>1. Distance(c, NextAt(c)) = NextAt(c) - Start(c)
      BY <1>6 DEF Distance
    <3>2. j > Start(c) => Distance(c, j) = j - Start(c)
      BY DEF Distance
    <3> QED
      BY <3>1, <3>2, <1>1, <1>2, <1>3
  <2>3. Start(c) < NextAt(c)
    BY <1>2, <1>3, <1>6
  <2>4. /\ PoppedOrder(c) \in Seq(Tenant)
        /\ \A j \in 1 .. Len(order[c]) : j <= Start(c) \/ NextAt(c) <= j
                 => \E k \in DOMAIN PoppedOrder(c) : PoppedOrder(c)[k] = order[c][j]
        /\ Distinct(PoppedOrder(c))
    <3>1. NextAt(c) <= Len(order[c]) /\ NextAt(c) \in Nat
      BY <1>3
    <3>2. /\ Cut(order[c], Start(c), NextAt(c)) \in Seq(Tenant)
          /\ \A j \in 1 .. Len(order[c]) : j <= Start(c) \/ NextAt(c) <= j =>
                 \E k \in DOMAIN Cut(order[c], Start(c), NextAt(c)) :
                     Cut(order[c], Start(c), NextAt(c))[k] = order[c][j]
          /\ Distinct(order[c]) => Distinct(Cut(order[c], Start(c), NextAt(c)))
      BY <3>1, <2>3, <1>1, <1>2, CutMiddle
    <3> QED
      BY <3>2, <2>1, <1>4, Zenon
  <2> QED
    BY <2>2, <2>4, <1>5
<1>7. CASE NextAt(c) <= Start(c)
  <2>1. PoppedOrder(c) = Span(order[c], NextAt(c), Start(c))
    BY <1>7, <1>2, <1>3, SMTT(60) DEF PoppedOrder, Span
  <2>2. ASSUME NEW j \in LiveAt(c) PROVE j \in NextAt(c) .. Start(c)
    <3>1. ~(NextAt(c) > Start(c))
      BY <1>2, <1>3, <1>7
    <3>2. Distance(c, NextAt(c)) = NextAt(c) + Len(order[c]) - Start(c)
      BY <3>1 DEF Distance
    <3>3. Distance(c, j) = IF j > Start(c) THEN j - Start(c) ELSE j + Len(order[c]) - Start(c)
      BY DEF Distance
    <3> QED
      BY <3>2, <3>3, <1>1, <1>2, <1>3
  <2>4. /\ PoppedOrder(c) \in Seq(Tenant)
        /\ \A j \in NextAt(c) .. Start(c) :
               \E k \in DOMAIN PoppedOrder(c) : PoppedOrder(c)[k] = order[c][j]
        /\ Distinct(PoppedOrder(c))
    <3>1. NextAt(c) \in Nat /\ 1 <= NextAt(c)
      BY <1>3
    <3>2. /\ Span(order[c], NextAt(c), Start(c)) \in Seq(Tenant)
          /\ \A j \in NextAt(c) .. Start(c) :
                 \E k \in DOMAIN Span(order[c], NextAt(c), Start(c)) :
                     Span(order[c], NextAt(c), Start(c))[k] = order[c][j]
          /\ Distinct(order[c]) => Distinct(Span(order[c], NextAt(c), Start(c)))
      BY <3>1, <1>1, <1>2, <1>7, Middle
    <3> QED
      BY <3>2, <2>1, <1>4, Zenon
  <2> QED
    BY <2>2, <2>4, <1>5
<1> QED
  BY <1>2, <1>3, <1>6, <1>7

\* What is left of a queue behind its k-th entry.
LEMMA Behind ==
    ASSUME NEW T, NEW q \in Seq(T), NEW k \in 1 .. Len(q)
    PROVE  /\ SubSeq(q, k + 1, Len(q)) \in Seq(T)
           /\ DOMAIN SubSeq(q, k + 1, Len(q)) = 1 .. Len(q) - k
           /\ \A i \in 1 .. Len(q) - k : SubSeq(q, k + 1, Len(q))[i] = q[k + i]
<1> DEFINE r == SubSeq(q, k + 1, Len(q))
<1>1. r \in Seq(T) /\ Len(r) = Len(q) - k /\ \A i \in 1 .. Len(q) - k : r[i] = q[k + i]
  <2>1. /\ r \in Seq(T) /\ Len(r) = IF k + 1 <= Len(q) THEN Len(q) - (k + 1) + 1 ELSE 0
        /\ \A i \in 1 .. Len(q) - (k + 1) + 1 : r[i] = q[(k + 1) + i - 1]
    BY SubSeqProperties
  <2> QED
    BY <2>1
<1> HIDE DEF r
<1>2. DOMAIN r = 1 .. Len(q) - k
  BY <1>1, LenProperties
<1> QED
  BY <1>1, <1>2 DEF r

\* pop returns a goroutine that really waits in this class.
LEMMA ChosenIs ==
    ASSUME TypeOK, QueueCoherent, NEW c \in Class, LiveAt(c) # {}
    PROVE  /\ NextTenant(c) \in Tenant
           /\ FirstLive(c, NextTenant(c)) \in DOMAIN queue[c][NextTenant(c)]
           /\ \A j \in Live(c, NextTenant(c)) : FirstLive(c, NextTenant(c)) <= j
           /\ Chosen(c) = queue[c][NextTenant(c)][FirstLive(c, NextTenant(c))]
           /\ Chosen(c) \in Proc
           /\ pc[Chosen(c)] = "waiting"
           /\ cls[Chosen(c)] = c
           /\ ten[Chosen(c)] = NextTenant(c)
<1>1. NextAt(c) \in LiveAt(c)
  BY NextAtIs
<1>2. NextTenant(c) \in Tenant /\ Live(c, NextTenant(c)) # {}
  BY <1>1 DEF LiveAt, TypeOK, NextTenant
<1>3. /\ FirstLive(c, NextTenant(c)) \in Live(c, NextTenant(c))
      /\ \A j \in Live(c, NextTenant(c)) : FirstLive(c, NextTenant(c)) <= j
  BY <1>2, FirstLiveIs
<1>4. Chosen(c) = queue[c][NextTenant(c)][FirstLive(c, NextTenant(c))]
  BY DEF Chosen, NextTenant
<1>5. queue[c][NextTenant(c)] \in Seq(Proc \cup {None})
  BY <1>2 DEF TypeOK
<1>6. FirstLive(c, NextTenant(c)) \in DOMAIN queue[c][NextTenant(c)] /\ Chosen(c) # None
  BY <1>3, <1>4 DEF Live
<1>7. Chosen(c) \in Proc
  BY <1>4, <1>5, <1>6
<1>8. pc[Chosen(c)] = "waiting" /\ cls[Chosen(c)] = c /\ ten[Chosen(c)] = NextTenant(c)
  BY <1>2, <1>4, <1>6 DEF QueueCoherent
<1> QED
  BY <1>2, <1>3, <1>4, <1>6, <1>7, <1>8

\* The queues after pop: exactly the chosen waiter is gone.
LEMMA PoppedQueueIs ==
    ASSUME TypeOK, QueueCoherent, RotationCoherent, NEW c \in Class, LiveAt(c) # {}
    PROVE  /\ PoppedQueue(c) \in [Tenant -> Seq(Proc \cup {None})]
           /\ \A p \in Waiters(c) \ {Chosen(c)} :
                 /\ \E i \in DOMAIN PoppedQueue(c)[ten[p]] : PoppedQueue(c)[ten[p]][i] = p
                 /\ \E i \in DOMAIN PoppedOrder(c) : PoppedOrder(c)[i] = ten[p]
           /\ \A t \in Tenant : \A i \in DOMAIN PoppedQueue(c)[t] :
                 LET p == PoppedQueue(c)[t][i]
                 IN  p # None =>
                     /\ pc[p] = "waiting" /\ cls[p] = c /\ ten[p] = t /\ p # Chosen(c)
                     /\ \A j \in DOMAIN PoppedQueue(c)[t] : PoppedQueue(c)[t][j] = p => j = i
           /\ \A t \in Tenant : PoppedQueue(c)[t] # <<>>
                 => \E i \in DOMAIN PoppedOrder(c) : PoppedOrder(c)[i] = t
<1> DEFINE u == NextTenant(c)
           k == FirstLive(c, u)
           Kept(t) == \E i \in DOMAIN PoppedOrder(c) : PoppedOrder(c)[i] = t
<1>1. /\ u \in Tenant /\ k \in DOMAIN queue[c][u] /\ Chosen(c) = queue[c][u][k]
      /\ \A j \in Live(c, u) : k <= j
      /\ Chosen(c) \in Proc /\ pc[Chosen(c)] = "waiting" /\ cls[Chosen(c)] = c /\ ten[Chosen(c)] = u
  BY ChosenIs
<1>2. \A t \in Tenant : queue[c][t] \in Seq(Proc \cup {None})
  BY DEF TypeOK
<1>3. /\ PoppedQueue(c)[u] = SubSeq(queue[c][u], k + 1, Len(queue[c][u]))
      /\ \A t \in Tenant \ {u} : PoppedQueue(c)[t] = IF Kept(t) THEN queue[c][t] ELSE <<>>
      /\ DOMAIN PoppedQueue(c) = Tenant
  BY <1>1 DEF PoppedQueue, NextTenant
<1>4. k \in 1 .. Len(queue[c][u])
  BY <1>1, <1>2
<1>5. /\ PoppedQueue(c)[u] \in Seq(Proc \cup {None})
      /\ DOMAIN PoppedQueue(c)[u] = 1 .. Len(queue[c][u]) - k
      /\ \A i \in 1 .. Len(queue[c][u]) - k : PoppedQueue(c)[u][i] = queue[c][u][k + i]
  <2> DEFINE q == queue[c][u]
  <2>1. q \in Seq(Proc \cup {None}) /\ k \in 1 .. Len(q)
    BY <1>1, <1>2, <1>4
  <2> HIDE DEF q, k
  <2>2. /\ SubSeq(q, k + 1, Len(q)) \in Seq(Proc \cup {None})
        /\ DOMAIN SubSeq(q, k + 1, Len(q)) = 1 .. Len(q) - k
        /\ \A i \in 1 .. Len(q) - k : SubSeq(q, k + 1, Len(q))[i] = q[k + i]
    BY <2>1, Behind
  <2> QED
    BY <2>2, <1>3, Zenon DEF q
<1>6. \A t \in Tenant : Live(c, t) # {} => Kept(t)
  <2> TAKE t \in Tenant
  <2> HAVE Live(c, t) # {}
  <2>1. queue[c][t] # <<>>
    BY <1>2 DEF Live
  <2>2. PICK i \in DOMAIN order[c] : order[c][i] = t
    BY <2>1 DEF RotationCoherent
  <2>3. i \in LiveAt(c)
    BY <2>2 DEF LiveAt
  <2> QED
    BY <2>2, <2>3, PoppedOrderIs
<1>7. Kept(u)
  <2>1. NextAt(c) \in LiveAt(c)
    BY NextAtIs
  <2> QED
    BY <2>1, PoppedOrderIs DEF NextTenant
<1> HIDE DEF u, k, Kept
<1>8. PoppedQueue(c) \in [Tenant -> Seq(Proc \cup {None})]
  <2>1. \A t \in Tenant : PoppedQueue(c)[t] \in Seq(Proc \cup {None})
    <3> TAKE t \in Tenant
    <3>1. CASE t = u
      BY <3>1, <1>5
    <3>2. CASE t # u
      <4>1. PoppedQueue(c)[t] = queue[c][t] \/ PoppedQueue(c)[t] = <<>>
        BY <3>2, <1>3, Zenon
      <4> QED
        BY <4>1, <1>2, EmptySeq
    <3> QED
      BY <3>1, <3>2
  <2>2. PoppedQueue(c) = [t \in Tenant |-> PoppedQueue(c)[t]]
    BY DEF PoppedQueue
  <2> QED
    BY <2>1, <2>2
<1>9. ASSUME NEW p \in Waiters(c) \ {Chosen(c)}
      PROVE  Kept(ten[p]) /\ \E i \in DOMAIN PoppedQueue(c)[ten[p]] : PoppedQueue(c)[ten[p]][i] = p
  <2>1. p \in Proc /\ pc[p] = "waiting" /\ cls[p] = c /\ ten[p] \in Tenant /\ p # None
    BY ProcAssumption DEF Waiters, TypeOK
  <2>2. PICK i \in DOMAIN queue[c][ten[p]] : queue[c][ten[p]][i] = p
    BY <2>1 DEF QueueCoherent
  <2>3. i \in Live(c, ten[p])
    BY <2>1, <2>2 DEF Live
  <2>4. Kept(ten[p])
    BY <2>1, <2>3, <1>6
  <2>5. CASE ten[p] # u
    BY <2>1, <2>2, <2>4, <2>5, <1>3
  <2>6. CASE ten[p] = u
    <3>1. k <= i /\ i # k
      BY <2>2, <2>3, <2>6, <1>1
    <3>2. i - k \in 1 .. Len(queue[c][u]) - k /\ k + (i - k) = i
      BY <3>1, <2>2, <2>6, <1>1, <1>2, <1>4
    <3>3. PoppedQueue(c)[u][i - k] = p
      BY <3>2, <2>2, <2>6, <1>5
    <3> QED
      BY <3>2, <3>3, <2>4, <2>6, <1>5
  <2> QED
    BY <2>5, <2>6
<1>10. ASSUME NEW t \in Tenant, NEW i \in DOMAIN PoppedQueue(c)[t], PoppedQueue(c)[t][i] # None
       PROVE  LET p == PoppedQueue(c)[t][i]
              IN  /\ pc[p] = "waiting" /\ cls[p] = c /\ ten[p] = t /\ p # Chosen(c)
                  /\ \A j \in DOMAIN PoppedQueue(c)[t] : PoppedQueue(c)[t][j] = p => j = i
  <2>1. CASE t = u
    <3>1. \A j \in 1 .. Len(queue[c][u]) - k : k + j \in DOMAIN queue[c][u] /\ k + j # k
      BY <1>2, <1>4, <1>1
    <3>2. i \in 1 .. Len(queue[c][u]) - k /\ PoppedQueue(c)[t][i] = queue[c][u][k + i]
      BY <2>1, <1>5, <1>10
    <3>3. PICK p : p = queue[c][u][k + i]
      OBVIOUS
    <3>4. /\ pc[p] = "waiting" /\ cls[p] = c /\ ten[p] = u
          /\ \A j \in DOMAIN queue[c][u] : queue[c][u][j] = p => j = k + i
      BY <3>1, <3>2, <3>3, <1>1, <1>10 DEF QueueCoherent
    <3>5. p # Chosen(c)
      BY <3>1, <3>2, <3>4, <1>1
    <3>6. ASSUME NEW j \in 1 .. Len(queue[c][u]) - k, queue[c][u][k + j] = p PROVE j = i
      <4>1. k + j = k + i
        BY <3>1, <3>4, <3>6
      <4> QED
        BY <4>1, <3>2, <1>4
    <3> QED
      BY <3>2, <3>3, <3>4, <3>5, <3>6, <2>1, <1>5
  <2>2. CASE t # u
    <3>1. PoppedQueue(c)[t] = queue[c][t]
      BY <2>2, <1>3, <1>10
    <3>2. LET p == queue[c][t][i]
          IN  /\ pc[p] = "waiting" /\ cls[p] = c /\ ten[p] = t
              /\ \A j \in DOMAIN queue[c][t] : queue[c][t][j] = p => j = i
      BY <3>1, <1>10 DEF QueueCoherent
    <3> QED
      BY <3>1, <3>2, <2>2, <1>1
  <2> QED
    BY <2>1, <2>2
<1>11. \A t \in Tenant : PoppedQueue(c)[t] # <<>> => Kept(t)
  BY <1>3, <1>7
<1> QED
  BY <1>8, <1>9, <1>10, <1>11 DEF Kept

-----------------------------------------------------------------------------
\* The invariant.

\* The processes are finitely many, so the sets the counters count are finite.
LEMMA FiniteParts ==
    /\ IsFiniteSet(Holding)
    /\ IsFiniteSet({p \in Holding : cls[p] = "bootstrap"})
    /\ \A c \in Class : IsFiniteSet(Waiters(c))
<1>1. Holding \in SUBSET Proc /\ {p \in Holding : cls[p] = "bootstrap"} \in SUBSET Proc
  BY DEF Holding
<1>2. \A c \in Class : Waiters(c) \in SUBSET Proc
  BY DEF Waiters
<1> QED
  BY <1>1, <1>2, ProcAssumption, FS_Subset

\* A queue that pop finds without a waiter belongs to a class nobody waits in.
LEMMA EmptyClass ==
    ASSUME TypeOK, QueueCoherent, NEW c \in Class, LiveAt(c) = {}
    PROVE  Waiters(c) = {}
<1> SUFFICES ASSUME NEW p \in Waiters(c) PROVE FALSE
  OBVIOUS
<1>1. p \in Proc /\ pc[p] = "waiting" /\ cls[p] = c /\ ten[p] \in Tenant /\ p # None
  BY ProcAssumption DEF Waiters, TypeOK
<1>2. PICK i \in DOMAIN queue[c][ten[p]] : queue[c][ten[p]][i] = p
  BY <1>1 DEF QueueCoherent
<1>3. PICK j \in DOMAIN order[c] : order[c][j] = ten[p]
  BY <1>1 DEF QueueCoherent
<1>4. j \in LiveAt(c)
  BY <1>1, <1>2, <1>3 DEF LiveAt, Live
<1> QED
  BY <1>4

\* One iteration of dispatchLocked that grants a permit keeps the invariant.
LEMMA HandInv ==
    ASSUME AdmissionInv, NEW c \in Class, NEW vain \in SUBSET Class, c \notin vain,
           LiveAt(c) # {}, \A k \in vain : LiveAt(k) = {}, InLoop, Hand(c, vain)
    PROVE  AdmissionInv'
<1> DEFINE p == Chosen(c)
<1> USE DEF AdmissionInv
<1>1. /\ p \in Proc /\ pc[p] = "waiting" /\ cls[p] = c /\ ten[p] = NextTenant(c)
      /\ p \in Waiters(c) /\ p \notin Holding
  BY ChosenIs DEF Waiters, Holding
<1>2. /\ queue' = [k \in Class |-> IF k = c THEN PoppedQueue(c)
                                   ELSE IF k \in vain THEN [t \in Tenant |-> <<>>] ELSE queue[k]]
      /\ order' = [k \in Class |-> IF k = c THEN PoppedOrder(c)
                                   ELSE IF k \in vain THEN <<>> ELSE order[k]]
      /\ cursor' = [k \in Class |-> IF k = c THEN PoppedCursor(c)
                                    ELSE IF k \in vain /\ order[k] # <<>> THEN 0 ELSE cursor[k]]
      /\ waiting' = [waiting EXCEPT ![c] = @ - 1]
  BY DEF Hand, Pop
<1>3. /\ active' = active + 1
      /\ bootstrapActive' = IF c = "bootstrap" THEN bootstrapActive + 1 ELSE bootstrapActive
      /\ pc' = [pc EXCEPT ![p] = "granted"]
      /\ age' = [age EXCEPT ![p] = 0]
      /\ cls' = cls /\ ten' = ten /\ dispatching' = dispatching
      /\ dispatching /\ active < TotalPermits
  BY DEF Hand, Grant, InLoop
<1>4. /\ PoppedQueue(c) \in [Tenant -> Seq(Proc \cup {None})]
      /\ PoppedOrder(c) \in Seq(Tenant) /\ PoppedCursor(c) \in Nat /\ Distinct(PoppedOrder(c))
  BY PoppedQueueIs, PoppedOrderIs
<1>5. \A k \in vain : Waiters(k) = {}
  BY EmptyClass
<1> HIDE DEF p
<1>6. TypeOK'
  <2>1. queue' \in [Class -> [Tenant -> Seq(Proc \cup {None})]]
    BY <1>2, <1>4 DEF TypeOK
  <2>2. order' \in [Class -> Seq(Tenant)] /\ cursor' \in [Class -> Nat]
    BY <1>2, <1>4 DEF TypeOK
  <2>3. waiting' \in [Class -> Int] /\ active' \in Int /\ bootstrapActive' \in Int
    BY <1>2, <1>3 DEF TypeOK
  <2>4. age' \in [Proc -> 0 .. MaxAge]
    BY <1>1, <1>3, PermitsAssumption DEF TypeOK, MaxAge
  <2>5. /\ pc' \in [Proc -> {"idle", "waiting", "granted", "executing"}]
        /\ \A r \in Proc : pc'[r] # "idle" => cls'[r] \in Class /\ ten'[r] \in Tenant
    BY <1>1, <1>3 DEF TypeOK
  <2> QED
    BY <2>1, <2>2, <2>3, <2>4, <2>5, <1>3 DEF TypeOK
<1>7. PermitAccounting'
  <2>1. Holding' = Holding \cup {p}
    BY <1>1, <1>3 DEF Holding, TypeOK
  <2>2. {r \in Holding : cls[r] = "bootstrap"}' =
            IF c = "bootstrap" THEN {r \in Holding : cls[r] = "bootstrap"} \cup {p}
            ELSE {r \in Holding : cls[r] = "bootstrap"}
    BY <2>1, <1>1, <1>3
  <2>3. Cardinality(Holding') = Cardinality(Holding) + 1
    BY <2>1, <1>1, FiniteParts, FS_AddElement
  <2>4. Cardinality({r \in Holding : cls[r] = "bootstrap"}') =
            IF c = "bootstrap" THEN Cardinality({r \in Holding : cls[r] = "bootstrap"}) + 1
            ELSE Cardinality({r \in Holding : cls[r] = "bootstrap"})
    BY <2>2, <1>1, FiniteParts, FS_AddElement
  <2> QED
    BY <2>3, <2>4, <1>3, PermitsAssumption DEF PermitAccounting, TypeOK
<1>8. \A k \in Class : Waiters(k)' = IF k = c THEN Waiters(k) \ {p} ELSE Waiters(k)
  BY <1>1, <1>3 DEF Waiters, TypeOK
<1>9. QueueCoherent'
  <2>1. ASSUME NEW r \in Proc, pc'[r] = "waiting"
        PROVE  /\ \E i \in DOMAIN queue'[cls'[r]][ten'[r]] : queue'[cls'[r]][ten'[r]][i] = r
               /\ \E i \in DOMAIN order'[cls'[r]] : order'[cls'[r]][i] = ten'[r]
    <3>1. pc[r] = "waiting" /\ r # p /\ cls[r] \in Class /\ ten[r] \in Tenant
      BY <2>1, <1>1, <1>3 DEF TypeOK
    <3>2. CASE cls[r] = c
      <4>1. r \in Waiters(c) \ {p}
        BY <3>1, <3>2 DEF Waiters
      <4>2. queue'[cls'[r]] = PoppedQueue(c) /\ order'[cls'[r]] = PoppedOrder(c)
        BY <3>1, <3>2, <1>2, <1>3
      <4> QED
        BY <4>1, <4>2, <1>3, PoppedQueueIs DEF p
    <3>3. CASE cls[r] # c
      <4>1. cls[r] \notin vain
        BY <3>1, <1>5 DEF Waiters
      <4>2. queue'[cls'[r]] = queue[cls[r]] /\ order'[cls'[r]] = order[cls[r]]
        BY <4>1, <3>1, <3>3, <1>2, <1>3
      <4> QED
        BY <4>2, <3>1, <1>3 DEF QueueCoherent
    <3> QED
      BY <3>2, <3>3
  <2>2. ASSUME NEW k \in Class, NEW t \in Tenant, NEW i \in DOMAIN queue'[k][t], queue'[k][t][i] # None
        PROVE  LET r == queue'[k][t][i]
               IN  /\ pc'[r] = "waiting" /\ cls'[r] = k /\ ten'[r] = t
                   /\ \A j \in DOMAIN queue'[k][t] : queue'[k][t][j] = r => j = i
    <3> DEFINE r == queue'[k][t][i]
    <3>0. r \in Proc
      <4>1. queue'[k][t] \in Seq(Proc \cup {None})
        <5>1. queue' \in [Class -> [Tenant -> Seq(Proc \cup {None})]]
          BY <1>6 DEF TypeOK
        <5> QED
          BY <5>1
      <4> QED
        BY <4>1, <2>2
    <3>1. CASE k = c
      <4>1. queue'[k] = PoppedQueue(c)
        BY <3>1, <1>2
      <4>2. /\ pc[r] = "waiting" /\ cls[r] = c /\ ten[r] = t /\ r # p
            /\ \A j \in DOMAIN queue'[k][t] : queue'[k][t][j] = r => j = i
        BY <4>1, <2>2, PoppedQueueIs DEF p
      <4>3. pc'[r] = "waiting"
        BY <4>2, <3>0, <1>1, <1>3 DEF TypeOK
      <4> QED
        BY <4>2, <4>3, <3>1, <1>3
    <3>2. CASE k # c
      <4>1. k \notin vain /\ queue'[k] = queue[k]
        <5>1. k \in vain => queue'[k][t] = <<>>
          BY <3>2, <1>2
        <5>2. k \notin vain
          BY <5>1, <2>2
        <5> QED
          BY <5>2, <3>2, <1>2
      <4>2. /\ pc[r] = "waiting" /\ cls[r] = k /\ ten[r] = t
            /\ \A j \in DOMAIN queue'[k][t] : queue'[k][t][j] = r => j = i
        BY <4>1, <2>2 DEF QueueCoherent
      <4>3. pc'[r] = "waiting"
        BY <4>2, <3>0, <3>2, <1>1, <1>3 DEF TypeOK
      <4> QED
        BY <4>2, <4>3, <1>3
    <3> QED
      BY <3>1, <3>2
  <2> QED
    BY <2>1, <2>2 DEF QueueCoherent
<1>10. RotationCoherent'
  <2> SUFFICES ASSUME NEW k \in Class
               PROVE  /\ \A i, j \in DOMAIN order'[k] : order'[k][i] = order'[k][j] => i = j
                      /\ \A t \in Tenant : queue'[k][t] # <<>>
                             => \E i \in DOMAIN order'[k] : order'[k][i] = t
    BY DEF RotationCoherent
  <2>1. CASE k = c
    <3>1. queue'[k] = PoppedQueue(c) /\ order'[k] = PoppedOrder(c)
      BY <2>1, <1>2
    <3> QED
      BY <3>1, <1>4, PoppedQueueIs DEF Distinct
  <2>2. CASE k # c /\ k \in vain
    <3>1. order'[k] = <<>> /\ \A t \in Tenant : queue'[k][t] = <<>>
      BY <2>2, <1>2
    <3> QED
      BY <3>1
  <2>3. CASE k # c /\ k \notin vain
    <3>1. queue'[k] = queue[k] /\ order'[k] = order[k]
      BY <2>3, <1>2
    <3> QED
      BY <3>1 DEF RotationCoherent
  <2> QED
    BY <2>1, <2>2, <2>3
<1>11. CountsCoherent'
  <2>1. Cardinality(Waiters(c) \ {p}) = Cardinality(Waiters(c)) - 1
    BY <1>1, FiniteParts, FS_RemoveElement
  <2>2. \A k \in Class : waiting'[k] = IF k = c THEN waiting[k] - 1 ELSE waiting[k]
    BY <1>2 DEF TypeOK
  <2>3. ASSUME NEW k \in Class PROVE waiting'[k] = Cardinality(Waiters(k)')
    <3>1. CASE k = c
      BY <3>1, <2>1, <2>2, <1>8 DEF CountsCoherent
    <3>2. CASE k # c
      BY <3>2, <2>2, <1>8 DEF CountsCoherent
    <3> QED
      BY <3>1, <3>2
  <2> QED
    BY <2>3 DEF CountsCoherent
<1>12. WorkConserving'
  BY <1>3 DEF WorkConserving
<1> QED
  BY <1>6, <1>7, <1>9, <1>10, <1>11, <1>12

\* What keeps the accounting of permits when goroutine p hands one back.
LEMMA GiveBackCounts ==
    ASSUME AdmissionInv, NEW p \in Holding, GiveBack(p)
    PROVE  PermitAccounting'
<1> USE DEF AdmissionInv
<1>1. /\ p \in Proc /\ cls[p] \in Class
      /\ pc' = [pc EXCEPT ![p] = "idle"] /\ cls' = [cls EXCEPT ![p] = None]
      /\ active' = active - 1
      /\ bootstrapActive' = IF cls[p] = "bootstrap" THEN bootstrapActive - 1 ELSE bootstrapActive
  BY DEF GiveBack, Return, Holding, TypeOK
<1>2. Holding' = Holding \ {p}
  BY <1>1 DEF Holding, TypeOK
<1>3. {r \in Holding : cls[r] = "bootstrap"}' =
          IF cls[p] = "bootstrap" THEN {r \in Holding : cls[r] = "bootstrap"} \ {p}
          ELSE {r \in Holding : cls[r] = "bootstrap"}
  <2>1. \A r \in Holding \ {p} : cls'[r] = cls[r]
    BY <1>1 DEF Holding, TypeOK
  <2> QED
    BY <2>1, <1>2
<1>4. Cardinality(Holding') = Cardinality(Holding) - 1
  BY <1>2, FiniteParts, FS_RemoveElement
<1>5. Cardinality({r \in Holding : cls[r] = "bootstrap"}') =
          IF cls[p] = "bootstrap" THEN Cardinality({r \in Holding : cls[r] = "bootstrap"}) - 1
          ELSE Cardinality({r \in Holding : cls[r] = "bootstrap"})
  <2> DEFINE B == {r \in Holding : cls[r] = "bootstrap"}
  <2>1. IsFiniteSet(B) /\ (cls[p] = "bootstrap" => p \in B)
    BY FiniteParts
  <2> HIDE DEF B
  <2>2. Cardinality(B \ {p}) = IF p \in B THEN Cardinality(B) - 1 ELSE Cardinality(B)
    BY <2>1, FS_RemoveElement
  <2>3. B' = IF cls[p] = "bootstrap" THEN B \ {p} ELSE B
    BY <1>3 DEF B
  <2>4. Cardinality(B') = IF cls[p] = "bootstrap" THEN Cardinality(B) - 1 ELSE Cardinality(B)
    BY <2>1, <2>2, <2>3
  <2> QED
    BY <2>4 DEF B
<1> QED
  BY <1>1, <1>4, <1>5, PermitsAssumption DEF PermitAccounting, TypeOK

\* Handing a permit back, by release or by a cancellation that lost the race,
\* keeps the invariant.
LEMMA GiveBackInv ==
    ASSUME AdmissionInv, NEW p \in Holding, GiveBack(p)
    PROVE  AdmissionInv'
<1> USE DEF AdmissionInv
<1>1. /\ p \in Proc /\ pc[p] # "waiting"
      /\ pc' = [pc EXCEPT ![p] = "idle"] /\ cls' = [cls EXCEPT ![p] = None]
      /\ ten' = [ten EXCEPT ![p] = None]
      /\ dispatching' = TRUE /\ UNCHANGED <<age, queue, order, cursor, waiting>>
      /\ active' \in Int /\ bootstrapActive' \in Int
  BY DEF GiveBack, Return, Holding, TypeOK, queueVars
<1>2. TypeOK'
  BY <1>1 DEF TypeOK
<1>3. \A k \in Class : Waiters(k)' = Waiters(k)
  BY <1>1 DEF Waiters, TypeOK
<1>4. QueueCoherent'
  <2>1. \A r \in Proc : pc[r] = "waiting" =>
            r # p /\ pc'[r] = "waiting" /\ cls'[r] = cls[r] /\ ten'[r] = ten[r]
    BY <1>1 DEF TypeOK
  <2>2. \A r \in Proc : pc'[r] = "waiting" => pc[r] = "waiting"
    BY <1>1 DEF TypeOK
  <2>3. \A c \in Class, t \in Tenant : \A i \in DOMAIN queue[c][t] :
            queue[c][t][i] # None => queue[c][t][i] \in Proc
    BY DEF TypeOK
  <2> QED
    BY <2>1, <2>2, <2>3, <1>1 DEF QueueCoherent
<1>5. RotationCoherent'
  BY <1>1 DEF RotationCoherent
<1>6. CountsCoherent'
  BY <1>1, <1>3 DEF CountsCoherent
<1>7. WorkConserving'
  BY <1>1 DEF WorkConserving
<1> QED
  BY <1>2, <1>4, <1>5, <1>6, <1>7, GiveBackCounts

\* A waiter that gives up leaves the queues and the counts coherent.
LEMMA CancelWaitingInv ==
    ASSUME AdmissionInv, NEW p \in Proc, CancelWaiting(p)
    PROVE  AdmissionInv'
<1> USE DEF AdmissionInv
<1> DEFINE c == cls[p]
           t == ten[p]
           q == queue[c][t]
           qq == [i \in DOMAIN q |-> IF q[i] = p THEN None ELSE q[i]]
<1>1. /\ pc[p] = "waiting" /\ c \in Class /\ t \in Tenant /\ p # None
      /\ pc' = [pc EXCEPT ![p] = "idle"] /\ cls' = [cls EXCEPT ![p] = None]
      /\ ten' = [ten EXCEPT ![p] = None] /\ age' = [age EXCEPT ![p] = 0]
      /\ waiting' = [waiting EXCEPT ![c] = @ - 1]
      /\ dispatching' = TRUE /\ UNCHANGED <<order, cursor, active, bootstrapActive>>
  BY ProcAssumption DEF CancelWaiting, Return, Discard, TypeOK
<1>2. queue' = [queue EXCEPT ![c][t] = qq]
  BY DEF CancelWaiting, Discard
<1>3. /\ q \in Seq(Proc \cup {None}) /\ DOMAIN q = 1 .. Len(q) /\ Len(q) \in Nat
  BY <1>1 DEF TypeOK
<1>4. qq \in Seq(Proc \cup {None}) /\ DOMAIN qq = DOMAIN q
  <2>1. \A i \in 1 .. Len(q) : q[i] \in Proc \cup {None}
    BY <1>3
  <2>2. qq \in [1 .. Len(q) -> Proc \cup {None}]
    BY <2>1, <1>3
  <2> QED
    BY <2>2, <1>3, SeqDef
<1> HIDE DEF qq
<1>5. /\ queue'[c][t] = qq
      /\ \A k \in Class, u \in Tenant : k # c \/ u # t => queue'[k][u] = queue[k][u]
      /\ queue' \in [Class -> [Tenant -> Seq(Proc \cup {None})]]
  BY <1>1, <1>2, <1>4 DEF TypeOK
<1>6. TypeOK'
  <2>1. age' \in [Proc -> 0 .. MaxAge]
    BY <1>1, PermitsAssumption DEF TypeOK, MaxAge
  <2>2. /\ pc' \in [Proc -> {"idle", "waiting", "granted", "executing"}]
        /\ cls' \in [Proc -> Class \cup {None}] /\ ten' \in [Proc -> Tenant \cup {None}]
        /\ \A r \in Proc : pc'[r] # "idle" => cls'[r] \in Class /\ ten'[r] \in Tenant
    BY <1>1 DEF TypeOK
  <2>3. waiting' \in [Class -> Int]
    BY <1>1 DEF TypeOK
  <2> QED
    BY <2>1, <2>2, <2>3, <1>1, <1>5 DEF TypeOK
<1>7. \A k \in Class : Waiters(k)' = IF k = c THEN Waiters(k) \ {p} ELSE Waiters(k)
  BY <1>1 DEF Waiters, TypeOK
<1>8. PermitAccounting'
  <2>1. Holding' = Holding /\ \A r \in Holding : cls'[r] = cls[r]
    BY <1>1 DEF Holding, TypeOK
  <2>2. {r \in Holding : cls[r] = "bootstrap"}' = {r \in Holding : cls[r] = "bootstrap"}
    BY <2>1
  <2> QED
    BY <2>1, <2>2, <1>1 DEF PermitAccounting
<1>9. QueueCoherent'
  <2>1. ASSUME NEW r \in Proc, pc'[r] = "waiting"
        PROVE  /\ \E i \in DOMAIN queue'[cls'[r]][ten'[r]] : queue'[cls'[r]][ten'[r]][i] = r
               /\ \E i \in DOMAIN order'[cls'[r]] : order'[cls'[r]][i] = ten'[r]
    <3>1. /\ r # p /\ pc[r] = "waiting" /\ cls'[r] = cls[r] /\ ten'[r] = ten[r]
          /\ cls[r] \in Class /\ ten[r] \in Tenant
      BY <2>1, <1>1 DEF TypeOK
    <3>2. PICK i \in DOMAIN queue[cls[r]][ten[r]] : queue[cls[r]][ten[r]][i] = r
      BY <3>1 DEF QueueCoherent
    <3>3. CASE cls[r] = c /\ ten[r] = t
      <4>1. i \in DOMAIN qq /\ qq[i] = r
        BY <3>1, <3>2, <3>3, <1>4 DEF qq
      <4> QED
        BY <4>1, <3>1, <3>3, <1>1, <1>5 DEF QueueCoherent
    <3>4. CASE ~(cls[r] = c /\ ten[r] = t)
      <4>1. queue'[cls'[r]][ten'[r]] = queue[cls[r]][ten[r]]
        BY <3>1, <3>4, <1>5
      <4> QED
        BY <4>1, <3>1, <3>2, <1>1 DEF QueueCoherent
    <3> QED
      BY <3>3, <3>4
  <2>2. ASSUME NEW k \in Class, NEW u \in Tenant, NEW i \in DOMAIN queue'[k][u], queue'[k][u][i] # None
        PROVE  LET r == queue'[k][u][i]
               IN  /\ pc'[r] = "waiting" /\ cls'[r] = k /\ ten'[r] = u
                   /\ \A j \in DOMAIN queue'[k][u] : queue'[k][u][j] = r => j = i
    <3> DEFINE r == queue'[k][u][i]
    <3>1. /\ DOMAIN queue'[k][u] = DOMAIN queue[k][u] /\ r = queue[k][u][i] /\ r # p
          /\ \A j \in DOMAIN queue[k][u] : queue'[k][u][j] = r => queue[k][u][j] = r
      <4>1. CASE k = c /\ u = t
        <5>1. queue[k][u] = q /\ queue'[k][u] = qq /\ DOMAIN qq = DOMAIN q
          BY <4>1, <1>4, <1>5
        <5>2. \A j \in DOMAIN q : qq[j] = IF q[j] = p THEN None ELSE q[j]
          BY DEF qq
        <5>3. qq[i] # None /\ i \in DOMAIN q
          BY <5>1, <2>2
        <5>4. qq[i] = q[i] /\ q[i] # p
          BY <5>2, <5>3
        <5>5. \A j \in DOMAIN q : qq[j] = qq[i] => q[j] = qq[i]
          BY <5>2, <5>3
        <5> HIDE DEF q, c, t
        <5> QED
          BY <5>1, <5>4, <5>5
      <4>2. CASE ~(k = c /\ u = t)
        <5>1. queue'[k][u] = queue[k][u]
          BY <4>2, <1>5
        <5>2. cls[queue[k][u][i]] = k /\ ten[queue[k][u][i]] = u
          BY <5>1, <2>2 DEF QueueCoherent
        <5> QED
          BY <5>1, <5>2, <4>2
      <4> QED
        BY <4>1, <4>2
    <3>2. /\ pc[r] = "waiting" /\ cls[r] = k /\ ten[r] = u
          /\ \A j \in DOMAIN queue[k][u] : queue[k][u][j] = r => j = i
      BY <3>1, <2>2 DEF QueueCoherent
    <3>3. r \in Proc
      BY <3>1, <2>2 DEF TypeOK
    <3>4. pc'[r] = "waiting" /\ cls'[r] = k /\ ten'[r] = u
      BY <3>1, <3>2, <3>3, <1>1 DEF TypeOK
    <3> QED
      BY <3>1, <3>2, <3>4
  <2> QED
    BY <2>1, <2>2 DEF QueueCoherent
<1>10. RotationCoherent'
  <2> SUFFICES ASSUME NEW k \in Class
               PROVE  /\ \A i, j \in DOMAIN order'[k] : order'[k][i] = order'[k][j] => i = j
                      /\ \A u \in Tenant : queue'[k][u] # <<>>
                             => \E i \in DOMAIN order'[k] : order'[k][i] = u
    BY DEF RotationCoherent
  <2>1. ASSUME NEW u \in Tenant, queue'[k][u] # <<>>
        PROVE  \E i \in DOMAIN order[k] : order[k][i] = u
    <3>1. CASE k = c /\ u = t
      BY <3>1, <1>1 DEF QueueCoherent
    <3>2. CASE ~(k = c /\ u = t)
      <4>1. queue'[k][u] = queue[k][u]
        BY <3>2, <1>5
      <4> QED
        BY <4>1, <2>1 DEF RotationCoherent
    <3> QED
      BY <3>1, <3>2
  <2> QED
    BY <2>1, <1>1 DEF RotationCoherent
<1>11. CountsCoherent'
  <2>1. p \in Waiters(c)
    BY <1>1 DEF Waiters
  <2>2. Cardinality(Waiters(c) \ {p}) = Cardinality(Waiters(c)) - 1
    BY <2>1, <1>1, FiniteParts, FS_RemoveElement
  <2>3. \A k \in Class : waiting'[k] = IF k = c THEN waiting[k] - 1 ELSE waiting[k]
    BY <1>1 DEF TypeOK
  <2> HIDE DEF c
  <2>4. ASSUME NEW k \in Class PROVE waiting'[k] = Cardinality(Waiters(k)')
    <3>1. CASE k = c
      BY <3>1, <2>2, <2>3, <1>7 DEF CountsCoherent
    <3>2. CASE k # c
      BY <3>2, <2>3, <1>7 DEF CountsCoherent
    <3> QED
      BY <3>1, <3>2
  <2> QED
    BY <2>4 DEF CountsCoherent
<1>12. WorkConserving'
  BY <1>1 DEF WorkConserving
<1> QED
  BY <1>6, <1>8, <1>9, <1>10, <1>11, <1>12

\* An acquire that has to queue: it only does when the cap is reached, and it
\* is appended to its tenant's queue.
LEMMA AcquireWaitInv ==
    ASSUME AdmissionInv, NEW p \in Proc, NEW c \in Class, NEW t \in Tenant, AcquireWait(p, c, t)
    PROVE  AdmissionInv'
<1> USE DEF AdmissionInv
<1> DEFINE q == queue[c][t]
           In(k, u) == \E i \in DOMAIN order[k] : order[k][i] = u
<1>1. /\ pc[p] = "idle" /\ ~dispatching /\ ~Admissible(c)
      /\ pc' = [pc EXCEPT ![p] = "waiting"] /\ cls' = [cls EXCEPT ![p] = c]
      /\ ten' = [ten EXCEPT ![p] = t] /\ age' = [age EXCEPT ![p] = 0]
      /\ queue' = [queue EXCEPT ![c][t] = Append(@, p)]
      /\ order' = [order EXCEPT ![c] = IF In(c, t) THEN @ ELSE Append(@, t)]
      /\ waiting' = [waiting EXCEPT ![c] = @ + 1]
      /\ UNCHANGED <<cursor, active, bootstrapActive, dispatching>>
  BY DEF AcquireWait, Push
<1>2. q \in Seq(Proc \cup {None}) /\ order[c] \in Seq(Tenant) /\ Len(q) \in Nat /\ DOMAIN q = 1 .. Len(q)
  BY DEF TypeOK
<1>3. /\ Append(q, p) \in Seq(Proc \cup {None}) /\ DOMAIN Append(q, p) = 1 .. Len(q) + 1
      /\ \A i \in 1 .. Len(q) : Append(q, p)[i] = q[i]
      /\ Append(q, p)[Len(q) + 1] = p
  BY <1>2, AppendProperties, LenProperties
<1>4. /\ queue'[c][t] = Append(q, p)
      /\ \A k \in Class, u \in Tenant : k # c \/ u # t => queue'[k][u] = queue[k][u]
      /\ queue' \in [Class -> [Tenant -> Seq(Proc \cup {None})]]
  BY <1>1, <1>3 DEF TypeOK
<1>5. /\ order' \in [Class -> Seq(Tenant)]
      /\ \A k \in Class \ {c} : order'[k] = order[k]
      /\ order'[c] = IF In(c, t) THEN order[c] ELSE Append(order[c], t)
  <2>1. Append(order[c], t) \in Seq(Tenant)
    BY <1>2, AppendProperties
  <2> HIDE DEF In
  <2> QED
    BY <2>1, <1>1 DEF TypeOK
<1>6. /\ \A k \in Class, u \in Tenant : In(k, u) => \E i \in DOMAIN order'[k] : order'[k][i] = u
      /\ \E i \in DOMAIN order'[c] : order'[c][i] = t
      /\ Distinct(order'[c])
  <2> DEFINE o == order[c]
  <2>1. /\ Len(o) \in Nat /\ DOMAIN o = 1 .. Len(o) /\ DOMAIN Append(o, t) = 1 .. Len(o) + 1
        /\ \A i \in 1 .. Len(o) : Append(o, t)[i] = o[i]
        /\ Append(o, t)[Len(o) + 1] = t
    BY <1>2, AppendProperties, LenProperties
  <2>2. Distinct(o)
    BY DEF RotationCoherent, Distinct
  <2>3. CASE In(c, t)
    BY <2>2, <2>3, <1>5
  <2>4. CASE ~In(c, t)
    <3>1. order'[c] = Append(o, t)
      BY <2>4, <1>5
    <3>2. Distinct(Append(o, t))
      BY <2>1, <2>2, <2>4 DEF Distinct
    <3>3. ASSUME NEW k \in Class, NEW u \in Tenant, In(k, u)
          PROVE  \E i \in DOMAIN order'[k] : order'[k][i] = u
      <4>1. CASE k = c
        <5>1. PICK i \in DOMAIN o : o[i] = u
          BY <4>1, <3>3
        <5>2. i \in DOMAIN order'[c] /\ order'[c][i] = u
          BY <5>1, <3>1, <2>1
        <5> QED
          BY <5>2, <4>1
      <4>2. CASE k # c
        BY <4>2, <3>3, <1>5
      <4> QED
        BY <4>1, <4>2
    <3> QED
      BY <3>1, <3>2, <3>3, <2>1
  <2> QED
    BY <2>3, <2>4
<1>7. TypeOK'
  <2>1. age' \in [Proc -> 0 .. MaxAge]
    BY <1>1, PermitsAssumption DEF TypeOK, MaxAge
  <2>2. /\ pc' \in [Proc -> {"idle", "waiting", "granted", "executing"}]
        /\ cls' \in [Proc -> Class \cup {None}] /\ ten' \in [Proc -> Tenant \cup {None}]
        /\ \A r \in Proc : pc'[r] # "idle" => cls'[r] \in Class /\ ten'[r] \in Tenant
    BY <1>1 DEF TypeOK
  <2>3. waiting' \in [Class -> Int]
    BY <1>1 DEF TypeOK
  <2> QED
    BY <2>1, <2>2, <2>3, <1>1, <1>4, <1>5 DEF TypeOK
<1>8. \A k \in Class : Waiters(k)' = IF k = c THEN Waiters(k) \cup {p} ELSE Waiters(k)
  BY <1>1 DEF Waiters, TypeOK
<1>9. PermitAccounting'
  <2>1. Holding' = Holding /\ \A r \in Holding : cls'[r] = cls[r]
    BY <1>1 DEF Holding, TypeOK
  <2>2. {r \in Holding : cls[r] = "bootstrap"}' = {r \in Holding : cls[r] = "bootstrap"}
    BY <2>1
  <2> QED
    BY <2>1, <2>2, <1>1 DEF PermitAccounting
<1>10. \A k \in Class, u \in Tenant : \A i \in DOMAIN queue[k][u] : queue[k][u][i] # p
  BY <1>1, ProcAssumption DEF QueueCoherent
<1>11. QueueCoherent'
  <2>1. ASSUME NEW r \in Proc, pc'[r] = "waiting"
        PROVE  /\ \E i \in DOMAIN queue'[cls'[r]][ten'[r]] : queue'[cls'[r]][ten'[r]][i] = r
               /\ \E i \in DOMAIN order'[cls'[r]] : order'[cls'[r]][i] = ten'[r]
    <3>1. CASE r = p
      <4>1. cls'[r] = c /\ ten'[r] = t
        BY <3>1, <1>1 DEF TypeOK
      <4>2. Len(q) + 1 \in DOMAIN queue'[c][t] /\ queue'[c][t][Len(q) + 1] = p
        BY <1>2, <1>3, <1>4
      <4>3. \E i \in DOMAIN queue'[c][t] : queue'[c][t][i] = p
        BY <4>2, Zenon
      <4>4. \E i \in DOMAIN order'[c] : order'[c][i] = t
        BY <1>6
      <4> QED
        BY <4>1, <4>3, <4>4, <3>1, Zenon
    <3>2. CASE r # p
      <4>1. /\ pc[r] = "waiting" /\ cls'[r] = cls[r] /\ ten'[r] = ten[r]
            /\ cls[r] \in Class /\ ten[r] \in Tenant
        BY <2>1, <3>2, <1>1 DEF TypeOK
      <4>2. PICK i \in DOMAIN queue[cls[r]][ten[r]] : queue[cls[r]][ten[r]][i] = r
        BY <4>1 DEF QueueCoherent
      <4>3. i \in DOMAIN queue'[cls[r]][ten[r]] /\ queue'[cls[r]][ten[r]][i] = r
        <5>1. CASE cls[r] = c /\ ten[r] = t
          BY <5>1, <4>2, <1>2, <1>3, <1>4
        <5>2. CASE ~(cls[r] = c /\ ten[r] = t)
          BY <5>2, <4>1, <4>2, <1>4
        <5> QED
          BY <5>1, <5>2
      <4>4. In(cls[r], ten[r])
        BY <4>1 DEF QueueCoherent
      <4> QED
        BY <4>1, <4>3, <4>4, <1>6
    <3> QED
      BY <3>1, <3>2
  <2>2. ASSUME NEW k \in Class, NEW u \in Tenant, NEW i \in DOMAIN queue'[k][u], queue'[k][u][i] # None
        PROVE  LET r == queue'[k][u][i]
               IN  /\ pc'[r] = "waiting" /\ cls'[r] = k /\ ten'[r] = u
                   /\ \A j \in DOMAIN queue'[k][u] : queue'[k][u][j] = r => j = i
    <3> DEFINE r == queue'[k][u][i]
    <3>1. ASSUME i \in DOMAIN queue[k][u], r = queue[k][u][i]
          PROVE  /\ r # p /\ pc'[r] = "waiting" /\ cls'[r] = k /\ ten'[r] = u
                 /\ \A j \in DOMAIN queue[k][u] : queue[k][u][j] = r => j = i
      <4>1. /\ pc[r] = "waiting" /\ cls[r] = k /\ ten[r] = u
            /\ \A j \in DOMAIN queue[k][u] : queue[k][u][j] = r => j = i
        BY <3>1, <2>2 DEF QueueCoherent
      <4>2. r \in Proc /\ r # p
        BY <4>1, <3>1, <2>2, <1>1 DEF TypeOK
      <4> QED
        BY <4>1, <4>2, <1>1 DEF TypeOK
    <3>2. CASE k = c /\ u = t
      <4>1. i \in 1 .. Len(q) + 1 /\ r = Append(q, p)[i] /\ DOMAIN queue'[k][u] = 1 .. Len(q) + 1
        BY <3>2, <2>2, <1>3, <1>4
      <4>2. CASE i = Len(q) + 1
        <5>1. r = p /\ pc'[r] = "waiting" /\ cls'[r] = k /\ ten'[r] = u
          BY <4>1, <4>2, <3>2, <1>1, <1>3 DEF TypeOK
        <5>2. \A j \in 1 .. Len(q) : queue'[k][u][j] # p
          BY <3>2, <1>2, <1>3, <1>4, <1>10
        <5> QED
          BY <5>1, <5>2, <4>1, <4>2, <1>2
      <4>3. CASE i \in 1 .. Len(q)
        <5>1. i \in DOMAIN queue[k][u] /\ r = queue[k][u][i]
          BY <4>1, <4>3, <3>2, <1>2, <1>3
        <5>2. /\ r # p /\ pc'[r] = "waiting" /\ cls'[r] = k /\ ten'[r] = u
              /\ \A j \in DOMAIN queue[k][u] : queue[k][u][j] = r => j = i
          BY <5>1, <3>1
        <5>3. \A j \in 1 .. Len(q) : queue'[k][u][j] = r => j = i
          <6>1. \A j \in 1 .. Len(q) : j \in DOMAIN queue[k][u] /\ queue'[k][u][j] = queue[k][u][j]
            BY <3>2, <1>2, <1>3, <1>4
          <6> QED
            BY <6>1, <5>2
        <5>4. queue'[k][u][Len(q) + 1] # r
          BY <5>2, <3>2, <1>3, <1>4
        <5> QED
          BY <5>2, <5>3, <5>4, <4>1, <1>2, SMTT(60)
      <4> QED
        BY <4>1, <4>2, <4>3, <1>2
    <3>3. CASE ~(k = c /\ u = t)
      <4>1. queue'[k][u] = queue[k][u]
        BY <3>3, <1>4
      <4> QED
        BY <4>1, <3>1, <2>2
    <3> QED
      BY <3>2, <3>3
  <2> QED
    BY <2>1, <2>2 DEF QueueCoherent
<1>12. RotationCoherent'
  <2> SUFFICES ASSUME NEW k \in Class
               PROVE  /\ Distinct(order'[k])
                      /\ \A u \in Tenant : queue'[k][u] # <<>>
                             => \E i \in DOMAIN order'[k] : order'[k][i] = u
    BY DEF RotationCoherent, Distinct
  <2>1. Distinct(order'[k])
    <3>1. CASE k = c
      BY <3>1, <1>6
    <3>2. CASE k # c
      BY <3>2, <1>5 DEF RotationCoherent, Distinct
    <3> QED
      BY <3>1, <3>2
  <2>2. ASSUME NEW u \in Tenant, queue'[k][u] # <<>>
        PROVE  \E i \in DOMAIN order'[k] : order'[k][i] = u
    <3>1. CASE k = c /\ u = t
      BY <3>1, <1>6
    <3>2. CASE ~(k = c /\ u = t)
      <4>1. queue'[k][u] = queue[k][u]
        BY <3>2, <1>4
      <4>2. In(k, u)
        BY <4>1, <2>2 DEF RotationCoherent
      <4> QED
        BY <4>2, <1>6
    <3> QED
      BY <3>1, <3>2
  <2> QED
    BY <2>1, <2>2
<1>13. CountsCoherent'
  <2>1. Cardinality(Waiters(c) \cup {p}) = Cardinality(Waiters(c)) + 1
    <3>1. p \notin Waiters(c)
      BY <1>1 DEF Waiters
    <3> QED
      BY <3>1, FiniteParts, FS_AddElement
  <2>2. \A k \in Class : waiting'[k] = IF k = c THEN waiting[k] + 1 ELSE waiting[k]
    BY <1>1 DEF TypeOK
  <2>3. ASSUME NEW k \in Class PROVE waiting'[k] = Cardinality(Waiters(k)')
    <3>1. CASE k = c
      BY <3>1, <2>1, <2>2, <1>8 DEF CountsCoherent
    <3>2. CASE k # c
      BY <3>2, <2>2, <1>8 DEF CountsCoherent
    <3> QED
      BY <3>1, <3>2
  <2> QED
    BY <2>3 DEF CountsCoherent
<1>14. WorkConserving'
  <2>1. SUFFICES ASSUME active < TotalPermits PROVE FALSE
    BY <1>1 DEF WorkConserving
  <2>2. Waiters("reactive") = {} /\ Waiters("foreground") = {}
    BY <2>1, <1>1 DEF WorkConserving, Waiters
  <2>3. waiting["reactive"] = 0 /\ waiting["foreground"] = 0
    BY <2>2, FS_EmptySet DEF CountsCoherent, Class
  <2> QED
    BY <2>1, <2>3, <1>1 DEF Admissible, NoneAhead
<1> QED
  BY <1>7, <1>9, <1>11, <1>12, <1>13, <1>14

\* acquire on its fast path: a permit is free, so the goroutine takes it.
LEMMA AcquireNowInv ==
    ASSUME AdmissionInv, NEW p \in Proc, NEW c \in Class, NEW t \in Tenant, AcquireNow(p, c, t)
    PROVE  AdmissionInv'
<1> USE DEF AdmissionInv
<1>1. /\ pc[p] = "idle" /\ ~dispatching /\ active < TotalPermits
      /\ pc' = [pc EXCEPT ![p] = "executing"] /\ cls' = [cls EXCEPT ![p] = c]
      /\ ten' = [ten EXCEPT ![p] = t]
      /\ active' = active + 1
      /\ bootstrapActive' = IF c = "bootstrap" THEN bootstrapActive + 1 ELSE bootstrapActive
      /\ UNCHANGED <<age, queue, order, cursor, waiting, dispatching>>
  BY DEF AcquireNow, Admissible, Grant, queueVars
<1>2. TypeOK'
  BY <1>1 DEF TypeOK
<1>3. \A r \in Proc : pc'[r] = "waiting" <=> pc[r] = "waiting"
  BY <1>1 DEF TypeOK
<1>4. \A r \in Proc : pc[r] = "waiting" => cls'[r] = cls[r] /\ ten'[r] = ten[r]
  BY <1>1 DEF TypeOK
<1>5. PermitAccounting'
  <2> DEFINE B == {r \in Holding : cls[r] = "bootstrap"}
  <2>1. p \notin Holding /\ Holding' = Holding \cup {p}
    BY <1>1 DEF Holding, TypeOK
  <2>2. B' = IF c = "bootstrap" THEN B \cup {p} ELSE B
    <3>1. cls'[p] = c /\ \A r \in Holding : cls'[r] = cls[r]
      BY <1>1, <2>1 DEF Holding, TypeOK
    <3> QED
      BY <3>1, <2>1
  <2>3. IsFiniteSet(Holding) /\ IsFiniteSet(B) /\ p \notin B
    BY <2>1, FiniteParts
  <2> HIDE DEF B
  <2>4. Cardinality(Holding') = Cardinality(Holding) + 1
    BY <2>1, <2>3, FS_AddElement
  <2>5. Cardinality(B') = IF c = "bootstrap" THEN Cardinality(B) + 1 ELSE Cardinality(B)
    BY <2>2, <2>3, FS_AddElement
  <2> QED
    BY <2>4, <2>5, <1>1, PermitsAssumption DEF PermitAccounting, TypeOK, B
<1>6. QueueCoherent'
  <2>1. \A k \in Class, u \in Tenant : \A i \in DOMAIN queue[k][u] :
            queue[k][u][i] # None => queue[k][u][i] \in Proc
    BY DEF TypeOK
  <2> QED
    <3>1. ASSUME NEW r \in Proc, pc'[r] = "waiting"
          PROVE  /\ \E i \in DOMAIN queue[cls'[r]][ten'[r]] : queue[cls'[r]][ten'[r]][i] = r
                 /\ \E i \in DOMAIN order[cls'[r]] : order[cls'[r]][i] = ten'[r]
      BY <3>1, <1>3, <1>4 DEF QueueCoherent
    <3>2. ASSUME NEW k \in Class, NEW u \in Tenant, NEW i \in DOMAIN queue[k][u], queue[k][u][i] # None
          PROVE  LET r == queue[k][u][i]
                 IN  /\ pc'[r] = "waiting" /\ cls'[r] = k /\ ten'[r] = u
                     /\ \A j \in DOMAIN queue[k][u] : queue[k][u][j] = r => j = i
      BY <3>2, <2>1, <1>3, <1>4 DEF QueueCoherent
    <3> QED
      BY <3>1, <3>2, <1>1 DEF QueueCoherent
<1>7. RotationCoherent'
  BY <1>1 DEF RotationCoherent
<1>8. CountsCoherent'
  <2>1. \A k \in Class : Waiters(k)' = Waiters(k)
    BY <1>3, <1>4 DEF Waiters
  <2> QED
    BY <2>1, <1>1 DEF CountsCoherent
<1>9. WorkConserving'
  BY <1>1, <1>3 DEF WorkConserving
<1> QED
  BY <1>2, <1>5, <1>6, <1>7, <1>8, <1>9

\* A granted waiter that wakes up keeps the permit it was counted for.
LEMMA ResumeInv ==
    ASSUME AdmissionInv, NEW p \in Proc, Resume(p)
    PROVE  AdmissionInv'
<1> USE DEF AdmissionInv
<1>1. /\ pc[p] = "granted" /\ pc' = [pc EXCEPT ![p] = "executing"]
      /\ UNCHANGED <<cls, ten, age, queue, order, cursor, waiting, active, bootstrapActive, dispatching>>
  BY DEF Resume, queueVars
<1>2. TypeOK'
  BY <1>1 DEF TypeOK
<1>3. \A r \in Proc : pc'[r] = "waiting" <=> pc[r] = "waiting"
  BY <1>1 DEF TypeOK
<1>4. Holding' = Holding
  BY <1>1 DEF Holding, TypeOK
<1>5. PermitAccounting'
  <2>1. {r \in Holding : cls[r] = "bootstrap"}' = {r \in Holding : cls[r] = "bootstrap"}
    BY <1>1, <1>4
  <2> QED
    BY <2>1, <1>1, <1>4 DEF PermitAccounting
<1>6. QueueCoherent'
  <2>1. \A k \in Class, u \in Tenant : \A i \in DOMAIN queue[k][u] :
            queue[k][u][i] # None => queue[k][u][i] \in Proc
    BY DEF TypeOK
  <2> QED
    BY <2>1, <1>1, <1>3 DEF QueueCoherent
<1>7. RotationCoherent'
  BY <1>1 DEF RotationCoherent
<1>8. CountsCoherent'
  <2>1. \A k \in Class : Waiters(k)' = Waiters(k)
    BY <1>1, <1>3 DEF Waiters
  <2> QED
    BY <2>1, <1>1 DEF CountsCoherent
<1>9. WorkConserving'
  BY <1>1, <1>3 DEF WorkConserving
<1> QED
  BY <1>2, <1>5, <1>6, <1>7, <1>8, <1>9

\* dispatchLocked returns only when the cap is reached or nobody waits.
LEMMA DispatchDoneInv ==
    ASSUME AdmissionInv, DispatchDone
    PROVE  AdmissionInv'
<1> USE DEF AdmissionInv
<1>1. UNCHANGED <<pc, cls, ten, age, active, bootstrapActive>>
  BY DEF DispatchDone
<1>2. \A k \in Class : Waiters(k)' = Waiters(k)
  BY <1>1 DEF Waiters
<1>3. PermitAccounting'
  <2>1. Holding' = Holding /\ {r \in Holding : cls[r] = "bootstrap"}' = {r \in Holding : cls[r] = "bootstrap"}
    BY <1>1 DEF Holding
  <2> QED
    BY <2>1, <1>1 DEF PermitAccounting
<1>4. CASE active >= TotalPermits /\ UNCHANGED queueVars
  <2>1. UNCHANGED <<queue, order, cursor, waiting>> /\ dispatching' = FALSE
    BY <1>4 DEF queueVars, DispatchDone
  <2>2. TypeOK'
    BY <2>1, <1>1 DEF TypeOK
  <2>3. QueueCoherent'
    BY <2>1, <1>1 DEF QueueCoherent
  <2>4. RotationCoherent'
    BY <2>1 DEF RotationCoherent
  <2>5. CountsCoherent'
    BY <2>1, <1>2 DEF CountsCoherent
  <2>6. WorkConserving'
    BY <1>1, <1>4, PermitsAssumption DEF WorkConserving, TypeOK
  <2> QED
    BY <2>2, <2>3, <2>4, <2>5, <2>6, <1>3
<1>5. CASE /\ NothingQueuedAhead
           /\ ~(NoneAhead /\ LiveAt("bootstrap") # {})
           /\ PopVain(IF NoneAhead THEN Class ELSE TriedShare \cup {"reactive", "foreground"})
  <2>1. LiveAt("reactive") = {} /\ LiveAt("foreground") = {}
    BY <1>5 DEF NothingQueuedAhead
  <2>2. Waiters("reactive") = {} /\ Waiters("foreground") = {}
    BY <2>1, EmptyClass DEF Class
  <2>3. NoneAhead
    BY <2>2, FS_EmptySet DEF CountsCoherent, NoneAhead, Class
  <2>4. LiveAt("bootstrap") = {}
    BY <2>3, <1>5
  <2>5. Waiters("bootstrap") = {}
    BY <2>4, EmptyClass DEF Class
  <2>6. \A p \in Proc : pc[p] # "waiting"
    <3> SUFFICES ASSUME NEW p \in Proc, pc[p] = "waiting" PROVE FALSE
      OBVIOUS
    <3>1. cls[p] \in Class
      BY DEF TypeOK
    <3> QED
      BY <3>1, <2>2, <2>5 DEF Waiters, Class
  <2>7. /\ queue' = [k \in Class |-> [t \in Tenant |-> <<>>]] /\ order' = [k \in Class |-> <<>>]
        /\ cursor' \in [Class -> Nat] /\ waiting' = waiting /\ dispatching' = FALSE
    BY <2>3, <1>5 DEF PopVain, TypeOK, DispatchDone
  <2>8. TypeOK'
    <3>1. queue' \in [Class -> [Tenant -> Seq(Proc \cup {None})]] /\ order' \in [Class -> Seq(Tenant)]
      BY <2>7, EmptySeq
    <3> QED
      BY <3>1, <2>7, <1>1 DEF TypeOK
  <2>9. QueueCoherent'
    BY <2>6, <2>7, <1>1 DEF QueueCoherent
  <2>10. RotationCoherent'
    BY <2>7 DEF RotationCoherent
  <2>11. CountsCoherent'
    BY <2>7, <1>2 DEF CountsCoherent
  <2>12. WorkConserving'
    BY <2>6, <1>1 DEF WorkConserving
  <2> QED
    BY <2>8, <2>9, <2>10, <2>11, <2>12, <1>3
<1> QED
  BY <1>4, <1>5 DEF DispatchDone

\* Time changes nothing but ages.
LEMMA TickInv ==
    ASSUME AdmissionInv, Tick
    PROVE  AdmissionInv'
<1> USE DEF AdmissionInv
<1>1. UNCHANGED <<pc, cls, ten, queue, order, cursor, waiting, active, bootstrapActive, dispatching>>
  BY DEF Tick, queueVars
<1>2. age' \in [Proc -> 0 .. MaxAge]
  BY PermitsAssumption DEF Tick, TypeOK, MaxAge
<1>3. TypeOK' /\ QueueCoherent' /\ RotationCoherent' /\ WorkConserving'
  BY <1>1, <1>2 DEF TypeOK, QueueCoherent, RotationCoherent, WorkConserving
<1>4. PermitAccounting' /\ CountsCoherent'
  BY <1>1 DEF PermitAccounting, CountsCoherent, Holding, Waiters
<1> QED
  BY <1>3, <1>4

\* A dispatched foreground waiter that has aged is in the rotation.
LEMMA AgedIsLive ==
    ASSUME TypeOK, RotationCoherent, ForegroundAged
    PROVE  LiveAt("foreground") # {}
<1>1. PICK t \in Tenant : Live("foreground", t) # {}
  BY DEF ForegroundAged
<1>2. "foreground" \in Class
  BY DEF Class
<1>3. queue["foreground"][t] # <<>>
  BY <1>1, <1>2 DEF Live, TypeOK
<1>4. PICK i \in DOMAIN order["foreground"] : order["foreground"][i] = t
  BY <1>2, <1>3 DEF RotationCoherent
<1> QED
  BY <1>1, <1>4 DEF LiveAt

\* The invariant is inductive.
THEOREM AdmissionInvariance == Spec => []AdmissionInv
<1>1. Init => AdmissionInv
  <2> SUFFICES ASSUME Init PROVE AdmissionInv
    OBVIOUS
  <2>1. TypeOK
    <3>1. queue \in [Class -> [Tenant -> Seq(Proc \cup {None})]] /\ order \in [Class -> Seq(Tenant)]
      BY EmptySeq DEF Init
    <3>2. 0 \in 0 .. MaxAge
      BY PermitsAssumption DEF MaxAge
    <3>3. /\ pc \in [Proc -> {"idle", "waiting", "granted", "executing"}]
          /\ \A p \in Proc : pc[p] = "idle"
      BY DEF Init
    <3>4. cls \in [Proc -> Class \cup {None}] /\ ten \in [Proc -> Tenant \cup {None}]
      BY DEF Init
    <3>5. age \in [Proc -> 0 .. MaxAge]
      BY <3>2 DEF Init
    <3>6. /\ cursor \in [Class -> Nat] /\ waiting \in [Class -> Int]
          /\ active \in Int /\ bootstrapActive \in Int
      BY DEF Init
    <3>7. dispatching \in BOOLEAN
      BY Zenon DEF Init
    <3> QED
      BY <3>1, <3>3, <3>4, <3>5, <3>6, <3>7 DEF TypeOK
  <2>2. Holding = {} /\ {p \in Holding : cls[p] = "bootstrap"} = {} /\ \A c \in Class : Waiters(c) = {}
    BY DEF Init, Holding, Waiters
  <2>3. PermitAccounting
    BY <2>2, FS_EmptySet, PermitsAssumption DEF Init, PermitAccounting
  <2>4. CountsCoherent
    BY <2>2, FS_EmptySet DEF Init, CountsCoherent
  <2>5. QueueCoherent /\ RotationCoherent
    BY DEF Init, QueueCoherent, RotationCoherent
  <2>6. WorkConserving
    BY DEF Init, WorkConserving
  <2> QED
    BY <2>1, <2>3, <2>4, <2>5, <2>6 DEF AdmissionInv
<1>2. AdmissionInv /\ [Next]_vars => AdmissionInv'
  <2> SUFFICES ASSUME AdmissionInv, [Next]_vars PROVE AdmissionInv'
    OBVIOUS
  <2> USE DEF Class
  <2>1. ASSUME NEW p \in Proc, NEW c \in Offered, NEW t \in Tenant, AcquireNow(p, c, t) \/ AcquireWait(p, c, t)
        PROVE  AdmissionInv'
    BY <2>1, OfferedAssumption, AcquireNowInv, AcquireWaitInv
  <2>2. ASSUME NEW p \in Proc, Resume(p) PROVE AdmissionInv'
    BY <2>2, ResumeInv
  <2>3. ASSUME NEW p \in Proc, CancelGranted(p) \/ Release(p) PROVE AdmissionInv'
    BY <2>3, GiveBackInv DEF CancelGranted, Release, Holding
  <2>4. ASSUME NEW p \in Proc, CancelWaiting(p) PROVE AdmissionInv'
    BY <2>4, CancelWaitingInv
  <2>5. ~BootstrapWanted => TriedShare \in SUBSET Class /\ \A k \in TriedShare : LiveAt(k) = {} /\ k = "bootstrap"
    BY DEF TriedShare, BootstrapWanted
  <2>6. CASE DispatchBootstrapShare
    BY <2>6, HandInv DEF DispatchBootstrapShare, BootstrapWanted
  <2>7. CASE DispatchAgedForeground
    <3>1. LiveAt("foreground") # {}
      BY <2>7, AgedIsLive DEF DispatchAgedForeground, AdmissionInv
    <3> QED
      BY <3>1, <2>5, <2>7, HandInv DEF DispatchAgedForeground
  <2>8. CASE DispatchReactive
    BY <2>5, <2>8, HandInv DEF DispatchReactive
  <2>9. CASE DispatchForeground
    <3>1. \A k \in TriedShare \cup {"reactive"} : LiveAt(k) = {} /\ k # "foreground"
      BY <2>5, <2>9 DEF DispatchForeground
    <3>2. TriedShare \cup {"reactive"} \in SUBSET Class
      BY <2>5, <2>9 DEF DispatchForeground
    <3> QED
      BY <3>1, <3>2, <2>9, HandInv DEF DispatchForeground
  <2>10. CASE DispatchBorrow
    BY <2>10, HandInv DEF DispatchBorrow, NothingQueuedAhead
  <2>11. CASE DispatchDone
    BY <2>11, DispatchDoneInv
  <2>12. CASE Tick
    BY <2>12, TickInv
  <2>13. CASE UNCHANGED vars
    <3>1. TypeOK' /\ QueueCoherent' /\ RotationCoherent' /\ WorkConserving'
      BY <2>13, SMTT(60) DEF vars, AdmissionInv, TypeOK, QueueCoherent, RotationCoherent, WorkConserving
    <3>2. PermitAccounting' /\ CountsCoherent'
      BY <2>13 DEF vars, AdmissionInv, PermitAccounting, CountsCoherent, Holding, Waiters
    <3> QED
      BY <3>1, <3>2 DEF AdmissionInv
  <2> QED
    BY <2>1, <2>2, <2>3, <2>4, <2>6, <2>7, <2>8, <2>9, <2>10, <2>11, <2>12, <2>13 DEF Next, Dispatch
<1> QED
  BY <1>1, <1>2, PTL DEF Spec

\* acquire and release never leak a permit or hand out more than the cap,
\* even when a grant races the cancellation of the same waiter.
THEOREM PermitsAccounted == Spec => []PermitAccounting
<1>1. AdmissionInv => PermitAccounting
  BY DEF AdmissionInv
<1> QED
  BY <1>1, AdmissionInvariance, PTL

\* push, pop, discard and the compaction of the rotation never lose, repeat or
\* misplace a waiter.
THEOREM WaitersFound == Spec => [](QueueCoherent /\ RotationCoherent /\ CountsCoherent)
<1>1. AdmissionInv => QueueCoherent /\ RotationCoherent /\ CountsCoherent
  BY DEF AdmissionInv
<1> QED
  BY <1>1, AdmissionInvariance, PTL

\* Whenever mu is free, a permit is idle only if no goroutine waits.
THEOREM NoIdlePermit == Spec => []WorkConserving
<1>1. AdmissionInv => WorkConserving
  BY DEF AdmissionInv
<1> QED
  BY <1>1, AdmissionInvariance, PTL

-----------------------------------------------------------------------------
\* What a step may never do.

\* Only dispatchLocked grants to a waiter, and only acquire admits a newcomer.
LEMMA WhoGrants ==
    ASSUME AdmissionInv, [Next]_vars, NEW p \in Proc, pc'[p] # pc[p]
    PROVE  /\ pc[p] = "idle" /\ pc'[p] = "executing"
                  => ~dispatching /\ active < TotalPermits
           /\ pc[p] = "waiting" /\ pc'[p] = "granted"
                  => \E c \in Class, vain \in SUBSET Class :
                         Dispatch /\ LiveAt(c) # {} /\ Hand(c, vain) /\ p = Chosen(c)
<1> USE DEF AdmissionInv, Class
<1>1. ASSUME NEW r \in Proc, NEW c \in Offered, NEW t \in Tenant, AcquireNow(r, c, t) \/ AcquireWait(r, c, t)
      PROVE  /\ pc[r] = "idle"
             /\ \/ pc' = [pc EXCEPT ![r] = "executing"] /\ ~dispatching /\ active < TotalPermits
                \/ pc' = [pc EXCEPT ![r] = "waiting"]
  BY <1>1 DEF AcquireNow, AcquireWait, Admissible
<1>2. ASSUME NEW r \in Proc, Resume(r) \/ CancelGranted(r) \/ CancelWaiting(r) \/ Release(r)
      PROVE  /\ pc[r] # "idle"
             /\ \/ pc[r] = "granted" /\ pc' = [pc EXCEPT ![r] = "executing"]
                \/ pc' = [pc EXCEPT ![r] = "idle"]
  BY <1>2 DEF Resume, CancelGranted, CancelWaiting, Release, GiveBack, Return
<1>3. CASE Dispatch
  <2>1. ~BootstrapWanted => TriedShare \in SUBSET Class
    BY DEF TriedShare
  <2>2. pc' = pc \/ \E c \in Class, vain \in SUBSET Class : LiveAt(c) # {} /\ Hand(c, vain)
    <3>1. CASE DispatchBootstrapShare
      BY <3>1 DEF DispatchBootstrapShare, BootstrapWanted
    <3>2. CASE DispatchAgedForeground
      BY <3>2, <2>1, AgedIsLive DEF DispatchAgedForeground
    <3>3. CASE DispatchReactive
      BY <3>3, <2>1 DEF DispatchReactive
    <3>4. CASE DispatchForeground
      <4>1. TriedShare \cup {"reactive"} \in SUBSET Class
        BY <3>4, <2>1 DEF DispatchForeground
      <4> QED
        BY <4>1, <3>4 DEF DispatchForeground
    <3>5. CASE DispatchBorrow
      BY <3>5 DEF DispatchBorrow
    <3>6. CASE DispatchDone
      BY <3>6 DEF DispatchDone
    <3> QED
      BY <3>1, <3>2, <3>3, <3>4, <3>5, <3>6, <1>3 DEF Dispatch
  <2>3. PICK c \in Class, vain \in SUBSET Class : LiveAt(c) # {} /\ Hand(c, vain)
    BY <2>2
  <2>4. pc' = [pc EXCEPT ![Chosen(c)] = "granted"] /\ Chosen(c) \in Proc
    BY <2>3, ChosenIs DEF Hand
  <2>5. p = Chosen(c) /\ pc'[p] = "granted"
    BY <2>4 DEF TypeOK
  <2> QED
    BY <2>3, <2>5, <1>3
<1>4. CASE Tick \/ UNCHANGED vars
  BY <1>4 DEF Tick, vars
<1>5. CASE \E r \in Proc : \E c \in Offered, t \in Tenant : AcquireNow(r, c, t) \/ AcquireWait(r, c, t)
  BY <1>1, <1>5 DEF TypeOK
<1>6. CASE \E r \in Proc : Resume(r) \/ CancelGranted(r) \/ CancelWaiting(r) \/ Release(r)
  BY <1>2, <1>6 DEF TypeOK
<1> QED
  BY <1>3, <1>4, <1>5, <1>6 DEF Next

\* No newcomer overtakes a waiter.
THEOREM NewcomersQueue == Spec => NoOvertaking
<1>1. AdmissionInv /\ [Next]_vars
         => [\A p \in Proc : pc[p] = "idle" /\ pc'[p] = "executing"
                 => \A q \in Proc : pc[q] # "waiting"]_vars
  <2> SUFFICES ASSUME AdmissionInv, [Next]_vars,
                      NEW p \in Proc, pc[p] = "idle", pc'[p] = "executing"
               PROVE  \A q \in Proc : pc[q] # "waiting"
    OBVIOUS
  <2>1. ~dispatching /\ active < TotalPermits
    BY WhoGrants
  <2> QED
    BY <2>1 DEF AdmissionInv, WorkConserving
<1> QED
  BY <1>1, AdmissionInvariance, PTL DEF Spec, NoOvertaking

\* Queued reactive or foreground work gets a permit while hydration waits only
\* if hydration has its reserved share.
THEOREM HydrationKeepsShare == Spec => ShareReserved
<1>1. AdmissionInv /\ [Next]_vars
         => [\A p \in Proc : pc[p] = "waiting" /\ pc'[p] = "granted" /\ cls[p] # "bootstrap"
                 => Waiters("bootstrap") = {} \/ bootstrapActive >= BootstrapPermits]_vars
  <2> SUFFICES ASSUME AdmissionInv, [Next]_vars, NEW p \in Proc,
                      pc[p] = "waiting", pc'[p] = "granted", cls[p] # "bootstrap"
               PROVE  Waiters("bootstrap") = {} \/ bootstrapActive >= BootstrapPermits
    OBVIOUS
  <2> USE DEF AdmissionInv, Class
  <2>1. PICK c \in Class, vain \in SUBSET Class :
            Dispatch /\ LiveAt(c) # {} /\ Hand(c, vain) /\ p = Chosen(c)
    BY WhoGrants
  <2>2. pc' = [pc EXCEPT ![p] = "granted"]
    BY <2>1 DEF Hand
  <2>3. ~BootstrapWanted \/ DispatchDone
    <3>1. SUFFICES ASSUME BootstrapWanted PROVE DispatchDone
      OBVIOUS
    <3>2. CASE DispatchBootstrapShare
      <4>1. pc' = [pc EXCEPT ![Chosen("bootstrap")] = "granted"] /\ LiveAt("bootstrap") # {}
        BY <3>2 DEF DispatchBootstrapShare, Hand, BootstrapWanted
      <4>2. Chosen("bootstrap") \in Proc /\ cls[Chosen("bootstrap")] = "bootstrap"
        BY <4>1, ChosenIs
      <4> QED
        BY <4>1, <4>2 DEF TypeOK
    <3> QED
      BY <3>1, <3>2, <2>1 DEF Dispatch, DispatchAgedForeground, DispatchReactive,
            DispatchForeground, DispatchBorrow, NothingQueuedAhead
  <2>4. ~DispatchDone
    BY DEF DispatchDone
  <2>5. CASE LiveAt("bootstrap") = {}
    BY <2>5, EmptyClass
  <2>6. CASE ~ShareFree
    <3>1. BootstrapPermits \in Int
      BY PermitsAssumption DEF BootstrapPermits
    <3> QED
      BY <3>1, <2>6 DEF ShareFree, TypeOK
  <2> QED
    BY <2>3, <2>4, <2>5, <2>6 DEF BootstrapWanted
<1> QED
  BY <1>1, AdmissionInvariance, PTL DEF Spec, ShareReserved

\* Hydration goes beyond its share only while no other work waits.
THEOREM HydrationBorrowsIdle == Spec => BorrowOnlyIdle
<1>1. AdmissionInv /\ [Next]_vars
         => [bootstrapActive' > bootstrapActive /\ bootstrapActive >= BootstrapPermits
                 => Waiters("reactive") = {} /\ Waiters("foreground") = {}]_vars
  <2> SUFFICES ASSUME AdmissionInv, [Next]_vars,
                      bootstrapActive' > bootstrapActive, bootstrapActive >= BootstrapPermits
               PROVE  Waiters("reactive") = {} /\ Waiters("foreground") = {}
    OBVIOUS
  <2> USE DEF AdmissionInv, Class
  <2>1. BootstrapPermits \in Int /\ bootstrapActive \in Int
    BY PermitsAssumption DEF BootstrapPermits, TypeOK
  <2>2. CASE LiveAt("reactive") = {} /\ LiveAt("foreground") = {}
    BY <2>2, EmptyClass
  <2>3. CASE ~dispatching /\ active < TotalPermits
    BY <2>3 DEF WorkConserving, Waiters
  <2>4. ASSUME NEW p \in Proc, NEW c \in Offered, NEW t \in Tenant, AcquireNow(p, c, t) \/ AcquireWait(p, c, t)
        PROVE  ~dispatching /\ active < TotalPermits
    BY <2>1, <2>4 DEF AcquireNow, AcquireWait, Admissible
  <2>5. ASSUME NEW p \in Proc, Resume(p) \/ CancelGranted(p) \/ CancelWaiting(p) \/ Release(p)
        PROVE  FALSE
    BY <2>1, <2>5 DEF Resume, CancelGranted, CancelWaiting, Release, GiveBack
  <2>6. ~Tick /\ ~UNCHANGED vars /\ ~DispatchDone
    BY <2>1 DEF Tick, vars, DispatchDone
  <2>7. ~DispatchBootstrapShare
    BY <2>1 DEF DispatchBootstrapShare, BootstrapWanted, ShareFree
  <2>8. ~DispatchAgedForeground /\ ~DispatchReactive /\ ~DispatchForeground
    BY <2>1 DEF DispatchAgedForeground, DispatchReactive, DispatchForeground, Hand, Grant
  <2>9. DispatchBorrow => LiveAt("reactive") = {} /\ LiveAt("foreground") = {}
    BY DEF DispatchBorrow, NothingQueuedAhead
  <2> QED
    BY <2>2, <2>3, <2>4, <2>5, <2>6, <2>7, <2>8, <2>9 DEF Next, Dispatch
<1> QED
  BY <1>1, AdmissionInvariance, PTL DEF Spec, BorrowOnlyIdle
\* The rules between the classes, together (acquire, dispatch).
THEOREM ClassRulesHold == Spec => ClassRules
  BY NewcomersQueue, HydrationKeepsShare, HydrationBorrowsIdle DEF ClassRules

-----------------------------------------------------------------------------
(* The rotation over the tenants of a class. *)

\* How far position i of a rotation of length n is from the cursor at s.
Far(n, s, i) ==
    LET b == IF s >= n THEN 0 ELSE s
    IN  IF i > b THEN i - b ELSE i + n - b

\* Wherever u stands in the rotation, t comes later.
Before(o, s, u, t) ==
    \A i \in DOMAIN o : o[i] = u =>
        \E j \in DOMAIN o : o[j] = t /\ Far(Len(o), s, i) < Far(Len(o), s, j)

\* A tenant that was served while u waited comes after u.  It stays in the
\* rotation: pop only deletes whom it looks at, and u is looked at before.
RotationInv ==
    /\ passed \in [Class -> [Tenant -> SUBSET Tenant]]
    /\ \A c \in Class, u \in Tenant : \A p \in Waiters(c) : ten[p] = u =>
          \A t \in passed[c][u] : Before(order[c], cursor[c], u, t)

\* The scan of pop starts at the cursor, or at the front when the cursor has
\* run off the list.
LEMMA DistanceIsFar ==
    ASSUME TypeOK, NEW c \in Class, NEW m \in DOMAIN order[c]
    PROVE  Distance(c, m) = Far(Len(order[c]), cursor[c], m) /\ Distance(c, m) \in Int
<1>1. order[c] \in Seq(Tenant) /\ cursor[c] \in Nat
  BY DEF TypeOK
<1>2. Len(order[c]) \in Nat /\ m \in Nat
  BY <1>1
<1>3. Start(c) = IF cursor[c] >= Len(order[c]) THEN 0 ELSE cursor[c]
  BY DEF Start
<1>4. Distance(c, m) = Far(Len(order[c]), cursor[c], m)
  BY <1>3 DEF Distance, Far
<1>5. Start(c) \in Nat
  BY <1>1, <1>2, <1>3
<1> QED
  BY <1>2, <1>4, <1>5 DEF Distance

\* A tenant that joins at the end of the list does not change who of the
\* others comes first.
LEMMA PushKeepsBefore ==
    ASSUME NEW T, NEW o \in Seq(T), NEW s \in Nat, NEW v \in T, NEW u \in T, NEW t \in T,
           u # v, Before(o, s, u, t)
    PROVE  Before(Append(o, v), s, u, t)
<1> DEFINE P == Append(o, v)
           n == Len(o)
<1>1. n \in Nat /\ DOMAIN o = 1 .. n
  OBVIOUS
<1>2. P \in Seq(T) /\ Len(P) = n + 1 /\ P[n + 1] = v /\ \A i \in 1 .. n : P[i] = o[i]
  OBVIOUS
<1>3. DOMAIN P = 1 .. n + 1
  BY <1>2
<1> HIDE DEF P, n
<1>4. SUFFICES ASSUME NEW i \in 1 .. n + 1, P[i] = u
               PROVE  \E j \in 1 .. n + 1 : P[j] = t /\ Far(n + 1, s, i) < Far(n + 1, s, j)
  BY <1>2, <1>3 DEF Before, P
<1>5. i \in 1 .. n /\ o[i] = u
  BY <1>1, <1>2, <1>4
<1>6. PICK j \in 1 .. n : o[j] = t /\ Far(n, s, i) < Far(n, s, j)
  BY <1>1, <1>5 DEF Before, n
<1>7. P[j] = t /\ j \in 1 .. n + 1
  BY <1>1, <1>2, <1>6
<1>8. Far(n + 1, s, i) < Far(n + 1, s, j)
  BY <1>1, <1>5, <1>6 DEF Far
<1> QED
  BY <1>7, <1>8

\* pop turns the rotation: whom it serves is now the furthest, and everybody
\* else is as much nearer as the served tenant was far.
LEMMA PopTurns ==
    ASSUME TypeOK, NEW c \in Class, LiveAt(c) # {}
    PROVE  LET P == PoppedOrder(c)
               r == PoppedCursor(c)
           IN  /\ r \in DOMAIN P /\ P[r] = NextTenant(c) /\ Far(Len(P), r, r) = Len(P)
               /\ \A k \in DOMAIN P \ {r} : \E m \in DOMAIN order[c] :
                     /\ P[k] = order[c][m] /\ Distance(c, m) > Distance(c, NextAt(c))
                     /\ Far(Len(P), r, k) = Distance(c, m) - Distance(c, NextAt(c))
                     /\ Far(Len(P), r, k) < Len(P)
               /\ \A m \in DOMAIN order[c] : Distance(c, m) >= Distance(c, NextAt(c)) =>
                     \E k \in DOMAIN P : P[k] = order[c][m]
<1> DEFINE o == order[c]
           n == Len(o)
           s == Start(c)
           i == NextAt(c)
           P == PoppedOrder(c)
           r == PoppedCursor(c)
<1>1. o \in Seq(Tenant) /\ n \in Nat /\ DOMAIN o = 1 .. n
  BY DEF TypeOK
<1>2. s \in Nat /\ (s < n \/ s = 0)
  BY <1>1 DEF TypeOK, Start
<1>3. i \in 1 .. n /\ NextTenant(c) = o[i]
  BY NextAtIs, <1>1 DEF LiveAt, NextTenant
<1>4. \A m \in 1 .. n : Distance(c, m) = IF m > s THEN m - s ELSE m + n - s
  BY DEF Distance
<1>5. CASE i > s
  <2> DEFINE f == SubSeq(o, 1, s)
             b == SubSeq(o, i, n)
  <2>1. f \in Seq(Tenant) /\ Len(f) = s /\ \A k \in 1 .. s : f[k] = o[k]
    BY <1>1, <1>2, <1>3, SubSeqProperties
  <2>2. /\ b \in Seq(Tenant) /\ Len(b) = n - i + 1
        /\ \A k \in 1 .. n - i + 1 : b[k] = o[i + k - 1]
    BY <1>1, <1>2, <1>3, SubSeqProperties
  <2>3. P = f \o b /\ r = s + 1
    BY <1>5 DEF PoppedOrder, PoppedCursor
  <2> HIDE DEF f, b
  <2>4. PICK l \in Nat : l = s + (n - i + 1)
    BY <1>1, <1>2, <1>3
  <2>5. /\ Len(P) = l /\ DOMAIN P = 1 .. l
        /\ \A k \in 1 .. l : P[k] = IF k <= s THEN f[k] ELSE b[k - s]
    <3>1. /\ f \o b \in Seq(Tenant) /\ Len(f \o b) = Len(f) + Len(b)
          /\ \A k \in 1 .. Len(f) + Len(b) : (f \o b)[k] = IF k <= Len(f) THEN f[k] ELSE b[k - Len(f)]
      BY <2>1, <2>2, ConcatProperties
    <3>2. Len(f) + Len(b) = l
      BY <2>1, <2>2, <2>4
    <3> HIDE DEF P
    <3>3. /\ P \in Seq(Tenant) /\ Len(P) = l
          /\ \A k \in 1 .. l : P[k] = IF k <= s THEN f[k] ELSE b[k - s]
      BY <3>1, <3>2, <2>1, <2>3
    <3> QED
      BY <3>3, LenProperties
  <2> HIDE DEF P, r, o, s, i, n
  <2>6. \A k \in 1 .. l : k <= s => k \in 1 .. n /\ P[k] = o[k]
    BY <2>1, <2>4, <2>5, <1>1, <1>2, <1>3, <1>5
  <2>7. \A k \in 1 .. l : k > s => k + i - s - 1 \in 1 .. n /\ P[k] = o[k + i - s - 1]
    <3> SUFFICES ASSUME NEW k \in 1 .. l, k > s
                 PROVE  k + i - s - 1 \in 1 .. n /\ P[k] = o[k + i - s - 1]
      OBVIOUS
    <3>1. k - s \in 1 .. n - i + 1 /\ ~(k <= s) /\ i + (k - s) - 1 = k + i - s - 1
      BY <2>4, <1>1, <1>2, <1>3, <1>5
    <3>2. P[k] = b[k - s] /\ b[k - s] = o[i + (k - s) - 1]
      BY <3>1, <2>2, <2>5
    <3> QED
      BY <3>1, <3>2, <2>4, <1>1, <1>2, <1>3, <1>5
  <2>8. r \in 1 .. l /\ P[r] = o[i] /\ Far(l, r, r) = l
    <3>1. r \in 1 .. l /\ r > s /\ r + i - s - 1 = i
      BY <2>3, <2>4, <1>1, <1>2, <1>3, <1>5
    <3>2. P[r] = o[i]
      BY <3>1, <2>7
    <3>3. r \in Nat /\ r <= l /\ r >= 1
      BY <3>1, <2>4, <1>2, <2>3
    <3>4. Far(l, r, r) = l
      BY <3>3, <2>4 DEF Far
    <3> QED
      BY <3>1, <3>2, <3>4
  <2>9. Distance(c, i) = i - s
    BY <1>3, <1>4, <1>5
  <2>10. ASSUME NEW k \in 1 .. l, k # r
         PROVE  \E m \in 1 .. n : /\ P[k] = o[m] /\ Distance(c, m) > Distance(c, i)
                                  /\ Far(l, r, k) = Distance(c, m) - Distance(c, i)
                                  /\ Far(l, r, k) < l
    <3>1. CASE k <= s
      <4>1. k \in 1 .. n /\ P[k] = o[k] /\ Distance(c, k) = k + n - s
        BY <3>1, <2>6, <1>2, <1>4, <2>10
      <4>2. Far(l, r, k) = k + l - r
        BY <3>1, <2>3, <2>4, <2>10, <1>1, <1>2, <1>3, <1>5 DEF Far
      <4>3. /\ k + n - s > i - s /\ k + l - r = (k + n - s) - (i - s) /\ k + l - r < l
        BY <3>1, <2>3, <2>4, <2>10, <1>1, <1>2, <1>3, <1>5
      <4> QED
        BY <4>1, <4>2, <4>3, <2>9
    <3>2. CASE k > s
      <4>1. PICK m \in 1 .. n : m = k + i - s - 1 /\ P[k] = o[m]
        BY <3>2, <2>7, <2>10
      <4>2. Distance(c, m) = m - s /\ Far(l, r, k) = k - r
        BY <3>2, <4>1, <2>3, <2>4, <2>10, <1>1, <1>2, <1>3, <1>4, <1>5 DEF Far
      <4>3. m - s > i - s /\ k - r = (m - s) - (i - s) /\ k - r < l
        BY <3>2, <4>1, <2>3, <2>4, <2>10, <1>1, <1>2, <1>3, <1>5
      <4> QED
        BY <4>1, <4>2, <4>3, <2>9
    <3> QED
      BY <3>1, <3>2, <2>10, <1>2
  <2>11. ASSUME NEW m \in 1 .. n, Distance(c, m) >= Distance(c, i)
         PROVE  \E k \in 1 .. l : P[k] = o[m]
    <3>1. CASE m <= s
      <4>1. m \in 1 .. l
        BY <3>1, <2>4, <2>11, <1>1, <1>2, <1>3
      <4> QED
        BY <4>1, <3>1, <2>6
    <3>2. CASE m > s
      <4>1. PICK k \in Int : k = m - i + s + 1
        BY <1>1, <1>2, <1>3
      <4>2. Distance(c, m) = m - s
        BY <3>2, <1>4
      <4>3. k \in 1 .. l /\ k > s /\ k + i - s - 1 = m
        BY <4>1, <4>2, <3>2, <2>4, <2>9, <2>11, <1>1, <1>2, <1>3, <1>5
      <4> QED
        BY <4>3, <2>7
    <3> QED
      BY <3>1, <3>2, <2>11, <1>2
  <2> QED
    BY <2>5, <2>8, <2>10, <2>11, <1>1, <1>3 DEF P, r, o, i
<1>6. CASE i <= s
  <2>1. P = SubSeq(o, i, s) /\ r = 1
    BY <1>1, <1>2, <1>3, <1>6, SMTT(60) DEF PoppedOrder, PoppedCursor
  <2>2. s < n
    BY <1>1, <1>2, <1>3, <1>6
  <2>3. PICK l \in Nat : l = s - i + 1
    BY <1>1, <1>2, <1>3, <1>6
  <2>4. /\ Len(P) = l /\ DOMAIN P = 1 .. l
        /\ \A k \in 1 .. l : P[k] = o[i + k - 1]
    <3>1. o \in Seq(Tenant) /\ i \in 1 .. Len(o) /\ s \in i .. Len(o) /\ s - i + 1 = l
      BY <2>2, <2>3, <1>1, <1>2, <1>3, <1>6
    <3> HIDE DEF o, i, s, n
    <3>2. /\ Len(SubSeq(o, i, s)) = l /\ SubSeq(o, i, s) \in Seq(Tenant)
          /\ \A k \in 1 .. l : SubSeq(o, i, s)[k] = o[i + k - 1]
      BY <3>1, SubSeqProperties
    <3> HIDE DEF P
    <3>3. P \in Seq(Tenant) /\ Len(P) = l /\ \A k \in 1 .. l : P[k] = o[i + k - 1]
      BY <3>2, <2>1
    <3> QED
      BY <3>3
  <2> HIDE DEF P, r, o, s, i, n
  <2>5. Distance(c, i) = i + n - s
    BY <1>3, <1>4, <1>6, <1>1, <1>2
  <2>6. r \in 1 .. l /\ P[r] = o[i] /\ Far(l, r, r) = l
    <3>1. r \in 1 .. l /\ i + r - 1 = i
      BY <2>1, <2>3, <1>1, <1>2, <1>3, <1>6
    <3>2. P[r] = o[i]
      BY <3>1, <2>4
    <3>3. Far(l, r, r) = l
      BY <3>1, <2>1, <2>3 DEF Far
    <3> QED
      BY <3>1, <3>2, <3>3
  <2>7. ASSUME NEW k \in 1 .. l, k # r
        PROVE  \E m \in 1 .. n : /\ P[k] = o[m] /\ Distance(c, m) > Distance(c, i)
                                 /\ Far(l, r, k) = Distance(c, m) - Distance(c, i)
                                 /\ Far(l, r, k) < l
    <3>1. PICK m \in 1 .. n : m = i + k - 1
      BY <2>2, <2>3, <2>7, <1>1, <1>2, <1>3, <1>6
    <3>2. m <= s /\ P[k] = o[m]
      BY <3>1, <2>3, <2>4, <2>7, <1>1, <1>2, <1>3
    <3>3. Distance(c, m) = m + n - s
      BY <3>2, <1>4, <1>1, <1>2
    <3>4. Far(l, r, k) = k - 1
      BY <2>1, <2>3, <2>7, <1>1, <1>2, <1>3 DEF Far
    <3>5. m + n - s > i + n - s /\ k - 1 = (m + n - s) - (i + n - s) /\ k - 1 < l
      BY <3>1, <2>1, <2>3, <2>7, <1>1, <1>2, <1>3
    <3> QED
      BY <3>2, <3>3, <3>4, <3>5, <2>5
  <2>8. ASSUME NEW m \in 1 .. n, Distance(c, m) >= Distance(c, i)
        PROVE  \E k \in 1 .. l : P[k] = o[m]
    <3>1. m <= s /\ m >= i
      BY <2>2, <2>5, <2>8, <1>1, <1>2, <1>3, <1>4, <1>6
    <3>2. PICK k \in Int : k = m - i + 1
      BY <1>1, <1>3
    <3>3. k \in 1 .. l /\ i + k - 1 = m
      BY <3>1, <3>2, <2>3, <1>1, <1>2, <1>3
    <3> QED
      BY <3>3, <2>4
  <2> QED
    BY <2>4, <2>6, <2>7, <2>8, <1>1, <1>3 DEF P, r, o, i
<1> QED
  BY <1>2, <1>3, <1>5, <1>6

\* pop keeps the order in which the others come, and puts whom it serves last.
LEMMA PopKeepsBefore ==
    ASSUME TypeOK, RotationCoherent, NEW c \in Class, LiveAt(c) # {},
           NEW u \in Tenant, u # NextTenant(c), NEW t \in Tenant,
           t = NextTenant(c) \/ Before(order[c], cursor[c], u, t)
    PROVE  Before(PoppedOrder(c), PoppedCursor(c), u, t)
<1> DEFINE P == PoppedOrder(c)
           r == PoppedCursor(c)
           d == Distance(c, NextAt(c))
<1>1. /\ r \in DOMAIN P /\ P[r] = NextTenant(c) /\ Far(Len(P), r, r) = Len(P)
      /\ \A k \in DOMAIN P \ {r} : \E m \in DOMAIN order[c] :
            /\ P[k] = order[c][m] /\ Distance(c, m) > d
            /\ Far(Len(P), r, k) = Distance(c, m) - d /\ Far(Len(P), r, k) < Len(P)
      /\ \A m \in DOMAIN order[c] : Distance(c, m) >= d => \E k \in DOMAIN P : P[k] = order[c][m]
  BY PopTurns
<1>2. \A m \in DOMAIN order[c] : Distance(c, m) = Far(Len(order[c]), cursor[c], m) /\ Distance(c, m) \in Int
  BY DistanceIsFar
<1>3. d \in Int
  <2>1. NextAt(c) \in DOMAIN order[c]
    BY NextAtIs DEF LiveAt
  <2> QED
    BY <2>1, <1>2
<1>4. \A m, k \in DOMAIN order[c] : order[c][m] = order[c][k] => m = k
  BY DEF RotationCoherent
<1> HIDE DEF P, r, d
<1>5. SUFFICES ASSUME NEW k \in DOMAIN P, P[k] = u
               PROVE  \E j \in DOMAIN P : P[j] = t /\ Far(Len(P), r, k) < Far(Len(P), r, j)
  BY DEF Before, P, r
<1>6. k # r
  BY <1>1, <1>5
<1>7. PICK m \in DOMAIN order[c] :
            /\ P[k] = order[c][m] /\ Distance(c, m) > d
            /\ Far(Len(P), r, k) = Distance(c, m) - d /\ Far(Len(P), r, k) < Len(P)
  BY <1>1, <1>6
<1>8. CASE t = NextTenant(c)
  BY <1>1, <1>7, <1>8
<1>9. CASE Before(order[c], cursor[c], u, t)
  <2>1. PICK y \in DOMAIN order[c] : order[c][y] = t /\ Distance(c, m) < Distance(c, y)
    BY <1>2, <1>5, <1>7, <1>9 DEF Before
  <2>2. Distance(c, y) >= d
    BY <2>1, <1>2, <1>3, <1>7
  <2>3. PICK j \in DOMAIN P : P[j] = order[c][y]
    BY <2>2, <1>1
  <2>4. CASE j = r
    BY <2>1, <2>3, <2>4, <1>1, <1>7
  <2>5. CASE j # r
    <3>1. PICK z \in DOMAIN order[c] : P[j] = order[c][z] /\ Far(Len(P), r, j) = Distance(c, z) - d
      BY <2>5, <1>1
    <3>2. z = y
      BY <3>1, <2>3, <1>4
    <3> QED
      BY <3>1, <3>2, <2>1, <2>3, <1>2, <1>3, <1>7
  <2> QED
    BY <2>4, <2>5
<1> QED
  BY <1>8, <1>9

\* Only the tenant whose turn it is gets a permit out of a queue.
LEMMA ServedIsNext ==
    ASSUME AdmissionInv, [Next]_vars, NEW c \in Class, NEW t \in Served(c)
    PROVE  \E vain \in SUBSET Class : LiveAt(c) # {} /\ Hand(c, vain) /\ t = NextTenant(c)
<1>1. PICK p \in Waiters(c) : ten[p] = t /\ pc'[p] = "granted"
  BY DEF Served
<1>2. p \in Proc /\ pc[p] = "waiting" /\ cls[p] = c
  BY DEF Waiters
<1>3. PICK k \in Class, vain \in SUBSET Class : LiveAt(k) # {} /\ Hand(k, vain) /\ p = Chosen(k)
  BY <1>1, <1>2, WhoGrants
<1>4. cls[Chosen(k)] = k /\ ten[Chosen(k)] = NextTenant(k)
  BY <1>3, ChosenIs DEF AdmissionInv
<1> QED
  BY <1>1, <1>2, <1>3, <1>4

\* What a step does to the rotation of a class in which somebody waits.
LEMMA RotationSteps ==
    ASSUME AdmissionInv, [Next]_vars, NEW c \in Class, Waiters(c) # {}
    PROVE  \/ order'[c] = order[c] /\ cursor'[c] = cursor[c]
           \/ /\ cursor'[c] = cursor[c]
              /\ \E v \in Tenant : /\ order'[c] = Append(order[c], v)
                                   /\ \A i \in DOMAIN order[c] : order[c][i] # v
           \/ /\ LiveAt(c) # {} /\ NextTenant(c) \in Served(c)
              /\ order'[c] = PoppedOrder(c) /\ cursor'[c] = PoppedCursor(c)
<1> USE DEF AdmissionInv
<1> DEFINE Same == order'[c] = order[c] /\ cursor'[c] = cursor[c]
           Turned == /\ LiveAt(c) # {} /\ NextTenant(c) \in Served(c)
                     /\ order'[c] = PoppedOrder(c) /\ cursor'[c] = PoppedCursor(c)
<1>1. LiveAt(c) # {}
  BY EmptyClass
<1>2. order \in [Class -> Seq(Tenant)] /\ cursor \in [Class -> Nat]
  BY DEF TypeOK
<1>3. ASSUME NEW k \in Class, NEW vain \in SUBSET Class, c \notin vain, LiveAt(k) # {}, Hand(k, vain)
      PROVE  Same \/ Turned
  <2>1. CASE k = c
    <3>1. /\ Chosen(c) \in Proc /\ pc[Chosen(c)] = "waiting" /\ cls[Chosen(c)] = c
          /\ ten[Chosen(c)] = NextTenant(c) /\ NextTenant(c) \in Tenant
      BY <1>1, ChosenIs
    <3>2. pc'[Chosen(c)] = "granted"
      BY <3>1, <2>1, <1>3 DEF Hand, TypeOK
    <3>3. NextTenant(c) \in Served(c)
      BY <3>1, <3>2 DEF Served, Waiters
    <3> QED
      BY <3>3, <2>1, <1>1, <1>3 DEF Hand, Pop
  <2>2. CASE k # c
    BY <2>2, <1>3 DEF Hand, Pop
  <2> QED
    BY <2>1, <2>2
<1>4. ~BootstrapWanted => TriedShare \in SUBSET Class /\ c \notin TriedShare
  BY <1>1 DEF TriedShare, BootstrapWanted, Class
<1>5. CASE Dispatch
  <2>1. CASE DispatchBootstrapShare
    BY <2>1, <1>3 DEF DispatchBootstrapShare, BootstrapWanted, Class
  <2>2. CASE DispatchAgedForeground
    <3>1. LiveAt("foreground") # {} /\ "foreground" \in Class
      BY <2>2, AgedIsLive DEF DispatchAgedForeground, Class
    <3> QED
      BY <3>1, <2>2, <1>3, <1>4 DEF DispatchAgedForeground
  <2>3. CASE DispatchReactive
    BY <2>3, <1>3, <1>4 DEF DispatchReactive, Class
  <2>4. CASE DispatchForeground
    <3>1. TriedShare \cup {"reactive"} \in SUBSET Class /\ c \notin TriedShare \cup {"reactive"}
      BY <2>4, <1>1, <1>4 DEF DispatchForeground, Class
    <3> QED
      BY <3>1, <2>4, <1>3 DEF DispatchForeground, Class
  <2>5. CASE DispatchBorrow
    <3>1. c \notin {"reactive", "foreground"} /\ {"reactive", "foreground"} \in SUBSET Class
      BY <2>5, <1>1 DEF DispatchBorrow, NothingQueuedAhead, Class
    <3> QED
      BY <3>1, <2>5, <1>3 DEF DispatchBorrow, Class
  <2>6. CASE DispatchDone
    <3>1. CASE active >= TotalPermits /\ UNCHANGED queueVars
      BY <3>1 DEF queueVars
    <3>2. CASE /\ NothingQueuedAhead /\ ~(NoneAhead /\ LiveAt("bootstrap") # {})
               /\ PopVain(IF NoneAhead THEN Class ELSE TriedShare \cup {"reactive", "foreground"})
      <4>1. c = "bootstrap" /\ ~NoneAhead
        BY <3>2, <1>1 DEF NothingQueuedAhead, Class
      <4>2. c \notin TriedShare \cup {"reactive", "foreground"}
        BY <3>2, <4>1, <1>4 DEF NothingQueuedAhead
      <4> QED
        BY <3>2, <4>1, <4>2 DEF PopVain
    <3> QED
      BY <3>1, <3>2, <2>6 DEF DispatchDone
  <2> QED
    BY <2>1, <2>2, <2>3, <2>4, <2>5, <2>6, <1>5 DEF Dispatch
<1>6. ASSUME NEW p \in Proc, NEW k \in Offered, NEW t \in Tenant, AcquireWait(p, k, t)
      PROVE  \/ Same
             \/ /\ cursor'[c] = cursor[c]
                /\ \E v \in Tenant : /\ order'[c] = Append(order[c], v)
                                     /\ \A i \in DOMAIN order[c] : order[c][i] # v
  <2>1. /\ cursor' = cursor /\ k \in Class
        /\ order' = [order EXCEPT ![k] = IF \E i \in DOMAIN @ : @[i] = t THEN @ ELSE Append(@, t)]
    BY <1>6, OfferedAssumption DEF AcquireWait, Push
  <2>2. CASE k # c \/ \E i \in DOMAIN order[c] : order[c][i] = t
    BY <2>1, <2>2, <1>2
  <2>3. CASE k = c /\ ~\E i \in DOMAIN order[c] : order[c][i] = t
    BY <2>1, <2>3, <1>2
  <2> QED
    BY <2>2, <2>3
<1>7. ASSUME NEW p \in Proc, \/ \E k \in Offered, t \in Tenant : AcquireNow(p, k, t)
                             \/ Resume(p) \/ CancelGranted(p) \/ CancelWaiting(p) \/ Release(p)
      PROVE  Same
  BY <1>7 DEF AcquireNow, Resume, CancelGranted, CancelWaiting, Release, GiveBack, Discard, queueVars
<1>8. CASE Tick \/ UNCHANGED vars
  BY <1>8 DEF Tick, vars, queueVars
<1> QED
  BY <1>5, <1>6, <1>7, <1>8 DEF Next

\* A waiter sees whom it was passed by behind itself, after every step.
LEMMA RotationKept ==
    ASSUME AdmissionInv, RotationInv, [RNext]_rvars
    PROVE  RotationInv'
<1>1. CASE UNCHANGED rvars
  BY <1>1 DEF rvars, vars, RotationInv, Waiters, Before
<1>2. CASE RNext
  <2>1. /\ Next
        /\ passed' = [c \in Class |-> [u \in Tenant |->
                     IF u \in Served(c) \/ \A p \in Waiters(c) : ten[p] # u THEN {}
                     ELSE passed[c][u] \cup Served(c)]]
    BY <1>2 DEF RNext
  <2>2. \A c \in Class : Served(c) \subseteq Tenant
    BY DEF Served
  <2>3. passed' \in [Class -> [Tenant -> SUBSET Tenant]]
    BY <2>1, <2>2 DEF RotationInv
  <2>4. ASSUME NEW c \in Class, NEW u \in Tenant, NEW t \in passed'[c][u]
        PROVE  Before(order'[c], cursor'[c], u, t)
    <3>1. /\ u \notin Served(c) /\ t \in passed[c][u] \cup Served(c)
      BY <2>1, <2>4
    <3>2. PICK p \in Waiters(c) : ten[p] = u
      BY <2>1, <2>4
    <3>3. t \in Tenant /\ order[c] \in Seq(Tenant) /\ cursor[c] \in Nat
      BY <3>1, <2>2 DEF RotationInv, AdmissionInv, TypeOK
    <3>4. t \in passed[c][u] => Before(order[c], cursor[c], u, t)
      BY <3>2 DEF RotationInv
    <3>5. PICK i \in DOMAIN order[c] : order[c][i] = u
      BY <3>2 DEF Waiters, AdmissionInv, QueueCoherent
    <3>6. ASSUME t \in Served(c)
          PROVE  \E vain \in SUBSET Class : LiveAt(c) # {} /\ Hand(c, vain) /\ t = NextTenant(c)
      BY <3>6, <2>1, ServedIsNext
    <3>7. CASE /\ LiveAt(c) # {} /\ NextTenant(c) \in Served(c)
               /\ order'[c] = PoppedOrder(c) /\ cursor'[c] = PoppedCursor(c)
      <4>1. u # NextTenant(c) /\ (t = NextTenant(c) \/ Before(order[c], cursor[c], u, t))
        BY <3>1, <3>4, <3>6, <3>7
      <4>2. Before(PoppedOrder(c), PoppedCursor(c), u, t)
        BY <4>1, <3>3, <3>7, PopKeepsBefore DEF AdmissionInv
      <4> QED
        BY <4>2, <3>7
    <3>8. CASE ~(/\ LiveAt(c) # {} /\ NextTenant(c) \in Served(c)
                 /\ order'[c] = PoppedOrder(c) /\ cursor'[c] = PoppedCursor(c))
      <4>1. t \notin Served(c)
        <5> SUFFICES ASSUME t \in Served(c) PROVE FALSE
          OBVIOUS
        <5>1. PICK vain \in SUBSET Class : LiveAt(c) # {} /\ Hand(c, vain) /\ NextTenant(c) \in Served(c)
          BY <3>6
        <5>2. order'[c] = PoppedOrder(c) /\ cursor'[c] = PoppedCursor(c)
          BY <5>1 DEF Hand, Pop
        <5> QED
          BY <5>1, <5>2, <3>8
      <4>2. Before(order[c], cursor[c], u, t)
        BY <4>1, <3>1, <3>4
      <4>3. CASE order'[c] = order[c] /\ cursor'[c] = cursor[c]
        BY <4>2, <4>3
      <4>4. CASE /\ cursor'[c] = cursor[c]
                 /\ \E v \in Tenant : /\ order'[c] = Append(order[c], v)
                                      /\ \A k \in DOMAIN order[c] : order[c][k] # v
        <5>1. PICK v \in Tenant : /\ order'[c] = Append(order[c], v)
                                  /\ \A k \in DOMAIN order[c] : order[c][k] # v
          BY <4>4
        <5>2. u # v
          BY <5>1, <3>5
        <5>3. Before(Append(order[c], v), cursor[c], u, t)
          BY <5>2, <4>2, <3>3, PushKeepsBefore
        <5> QED
          BY <5>1, <5>3, <4>4
      <4>5. Waiters(c) # {}
        BY <3>2
      <4> QED
        BY <4>3, <4>4, <4>5, <3>8, <2>1, RotationSteps
    <3> QED
      BY <3>7, <3>8
  <2> QED
    BY <2>3, <2>4 DEF RotationInv
<1> QED
  BY <1>1, <1>2

\* The history variable restricts nothing.
LEMMA RotationInvariance == RSpec => [](AdmissionInv /\ RotationInv)
<1>1. RInit => Init /\ RotationInv
  BY DEF RInit, Init, RotationInv
<1>2. [RNext]_rvars => [Next]_vars
  BY DEF RNext, rvars
<1>3. RSpec => []AdmissionInv
  BY <1>1, <1>2, AdmissionInvariance, PTL DEF RSpec, Spec
<1> QED
  BY <1>1, <1>3, RotationKept, PTL DEF RSpec

\* Tenant round-robin: while a tenant has work queued in a class, no other
\* tenant gets two permits out of that queue, for any number of tenants, joins,
\* cancellations and compactions (pop).
THEOREM TenantsTakeTurns == RSpec => RotationFair
<1>1. ASSUME AdmissionInv, RotationInv, [Next]_vars, NEW c \in Class, NEW u \in Tenant,
             NEW p \in Waiters(c), ten[p] = u, NEW t \in Served(c)
      PROVE  t \notin passed[c][u]
  <2> SUFFICES ASSUME t \in passed[c][u] PROVE FALSE
    OBVIOUS
  <2>1. LiveAt(c) # {} /\ t = NextTenant(c)
    BY <1>1, ServedIsNext
  <2>2. p \in Proc /\ pc[p] = "waiting" /\ cls[p] = c /\ p # None
    BY <1>1, ProcAssumption DEF Waiters
  <2>3. PICK x \in DOMAIN queue[c][u] : queue[c][u][x] = p
    BY <1>1, <2>2 DEF AdmissionInv, QueueCoherent
  <2>4. PICK i \in DOMAIN order[c] : order[c][i] = u
    BY <1>1, <2>2 DEF AdmissionInv, QueueCoherent
  <2>5. i \in LiveAt(c)
    BY <2>2, <2>3, <2>4 DEF LiveAt, Live
  <2>6. NextAt(c) \in LiveAt(c) /\ Distance(c, NextAt(c)) <= Distance(c, i)
    BY <1>1, <2>1, <2>5, NextAtIs DEF AdmissionInv
  <2>7. Before(order[c], cursor[c], u, t)
    BY <1>1 DEF RotationInv
  <2>8. \A m \in DOMAIN order[c] : Distance(c, m) = Far(Len(order[c]), cursor[c], m) /\ Distance(c, m) \in Int
    BY <1>1, DistanceIsFar DEF AdmissionInv
  <2>9. PICK j \in DOMAIN order[c] : order[c][j] = t /\ Distance(c, i) < Distance(c, j)
    BY <2>4, <2>7, <2>8 DEF Before
  <2>10. NextAt(c) \in DOMAIN order[c] /\ order[c][NextAt(c)] = t
    BY <2>1, <2>6 DEF LiveAt, NextTenant
  <2>11. j = NextAt(c)
    BY <2>9, <2>10, <1>1 DEF AdmissionInv, RotationCoherent
  <2> QED
    BY <2>4, <2>6, <2>8, <2>9, <2>11
<1>2. AdmissionInv /\ RotationInv /\ [RNext]_rvars =>
        [\A c \in Class, u \in Tenant :
            (\E p \in Waiters(c) : ten[p] = u) => Served(c) \cap passed[c][u] = {}]_rvars
  BY <1>1 DEF RNext
<1> QED
  BY <1>2, RotationInvariance, PTL DEF RSpec, RotationFair

\* One tenant's queue is first-in first-out, lazily removed entries or not: of
\* two waiters the one further back is never granted while the other waits (pop).
THEOREM TenantsInOrder == RSpec => TenantFifo
<1>1. ASSUME AdmissionInv, [Next]_vars, NEW c \in Class, NEW t \in Tenant,
             NEW i \in Live(c, t), NEW j \in Live(c, t), i < j,
             pc'[queue[c][t][j]] = "granted", pc[queue[c][t][j]] = "waiting"
      PROVE  FALSE
  <2> DEFINE p == queue[c][t][j]
  <2>1. queue[c][t] \in Seq(Proc \cup {None})
    BY <1>1 DEF AdmissionInv, TypeOK
  <2>2. p \in Proc /\ cls[p] = c /\ ten[p] = t
    BY <1>1, <2>1 DEF Live, AdmissionInv, QueueCoherent
  <2>3. p \in Waiters(c) /\ t \in Served(c)
    BY <1>1, <2>2 DEF Waiters, Served
  <2>4. PICK k \in Class, vain \in SUBSET Class : LiveAt(k) # {} /\ Hand(k, vain) /\ p = Chosen(k)
    BY <1>1, <2>2, WhoGrants
  <2>5. k = c /\ NextTenant(c) = t
    BY <2>2, <2>4, <1>1, ChosenIs DEF AdmissionInv
  <2>6. /\ FirstLive(c, t) \in DOMAIN queue[c][t] /\ queue[c][t][FirstLive(c, t)] = p
        /\ \A m \in Live(c, t) : FirstLive(c, t) <= m
    BY <2>4, <2>5, <1>1, ChosenIs DEF AdmissionInv
  <2>7. FirstLive(c, t) = j
    BY <2>6, <1>1 DEF Live, AdmissionInv, QueueCoherent
  <2>8. i \in Int /\ j \in Int /\ j <= i
    BY <2>1, <2>6, <2>7, <1>1 DEF Live
  <2> QED
    BY <2>8, <1>1
<1>2. AdmissionInv /\ [RNext]_rvars =>
        [\A c \in Class, t \in Tenant : \A i, j \in Live(c, t) :
           i < j /\ pc'[queue[c][t][j]] = "granted" /\ pc[queue[c][t][j]] = "waiting"
               => pc'[queue[c][t][i]] # "waiting"]_rvars
  BY <1>1 DEF RNext
<1> QED
  BY <1>2, RotationInvariance, PTL DEF RSpec, TenantFifo
=============================================================================
