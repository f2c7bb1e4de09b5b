------------------------- MODULE AdmissionRotation -------------------------
(***************************************************************************)
(* QueryAdmission with a history variable that remembers, for a tenant     *)
(* with queued work, which tenants were served from the same queue while   *)
(* it waited.                                                              *)
(***************************************************************************)
EXTENDS QueryAdmission, TLC

VARIABLE passed  \* passed[c][u]: tenants served since u began to wait

rvars == <<vars, passed>>

\* The tenants that get a permit out of queue c in this step.
Served(c) == {t \in Tenant : \E p \in Waiters(c) : ten[p] = t /\ pc'[p] = "granted"}

RInit == Init /\ passed = [c \in Class |-> [u \in Tenant |-> {}]]

RNext ==
    /\ Next
    /\ passed' = [c \in Class |-> [u \in Tenant |->
                     IF u \in Served(c) \/ \A p \in Waiters(c) : ten[p] # u THEN {}
                     ELSE passed[c][u] \cup Served(c)]]

RSpec == RInit /\ [][RNext]_rvars

\* Tenant round-robin: while tenant u has work queued in a class, no other
\* tenant gets two permits out of that queue, whatever joins, cancels or is
\* compacted away in between ("one tenant's burst cannot starve another
\* tenant's queued work of the same class").
RotationFair ==
    [][\A c \in Class, u \in Tenant :
           (\E p \in Waiters(c) : ten[p] = u) => Served(c) \cap passed[c][u] = {}]_rvars

\* One tenant's queue is first-in first-out: of two waiters the one further
\* back is never granted while the other still waits.
TenantFifo ==
    [][\A c \in Class, t \in Tenant : \A i, j \in Live(c, t) :
           i < j /\ pc'[queue[c][t][j]] = "granted" /\ pc[queue[c][t][j]] = "waiting"
               => pc'[queue[c][t][i]] # "waiting"]_rvars

RSymmetry == Permutations(Proc) \cup Permutations(Tenant)
=============================================================================
