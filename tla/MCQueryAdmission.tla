-------------------------- MODULE MCQueryAdmission --------------------------
(***************************************************************************)
(* Finite instances of QueryAdmission.  Goroutines and tenants are          *)
(* interchangeable.                                                         *)
(***************************************************************************)
EXTENDS QueryAdmission, TLC

Symmetry == Permutations(Proc) \cup Permutations(Tenant)

\* Goroutines are interchangeable, so the progress of one stands for all.
Someone == CHOOSE p \in Proc : TRUE

\* Sustained reactive load cannot starve interactive work: a queued
\* foreground acquire is eventually granted or cancelled (aging).
ForegroundProgress == ForegroundServed(Someone)

\* Nor hydration: a queued bootstrap acquire is eventually granted or
\* cancelled (the reserved share).
BootstrapProgress == BootstrapServed(Someone)

\* No class starves behind the ones that go before it.
NoClassStarves == ForegroundProgress /\ BootstrapProgress
=============================================================================
