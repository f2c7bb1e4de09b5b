-------------------------- MODULE MCChangeDelivery --------------------------
(***************************************************************************)
(* Finite instances of ChangeDelivery: tenant tables t1 and t2, landlord   *)
(* table u.                                                                *)
(***************************************************************************)
EXTENDS ChangeDelivery

CONSTANTS t1, t2, u

Mutation(writes, declared) == [writes |-> writes, declared |-> declared, named |-> TRUE]
Action(writes, declared) == [writes |-> writes, declared |-> declared, named |-> FALSE]
Elsewhere(writes, named) == [writes |-> writes, declared |-> {}, named |-> named]

\* A mutation that may write less than it declares, an action, a
\* landlord write.
EveryChange ==
    {Mutation({t1}, {t1, t2}), Mutation({t1, t2}, {t1, t2}), Mutation({u}, {u}),
     Action({t1}, {t1})}

\* A commit of another process, which only its triggers announce.
OneTable == {Mutation({t1}, {t1}), Elsewhere({t1}, FALSE)}

Bound(written, calls, browses, cuts, doubts, clears) ==
    [commits |-> written, calls |-> calls, browses |-> browses, cuts |-> cuts,
     doubts |-> doubts, clears |-> clears, clearing |-> FALSE,
     byHand |-> browses + clears > 0]

OneCut == {Bound(2, 0, 0, 1, 0, 0)}
\* Two commits beside a caller of the query; or one commit beside a
\* row browser, a doubt about the listener and a clear of the cache.
CallOrClear == {Bound(2, 1, 0, 0, 0, 0), Bound(1, 0, 1, 0, 1, 1)}
=============================================================================
