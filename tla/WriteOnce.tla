----------------------------- MODULE WriteOnce -----------------------------
(***************************************************************************)
(* What the server promises a client of its writes: a write takes effect   *)
(* at most once while it is remembered, it is forgotten only after it has  *)
(* aged, and a client is told of success only after the effect.            *)
(***************************************************************************)
EXTENDS Naturals

CONSTANT Key

VARIABLES
    remembered, \* writes the server would recognise if they came again
    effects,    \* effects[k]: how often write k has taken effect
    told        \* writes whose success some client has been told of

wvars == <<remembered, effects, told>>

Init ==
    /\ remembered = {}
    /\ effects = [k \in Key |-> 0]
    /\ told = {}

Apply(k) ==
    /\ k \notin remembered
    /\ remembered' = remembered \cup {k}
    /\ effects' = [effects EXCEPT ![k] = @ + 1]
    /\ UNCHANGED told

Forget(K) ==
    /\ remembered' = remembered \ K
    /\ UNCHANGED <<effects, told>>

Tell(k) ==
    /\ effects[k] > 0
    /\ told' = told \cup {k}
    /\ UNCHANGED <<remembered, effects>>

Next ==
    \/ \E k \in Key : Apply(k) \/ Tell(k)
    \/ \E K \in SUBSET remembered : Forget(K)

Spec == Init /\ [][Next]_wvars
=============================================================================
