----------------------------- MODULE MCEventHub -----------------------------
(* Instances of EventHub for TLC: one session shows everything, the other     *)
(* only what the first publisher makes.                                       *)
EXTENDS EventHub, TLC

CONSTANTS p1, p2, s1, s2

TwoAndOne == p1 :> 2 @@ p2 :> 1
OneFilters == s1 :> Records @@ s2 :> {<<p1, 1>>, <<p1, 2>>}
=============================================================================
