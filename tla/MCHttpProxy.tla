---------------------------- MODULE MCHttpProxy -----------------------------
(***************************************************************************)
(* Instances of HttpProxy for TLC: three requests of two teams.            *)
(***************************************************************************)
EXTENDS HttpProxy, TLC

CONSTANTS r1, r2, r3

\* How ids can fall: all different and r3 a notification, or those of clients
\* that all count from the same start.
DistinctIds ==
  [r \in Requests |-> IF r = r1 THEN 1 ELSE IF r = r2 THEN 2 ELSE None]
SharedIds == [r \in Requests |-> 1]
SomeIds == {DistinctIds, SharedIds}

\* What may go wrong in a capture with the client still there.
LogMayFail == {<<"request", r2>>}
StoreMayFail == {<<"result", r1>>}

TwoTeams == [r \in Requests |-> IF r = r1 THEN "alpha" ELSE "beta"]
=============================================================================
