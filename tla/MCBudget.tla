------------------------------ MODULE MCBudget ------------------------------
(***************************************************************************)
(* Instances of Budget for TLC: three or four requests, limits of one call *)
(* an hour and two or any number a day, days of two hours.                 *)
(***************************************************************************)
EXTENDS Budget, TLC

CONSTANTS m1, m2, r1, r2, r3, r4

\* Every request on one worker, or the third one on a worker of its own.
OneWorker == [r \in Requests |-> m1]
TwoWorkers == [r \in Requests |-> IF r = r3 THEN m2 ELSE m1]

\* All on one team, or the first one on the team "default".
OneTeam == [r \in Requests |-> "alpha"]
TwoTeams == [r \in Requests |-> IF r = r1 THEN "default" ELSE "alpha"]

Limits(hour, day) ==
  [t \in Teams |-> [typ \in WindowTypes |-> IF typ = "hour" THEN hour ELSE day]]
OneAnHour == Limits(1, 0)
OneAnHourTwoADay == Limits(1, 2)
OneTokenADay == [t \in Teams |-> 1]

\* Which responses carry tokens.
AllTalk == [r \in Requests |-> 1]
OneTalks == [r \in Requests |-> IF r = r1 THEN 1 ELSE 0]

\* The requests that no constant tells apart.
Twins == Permutations(Requests \ {r1})
=============================================================================
