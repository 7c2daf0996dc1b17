------------------------------ MODULE MCAlerts ------------------------------
(***************************************************************************)
(* Instances of Alerts for TLC.                                            *)
(***************************************************************************)
EXTENDS Alerts

CONSTANTS e1, e2

Fast(e) == [by |-> e, server |-> 1, name |-> 1, method |-> 1, latency |-> 1, error |-> FALSE]
Slow(e) == [Fast(e) EXCEPT !.latency = 9, !.error = TRUE]
Other(e) == [Fast(e) EXCEPT !.method = 2]
Elsewhere(e) == [Slow(e) EXCEPT !.server = 2]

\* The second capture may be of another server of the same name.
SomeTraces == {Fast(e1), Slow(e1), Other(e1), Fast(e2), Elsewhere(e2)}

OnErrors == [type |-> "error_rate", threshold |-> 50, server |-> 0, method |-> 0, enabled |-> TRUE]
OnLatency == [type |-> "latency_p95", threshold |-> 9, server |-> 1, method |-> 1,
              enabled |-> TRUE]
Negative == [OnErrors EXCEPT !.threshold = -1]

SomeForms == {OnErrors, OnLatency, Negative}
=============================================================================
