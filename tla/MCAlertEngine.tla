--------------------------- MODULE MCAlertEngine ---------------------------
(***************************************************************************)
(* Instances of AlertEngine for TLC.                                       *)
(***************************************************************************)
EXTENDS AlertEngine

Fine == [latency |-> 1, error |-> FALSE]
Bad == [latency |-> 9, error |-> TRUE]
TwoSamples == {Fine, Bad}

Rule(name, kind, threshold, channels) ==
  [name |-> name, kind |-> kind, threshold |-> threshold, channels |-> channels]

OnErrors == Rule("ra", "error_rate_5m", 50, <<"slack", "pagerduty">>)
OnLatency == Rule("rb", "p99_ms", 5, <<"slack">>)
SharesName == [OnLatency EXCEPT !.name = "ra"]
NoChannel == [OnLatency EXCEPT !.channels = <<>>]

SomeLists == {<<OnErrors, OnLatency>>, <<SharesName, OnErrors>>, <<NoChannel>>}
=============================================================================
