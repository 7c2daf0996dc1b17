--------------------------- MODULE MCTraceReader ----------------------------
(* Instances of TraceReader for TLC: traces of the proxy, and a trace that an *)
(* SDK posts twice.                                                           *)
EXTENDS TraceReader, TLC

CONSTANTS t1, t2, s1, s2

OneRetried == [r \in Records |-> IF r = s2 THEN s1 ELSE r]
Swaps == Permutations({t1, t2})
=============================================================================
