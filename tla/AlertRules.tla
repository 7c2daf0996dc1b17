----------------------------- MODULE AlertRules -----------------------------
(***************************************************************************)
(* What a built-in alert rule says of the traces in its window:            *)
(* evaluateAlertRuleSQL over QueryErrorStats and QueryLatencyStats.        *)
(*                                                                         *)
(* A sample is a trace of the window: by whom it was captured, which tells *)
(* it from its like, the id and the name of its server and its method      *)
(* (numbers, in the order of the names; 0 for no method), its latency and  *)
(* whether it is an error.  All samples are of one workspace and           *)
(* environment, those of the rule, which are never empty.  The queries     *)
(* group them, and of the groups only the first counts.                    *)
(***************************************************************************)
EXTENDS Integers, FiniteSets, FiniteSetsExt

Severity == [firing |-> 3, ok |-> 2, no_data |-> 1, disabled |-> 0]
Statuses == DOMAIN Severity

\* buildWindowedTraceFilter: a rule without a method is about all of them, and
\* so is one without the name of a server.
Selected(rule, samples) ==
  {s \in samples : rule.method \in {0, s.method} /\ rule.server \in {0, s.name}}

\* WHERE method <> '', in the query of the errors.
Counted(rule, samples) ==
  {s \in Selected(rule, samples) : rule.type = "latency_p95" \/ s.method # 0}

\* GROUP BY: the query of the errors does not look at the server's name.
RowKey(rule, s) ==
  <<s.server, IF rule.type = "error_rate" THEN 0 ELSE s.name, s.method>>

RowKeys(rule, samples) == {RowKey(rule, s) : s \in samples}
OfRow(rule, samples, row) == {s \in samples : RowKey(rule, s) = row}
Errors(samples) == {s \in samples : s.error}

\* Mutant: the rank is rounded down.
RowRankMutant(n, pct) == (n * pct) \div 100

RowRank(n, pct) == (n * pct + 99) \div 100

\* The smallest latency that Rank rows do not exceed.
LatencyPercentile(samples, pct) ==
  Min({s.latency : s \in {x \in samples :
         Cardinality({y \in samples : y.latency <= x.latency})
           >= RowRank(Cardinality(samples), pct)}})

ErrorsBreach(samples, threshold) ==
  Cardinality(Errors(samples)) * 100 >= threshold * Cardinality(samples)

\* ORDER BY error_rate_pct DESC: no other row outdoes the first.
WorstRow(rule, samples, row) ==
  \A other \in RowKeys(rule, samples) :
    Cardinality(Errors(OfRow(rule, samples, row))) * Cardinality(OfRow(rule, samples, other))
      >= Cardinality(Errors(OfRow(rule, samples, other))) * Cardinality(OfRow(rule, samples, row))

\* ORDER BY server_id, server_name, method.
Precedes(row, other) ==
  \/ row[1] < other[1]
  \/ row[1] = other[1] /\ row[2] < other[2]
  \/ row[1] = other[1] /\ row[2] = other[2] /\ row[3] < other[3]

\* stats[0].
LeadingRow(rule, samples) ==
  CHOOSE row \in RowKeys(rule, samples) :
    IF rule.type = "error_rate" THEN WorstRow(rule, samples, row)
    ELSE \A other \in RowKeys(rule, samples) \ {row} : Precedes(row, other)

\* The first row of each query, as the set of its samples.
FirstRow(rule, samples) ==
  LET counted == Counted(rule, samples) IN
  IF counted = {} THEN {} ELSE OfRow(rule, counted, LeadingRow(rule, counted))

Breaches(rule, row) ==
  IF rule.type = "error_rate" THEN ErrorsBreach(row, rule.threshold)
                              ELSE LatencyPercentile(row, 95) >= rule.threshold

Status(rule, samples) ==
  LET row == FirstRow(rule, samples) IN
  IF ~rule.enabled THEN "disabled"
  ELSE IF row = {} THEN "no_data"
  ELSE IF Breaches(rule, row) THEN "firing" ELSE "ok"

\* validateAlertRule.
ValidRule(rule) ==
  /\ rule.type \in {"error_rate", "latency_p95"}
  /\ rule.threshold >= 0

-----------------------------------------------------------------------------
(* What the rules promise, without ranks and rows.                         *)

\* The calls of a method on a server are slow if fewer than 95 of 100 of them
\* stay under the threshold, and faulty if the share of errors reaches it.
RowBreaches(rule, samples) ==
  IF rule.type = "error_rate"
  THEN ErrorsBreach(samples, rule.threshold)
  ELSE Cardinality({s \in samples : s.latency < rule.threshold}) * 100
         < 95 * Cardinality(samples)

Promised(rule, samples) ==
  LET counted == Counted(rule, samples) IN
  IF ~rule.enabled THEN "disabled"
  ELSE IF counted = {} THEN "no_data"
  ELSE IF \E row \in RowKeys(rule, counted) : RowBreaches(rule, OfRow(rule, counted, row))
       THEN "firing" ELSE "ok"

\* The first row is all there is, or no other can be worse.
Decisive(rule, samples) ==
  \/ rule.type = "error_rate"
  \/ \A row, other \in RowKeys(rule, Counted(rule, samples)) : row = other
=============================================================================
