------------------------------- MODULE Alerts -------------------------------
(***************************************************************************)
(* The built-in alerts of one workspace: processAlertEvaluations, which    *)
(* ends every persistTraceRecord, the notifier, and the handlers of the    *)
(* dashboard that edit the rules.                                          *)
(*                                                                         *)
(* An evaluation lists the rules, reads the clock, computes a status per   *)
(* rule, and then for one rule after the other reads the latest event,     *)
(* notifies if the status is another one, and inserts the event.  Nothing  *)
(* holds these steps together: evaluations of concurrent captures          *)
(* interleave, and a notification may take seconds.                        *)
(*                                                                         *)
(* Its names are not those of AlertEngine, so that one module can extend   *)
(* both, see AlertEngineProofs.                                            *)
(***************************************************************************)
EXTENDS AlertRules, Sequences, Functions

None == "none"

CONSTANTS
  RuleIds,      \* ids of rules
  RuleForms,    \* what the dashboard may store under them
  Evaluations,  \* the captures of a run
  TraceForms,   \* the traces each of them may be about
  Webhooks,     \* how many notification targets of each kind there are:
  Slacks,       \* NotifyWebhooks, SlackWebhooks
  PagerDuties,  \* and PagerDutyKeys
  Retries,      \* NotifyRetries
  Disturbances  \* of a run: "store", "notify", "client", "edit"

ASSUME AlertsAssumption ==
  /\ RuleForms \subseteq [type : STRING, threshold : Int, server : Nat, method : Nat,
                           enabled : BOOLEAN]
  /\ TraceForms \subseteq [by : Evaluations, server : Nat, name : Nat, method : Nat,
                            latency : Int, error : BOOLEAN]
  /\ Retries \in Nat \ {0}
  /\ Webhooks \in Nat /\ Slacks \in Nat /\ PagerDuties \in Nat
  /\ None \notin RuleIds

\* buildNotificationTargets: the kinds, in the order in which they are tried.
Targets == [i \in 1 .. Webhooks |-> "webhook"] \o [i \in 1 .. Slacks |-> "slack"]
             \o [i \in 1 .. PagerDuties |-> "pagerduty"]

VARIABLES
  clock,      \* counts the readings of the clock, which never coincide
  alertRules, \* alert_rules
  recent,     \* the traces inside the window
  events,     \* alert_events, in the order of their insertion
  stage,      \* where each evaluation is
  at,         \* now of each evaluation
  listed,     \* the rules it listed
  verdicts,   \* the statuses it computed
  reported,   \* the rules it is through with
  delivery,   \* its delivery under way
  cancelled,  \* evaluations whose context has ended
  received,   \* history: the notifications that arrived, <<evaluation, rule, target>>
  overlapped  \* history: evaluations that were not alone at some time

data == <<alertRules, recent, events>>
own == <<at, listed, verdicts, reported, delivery>>
alertVars == <<clock, data, stage, own, cancelled, received, overlapped>>

NoDelivery == [rule |-> None, previous |-> None, target |-> 0, attempt |-> 0,
               outcome |-> None]
Running == {"list", "evaluate", "report", "deliver", "insert"}
Active == {e \in Evaluations : stage[e] \in Running}

InitAlerts ==
  /\ clock = 0
  /\ alertRules \in [RuleIds -> {f \in RuleForms : ValidRule(f)}]
  /\ recent = {}
  /\ events = <<>>
  /\ stage = [e \in Evaluations |-> "idle"]
  /\ at = [e \in Evaluations |-> 0]
  /\ listed = [e \in Evaluations |-> <<>>]
  /\ verdicts = [e \in Evaluations |-> <<>>]
  /\ reported = [e \in Evaluations |-> {}]
  /\ delivery = [e \in Evaluations |-> NoDelivery]
  /\ cancelled = {} /\ received = {} /\ overlapped = {}

Goto(e, from, to) == stage[e] = from /\ stage' = [stage EXCEPT ![e] = to]

\* The evaluation returns and its local variables are gone.
Return(e, from, to) ==
  /\ Goto(e, from, to)
  /\ at' = [at EXCEPT ![e] = 0]
  /\ listed' = [listed EXCEPT ![e] = <<>>]
  /\ verdicts' = [verdicts EXCEPT ![e] = <<>>]
  /\ reported' = [reported EXCEPT ![e] = {}]
  /\ delivery' = [delivery EXCEPT ![e] = NoDelivery]

-----------------------------------------------------------------------------
(* Evaluation.                                                             *)

\* A trace was inserted (TraceStore), others may have left the window, and the
\* capture goes on to the alerts.
BeginEvaluation(e) ==
  /\ Goto(e, "idle", "list")
  /\ \E s \in TraceForms, kept \in SUBSET recent : s.by = e /\ recent' = kept \cup {s}
  /\ overlapped' = IF Active = {} THEN overlapped ELSE overlapped \cup Active \cup {e}
  /\ UNCHANGED <<clock, alertRules, events, own, cancelled, received>>

\* ListAlertRules, and then the clock.
ListRules(e) ==
  /\ Goto(e, "list", "evaluate")
  /\ e \notin cancelled
  /\ listed' = [listed EXCEPT ![e] = alertRules]
  /\ clock' = clock + 1
  /\ at' = [at EXCEPT ![e] = clock']
  /\ UNCHANGED <<data, verdicts, reported, delivery, cancelled, received, overlapped>>

\* One query per enabled rule; the evaluations are sorted once all are there.
EvaluateRule(e) ==
  /\ stage[e] = "evaluate" /\ e \notin cancelled
  /\ \E r \in DOMAIN listed[e] \ DOMAIN verdicts[e] :
       LET with == [x \in DOMAIN verdicts[e] \cup {r} |->
                      IF x = r THEN Status(listed[e][r], recent) ELSE verdicts[e][x]] IN
       /\ verdicts' = [verdicts EXCEPT ![e] = with]
       /\ stage' = [stage EXCEPT ![e] = IF DOMAIN with = DOMAIN listed[e]
                                        THEN "report" ELSE "evaluate"]
  /\ UNCHANGED <<clock, data, at, listed, reported, delivery, cancelled, received, overlapped>>

\* A workspace without rules has nothing to report.
NothingListed(e) ==
  /\ Return(e, "evaluate", "done")
  /\ listed[e] = <<>>
  /\ UNCHANGED <<clock, data, cancelled, received, overlapped>>

\* The rows of a rule, which the queries take ORDER BY created_at, not in the
\* order of their insertion.
ListAlertEvents(r) == {events[i] : i \in {j \in 1 .. Len(events) : events[j].rule = r}}

\* LatestAlertEvent: ORDER BY created_at DESC LIMIT 1.
Latest(rows) == CHOOSE v \in rows : \A w \in rows : w.at <= v.at

LatestStatus(r) ==
  IF ListAlertEvents(r) = {} THEN None ELSE Latest(ListAlertEvents(r)).status

\* Mutant: the status is compared with the one before the latest event.
UnchangedMutant(e, r) ==
  ListAlertEvents(r) # {} /\ Latest(ListAlertEvents(r)).previous = verdicts[e][r]

Unchanged(e, r) == LatestStatus(r) = verdicts[e][r]

\* The most severe first; equal ones in the order of their names.
NextUp(e, r) ==
  /\ r \in DOMAIN verdicts[e] \ reported[e]
  /\ \A x \in DOMAIN verdicts[e] \ reported[e] :
       Severity[verdicts[e][r]] >= Severity[verdicts[e][x]]

ReadLatest(e) ==
  /\ stage[e] = "report" /\ e \notin cancelled
  /\ \E r \in RuleIds :
       /\ NextUp(e, r)
       /\ IF Unchanged(e, r)
          THEN /\ reported' = [reported EXCEPT ![e] = @ \cup {r}]
               /\ UNCHANGED <<stage, delivery>>
          ELSE /\ delivery' = [delivery EXCEPT ![e] =
                    [rule |-> r, previous |-> LatestStatus(r), target |-> 1, attempt |-> 1,
                     outcome |-> IF Targets = <<>> THEN "skipped" ELSE None]]
               /\ stage' = [stage EXCEPT ![e] = IF Targets = <<>> THEN "insert" ELSE "deliver"]
               /\ UNCHANGED reported
  /\ UNCHANGED <<clock, data, at, listed, verdicts, cancelled, received, overlapped>>

AllReported(e) ==
  /\ Return(e, "report", "done")
  /\ reported[e] = DOMAIN verdicts[e]
  /\ UNCHANGED <<clock, data, cancelled, received, overlapped>>

-----------------------------------------------------------------------------
(* Delivery: sendWithRetry inside the loop over the targets.               *)

Deliver(e, outcome, to) ==
  /\ Goto(e, "deliver", to)
  /\ delivery' = [delivery EXCEPT ![e].outcome = outcome]
  /\ UNCHANGED <<clock, data, at, listed, verdicts, reported, cancelled, overlapped>>

Arrives(e) ==
  received' = received \cup {<<e, delivery[e].rule, delivery[e].target>>}

\* The first target that accepts ends the delivery.
SendSucceeds(e) ==
  /\ e \notin cancelled
  /\ Deliver(e, "sent", "insert")
  /\ Arrives(e)

\* An error, a timeout or a status of 300 and more: the target may have got the
\* notification all the same.
SendFailed(e) ==
  /\ "notify" \in Disturbances \/ e \in cancelled
  /\ UNCHANGED received \/ Arrives(e)

\* Mutant: one attempt too many.
RetryMutant(e) ==
  /\ stage[e] = "deliver" /\ SendFailed(e)
  /\ delivery[e].attempt <= Retries /\ e \notin cancelled
  /\ delivery' = [delivery EXCEPT ![e].attempt = @ + 1]
  /\ UNCHANGED <<clock, data, stage, at, listed, verdicts, reported, cancelled, overlapped>>

\* A retry after a pause, unless the context ends the pause.
Retry(e) ==
  /\ stage[e] = "deliver" /\ SendFailed(e)
  /\ delivery[e].attempt < Retries /\ e \notin cancelled
  /\ delivery' = [delivery EXCEPT ![e].attempt = @ + 1]
  /\ UNCHANGED <<clock, data, stage, at, listed, verdicts, reported, cancelled, overlapped>>

GivenUp(e) == delivery[e].attempt = Retries \/ e \in cancelled

\* Only a webhook that fails is followed by the next target.
NextTarget(e) ==
  /\ stage[e] = "deliver" /\ SendFailed(e) /\ GivenUp(e)
  /\ Targets[delivery[e].target] = "webhook" /\ delivery[e].target < Len(Targets)
  /\ delivery' = [delivery EXCEPT ![e].target = @ + 1, ![e].attempt = 1]
  /\ UNCHANGED <<clock, data, stage, at, listed, verdicts, reported, cancelled, overlapped>>

\* Mutant: a failed delivery leaves no event, for another try later.
DeliveryFailsMutant(e) ==
  /\ Deliver(e, "failed", "done") /\ SendFailed(e) /\ GivenUp(e)
  /\ Targets[delivery[e].target] # "webhook" \/ delivery[e].target = Len(Targets)

DeliveryFails(e) ==
  /\ Deliver(e, "failed", "insert") /\ SendFailed(e) /\ GivenUp(e)
  /\ Targets[delivery[e].target] # "webhook" \/ delivery[e].target = Len(Targets)

\* The event carries the time of the evaluation, not that of its insertion.
Event(e) ==
  LET d == delivery[e] IN
  [rule |-> d.rule, status |-> verdicts[e][d.rule], previous |-> d.previous,
   at |-> at[e], outcome |-> d.outcome, by |-> e]

\* Mutant: an event that cannot be inserted is skipped.
InsertAlertEventMutant(e) ==
  /\ Goto(e, "insert", IF e \in cancelled THEN "done" ELSE "report")
  /\ events' = IF e \in cancelled THEN events ELSE Append(events, Event(e))
  /\ reported' = [reported EXCEPT ![e] = @ \cup {delivery[e].rule}]
  /\ delivery' = [delivery EXCEPT ![e] = NoDelivery]
  /\ UNCHANGED <<clock, alertRules, recent, at, listed, verdicts, cancelled, received,
                 overlapped>>

InsertAlertEvent(e) ==
  /\ Goto(e, "insert", "report")
  /\ e \notin cancelled
  /\ events' = Append(events, Event(e))
  /\ reported' = [reported EXCEPT ![e] = @ \cup {delivery[e].rule}]
  /\ delivery' = [delivery EXCEPT ![e] = NoDelivery]
  /\ UNCHANGED <<clock, alertRules, recent, at, listed, verdicts, cancelled, received,
                 overlapped>>

-----------------------------------------------------------------------------
(* Disturbances, and the dashboard.                                        *)

\* A statement fails: the evaluation ends where it is, which is also what a
\* crash of the worker leaves.
StoreFails(e) ==
  /\ "store" \in Disturbances \/ e \in cancelled
  /\ stage[e] \in Running \ {"deliver"}
  /\ Return(e, stage[e], "failed")
  /\ UNCHANGED <<clock, data, cancelled, received, overlapped>>

\* The client of the captured request hangs up.
Cancel(e) ==
  /\ "client" \in Disturbances
  /\ stage[e] \in Running /\ e \notin cancelled
  /\ cancelled' = cancelled \cup {e}
  /\ UNCHANGED <<clock, data, stage, own, received, overlapped>>

\* ON CONFLICT(id) DO UPDATE.
UpsertAlertRule(r, form) ==
  alertRules' = [x \in DOMAIN alertRules \cup {r} |-> IF x = r THEN form ELSE alertRules[x]]

\* handleAlertRuleUpsert refuses an invalid rule.
Upsert(r, form) ==
  /\ "edit" \in Disturbances
  /\ ValidRule(form)
  /\ UpsertAlertRule(r, form)
  /\ UNCHANGED <<clock, recent, events, stage, own, cancelled, received, overlapped>>

\* The events of a deleted rule stay.
Delete(r) ==
  /\ "edit" \in Disturbances
  /\ alertRules' = Restrict(alertRules, DOMAIN alertRules \ {r})
  /\ UNCHANGED <<clock, recent, events, stage, own, cancelled, received, overlapped>>

\* handleAlertEvaluations: the same statuses, for the dashboard.
Evaluated == [r \in DOMAIN alertRules |-> Status(alertRules[r], recent)]

Step(e) ==
  \/ ListRules(e) \/ EvaluateRule(e) \/ NothingListed(e)
  \/ ReadLatest(e) \/ AllReported(e)
  \/ SendSucceeds(e) \/ Retry(e) \/ NextTarget(e) \/ DeliveryFails(e)
  \/ InsertAlertEvent(e) \/ StoreFails(e)

NextAlerts ==
  \/ \E e \in Evaluations : BeginEvaluation(e) \/ Step(e) \/ Cancel(e)
  \/ \E r \in RuleIds : Delete(r) \/ \E f \in RuleForms : Upsert(r, f)

SpecAlerts == InitAlerts /\ [][NextAlerts]_alertVars

-----------------------------------------------------------------------------
(* Properties.                                                             *)

Verdict == [rule : RuleIds, status : Statuses, previous : Statuses \cup {None},
            at : Nat, outcome : {"sent", "failed", "skipped"}, by : Evaluations]

\* Every variable has its type.
AlertsTypeOK ==
  /\ clock \in Nat
  /\ DOMAIN alertRules \subseteq RuleIds
  /\ \A r \in DOMAIN alertRules : alertRules[r] \in RuleForms
  /\ recent \subseteq TraceForms
  /\ events \in Seq(Verdict)
  /\ stage \in [Evaluations -> Running \cup {"idle", "done", "failed"}]
  /\ \A e \in Evaluations :
       /\ at[e] \in 0 .. clock
       /\ DOMAIN verdicts[e] \subseteq DOMAIN listed[e]
       /\ reported[e] \subseteq DOMAIN verdicts[e]
       /\ delivery[e].attempt \in 0 .. Retries
  /\ received \subseteq Evaluations \X RuleIds \X (1 .. Len(Targets))

\* What /api/alerts/evaluations answers at any moment: no rule fires unless the
\* calls of some method on some server, among those the rule selects, breach it;
\* and the status is exactly right for every rule about errors, whatever else is
\* in the window, and for a latency rule as long as all it selects are the calls
\* of one method on one server.  (A latency rule that selects more looks at one
\* method of one server and may miss the others.)
EvaluationsCorrect ==
  \A r \in DOMAIN alertRules : LET rule == alertRules[r] IN
    /\ Evaluated[r] = "firing" => Promised(rule, recent) = "firing"
    /\ Decisive(rule, recent) => Evaluated[r] = Promised(rule, recent)

\* An evaluation that ran alone and came to its end leaves the table in
\* agreement with it: the latest event of every rule it listed has the status
\* it computed, whatever earlier evaluations that overlapped had left there.
SettledWhenAlone ==
  [][\A e \in Evaluations \ overlapped :
       stage[e] # "done" /\ stage'[e] = "done"
       => \A r \in DOMAIN listed[e] : LatestStatus(r) = verdicts[e][r]]_alertVars

\* "receives alert state changes": the events of a rule, newest first, as the
\* dashboard lists them, alternate, but for those of evaluations that overlapped.
RepeatsOverlap ==
  \A r \in RuleIds : LET list == ListAlertEvents(r) IN
    \A v, w \in list :
      /\ w.at < v.at /\ \A x \in list : x.at <= w.at \/ v.at <= x.at
      /\ w.status = v.status
      => v.by \in overlapped

\* A notification that arrived has its event, in which delivery was tried, or
\* is about to get it; only an evaluation that was cut short leaves it without,
\* and will notify again.
NotifiedIsRecorded ==
  \A n \in received :
    \/ \E i \in 1 .. Len(events) : events[i].by = n[1] /\ events[i].rule = n[2]
    \/ stage[n[1]] = "failed"
    \/ stage[n[1]] \in {"deliver", "insert"} /\ delivery[n[1]].rule = n[2]
=============================================================================
