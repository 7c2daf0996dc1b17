---------------------------- MODULE AlertEngine ----------------------------
(***************************************************************************)
(* The configured alerts of --alerts-config: Engine.Run of                 *)
(* internal/alerting, the conditions it evaluates and the channels it      *)
(* dispatches to.                                                          *)
(*                                                                         *)
(* One goroutine evaluates at once and then on every tick.  It reads the   *)
(* clock, queries the traces of the window, and goes through the rules in  *)
(* order; a rule that fires is dispatched unless its name fired less than  *)
(* the cooldown ago.  The cooldown starts before the dispatch, a channel   *)
(* that fails is only logged, and nothing survives a restart.              *)
(***************************************************************************)
EXTENDS Integers, Sequences, FiniteSets, FiniteSetsExt

CONSTANTS
  RuleLists, \* the rules a configuration may hold
  Samples,   \* what a trace says: its latency and whether it is an error
  Window,    \* the five minutes of a query, in ticks
  Cooldown,  \* the fifteen minutes of shouldFire, in ticks
  Lag,       \* ticks that may pass while one evaluation dispatches
  Horizon,   \* the clock stops here
  Fragile,   \* channels that may fail for a while
  Faults     \* of a run: "store"

\* RuleConfig.
Rules == [name : STRING, kind : {"error_rate_5m", "p99_ms"}, threshold : Int,
          channels : Seq(STRING)]

ASSUME AlertEngineAssumption ==
  /\ RuleLists \subseteq Seq(Rules)
  /\ Samples \subseteq [latency : Int, error : BOOLEAN]
  /\ Cooldown \in Nat \ {0} /\ Window \in Nat /\ Horizon \in Nat
  /\ Lag \in Nat \ {0}

Channels == {"slack", "pagerduty"}
Never == -1

VARIABLES
  now,       \* the clock, in ticks
  rules,     \* Engine.rules
  traces,    \* the stored traces a query may still find
  pc,        \* where the engine is
  slot,      \* a tick waits in ticker.C, which holds one
  asOf,      \* now of the evaluation
  seen,      \* the traces it found
  index,     \* the rule it is at
  channel,   \* the channel it is at
  lastFired, \* Engine.lastFired
  upSince,   \* when each channel began to work, Never while it fails
  fired,     \* history: when each rule was last dispatched by this process
  told,      \* history: the last alert that reached each channel of each rule
  shaken,    \* history: the channels that have failed
  steady     \* history: since when each condition held and was looked at

engine == <<pc, slot, asOf, seen, index, channel, lastFired>>
history == <<fired, told, shaken>>
vars == <<now, rules, traces, engine, upSince, history, steady>>

-----------------------------------------------------------------------------
(* Conditions.                                                             *)

\* The ceiling of the share of the values.
Rank(n, pct) == (n * pct + 99) \div 100

\* The least latency that Rank of the traces do not exceed.
Percentile(ts, pct) ==
  Min({t.latency : t \in {x \in ts :
         Cardinality({y \in ts : y.latency <= x.latency}) >= Rank(Cardinality(ts), pct)}})

\* No traces, no alert; and a value equal to the threshold is none either.
EvaluateCondition(rule, ts) ==
  /\ ts # {}
  /\ CASE rule.kind = "error_rate_5m" ->
            Cardinality({t \in ts : t.error}) * 100 > rule.threshold * Cardinality(ts)
       [] rule.kind = "p99_ms" -> Percentile(ts, 99) > rule.threshold

\* What the conditions mean: the share of errors, and that of slow calls.
Meant(rule, ts) ==
  Cardinality({t \in ts : IF rule.kind = "p99_ms" THEN t.latency > rule.threshold
                                                  ELSE t.error}) * 100
    > (IF rule.kind = "p99_ms" THEN 1 ELSE rule.threshold) * Cardinality(ts)

\* Config.Validate.  It lets two rules have one name.
Valid(list) ==
  \A i \in 1 .. Len(list) :
    /\ list[i].kind = "p99_ms" => list[i].threshold >= 1
    /\ Len(list[i].channels) > 0
    /\ \A c \in 1 .. Len(list[i].channels) : list[i].channels[c] \in Channels

-----------------------------------------------------------------------------

Nothing == [i \in DOMAIN rules |-> Never]
NothingTold == [i \in DOMAIN rules |-> [c \in DOMAIN rules[i].channels |-> Never]]

Init ==
  /\ now = 0 /\ traces = {}
  /\ rules \in {list \in RuleLists : Valid(list)}
  /\ pc = "idle" /\ slot = TRUE
  /\ asOf = 0 /\ seen = {} /\ index = 0 /\ channel = 0
  /\ lastFired = <<>>
  /\ upSince = [c \in Channels |-> 0]
  /\ fired = Nothing /\ told = NothingTold /\ shaken = {}
  /\ steady = Nothing

Recent(ts, t) == {x \in ts : x.at >= t - Window}

\* Which conditions hold in ts at t, and since when.
Steady(ts, t) ==
  steady' = [i \in DOMAIN rules |->
               IF ~Meant(rules[i], Recent(ts, t)) THEN Never
               ELSE IF steady[i] = Never THEN t ELSE steady[i]]

\* A trace of the workspace is stored, and the sweep that follows may delete
\* the oldest ones, TraceStore.
Capture(s) ==
  /\ \E kept \in {{t \in traces : t.at >= oldest} : oldest \in now - Window .. now} :
       traces' = kept \cup {[at |-> now, latency |-> s.latency, error |-> s.error]}
  /\ Steady(traces', now)
  /\ UNCHANGED <<now, rules, engine, upSince, history>>

\* The ticker drops a tick that finds the one before.  Only a dispatch takes
\* time, each message at most five seconds.
Tick ==
  /\ now < Horizon
  /\ \/ pc = "idle" /\ ~slot
     \/ pc = "send" /\ now < asOf + Lag
  /\ now' = now + 1
  /\ slot' = TRUE
  /\ traces' = Recent(traces, now')
  /\ Steady(traces', now')
  /\ UNCHANGED <<rules, pc, asOf, seen, index, channel, lastFired, upSince, history>>

\* evaluateOnce.
Begin ==
  /\ pc = "idle" /\ slot
  /\ pc' = "query" /\ slot' = FALSE /\ asOf' = now
  /\ UNCHANGED <<now, rules, traces, seen, index, channel, lastFired, upSince,
                 history, steady>>

Query ==
  /\ pc = "query"
  /\ pc' = "rules" /\ index' = 1
  /\ seen' = Recent(traces, asOf)
  /\ UNCHANGED <<now, rules, traces, slot, asOf, channel, lastFired, upSince,
                 history, steady>>

\* The evaluation is given up until the next tick.
QueryFails ==
  /\ pc = "query" /\ "store" \in Faults
  /\ pc' = "idle"
  /\ steady' = Nothing
  /\ UNCHANGED <<now, rules, traces, slot, asOf, seen, index, channel, lastFired,
                 upSince, history>>

\* Mutant: a cooldown that is over only after another minute.
ShouldFireMutant(name) ==
  name \in DOMAIN lastFired => asOf - lastFired[name] > Cooldown

ShouldFire(name) ==
  name \in DOMAIN lastFired => asOf - lastFired[name] >= Cooldown

Fires ==
  /\ pc = "rules" /\ index <= Len(rules)
  /\ EvaluateCondition(rules[index], seen)
  /\ ShouldFire(rules[index].name)

PassRule ==
  /\ pc = "rules" /\ index <= Len(rules)
  /\ ~Fires
  /\ index' = index + 1
  /\ UNCHANGED <<now, rules, traces, pc, slot, asOf, seen, channel, lastFired,
                 upSince, history, steady>>

\* Mutant: the cooldown is that of the first rule.
SetLastFiredMutant(name, t) ==
  lastFired' = [n \in DOMAIN lastFired \cup {rules[1].name} |->
                  IF n = rules[1].name THEN t ELSE lastFired[n]]

SetLastFired(name, t) ==
  lastFired' = [n \in DOMAIN lastFired \cup {name} |-> IF n = name THEN t ELSE lastFired[n]]

Fire ==
  /\ Fires
  /\ SetLastFired(rules[index].name, asOf)
  /\ fired' = [fired EXCEPT ![index] = asOf]
  /\ pc' = "send" /\ channel' = 1
  /\ UNCHANGED <<now, rules, traces, slot, asOf, seen, index, upSince, told, shaken,
                 steady>>

\* Mutant: the first channel that fails ends the dispatch.
DispatchedMutant ==
  IF channel < Len(rules[index].channels) /\ upSince[rules[index].channels[channel]] # Never
  THEN pc' = pc /\ channel' = channel + 1 /\ index' = index
  ELSE pc' = "rules" /\ channel' = 0 /\ index' = index + 1

\* A message failed or not: on to the next channel, or to the next rule.
Dispatched ==
  IF channel < Len(rules[index].channels)
  THEN pc' = pc /\ channel' = channel + 1 /\ index' = index
  ELSE pc' = "rules" /\ channel' = 0 /\ index' = index + 1

Send ==
  /\ pc = "send"
  /\ Dispatched
  /\ told' = IF upSince[rules[index].channels[channel]] = Never THEN told
             ELSE [told EXCEPT ![index][channel] = asOf]
  /\ UNCHANGED <<now, rules, traces, slot, asOf, seen, lastFired, upSince, fired,
                 shaken, steady>>

Finish ==
  /\ pc = "rules" /\ index > Len(rules)
  /\ pc' = "idle" /\ seen' = {} /\ index' = 0
  /\ UNCHANGED <<now, rules, traces, slot, asOf, channel, lastFired, upSince,
                 history, steady>>

-----------------------------------------------------------------------------
(* Disturbances.                                                           *)

\* A channel fails, once, and works again.
Outage(c) ==
  /\ c \in Fragile \ shaken
  /\ upSince' = [upSince EXCEPT ![c] = Never]
  /\ shaken' = shaken \cup {c}
  /\ UNCHANGED <<now, rules, traces, engine, fired, told, steady>>

Recover(c) ==
  /\ upSince[c] = Never
  /\ upSince' = [upSince EXCEPT ![c] = now]
  /\ UNCHANGED <<now, rules, traces, engine, history, steady>>

\* The process ends anywhere and is started again, with the same rules.
Restart ==
  /\ pc' = "idle" /\ slot' = TRUE
  /\ asOf' = now /\ seen' = {} /\ index' = 0 /\ channel' = 0
  /\ lastFired' = <<>>
  /\ fired' = Nothing /\ told' = NothingTold /\ steady' = Nothing
  /\ UNCHANGED <<now, rules, traces, upSince, shaken>>

Run == Begin \/ Query \/ QueryFails \/ PassRule \/ Fire \/ Send \/ Finish

Next ==
  \/ \E s \in Samples : Capture(s)
  \/ Tick \/ Run \/ Restart
  \/ \E c \in Channels : Outage(c) \/ Recover(c)

Spec == Init /\ [][Next]_vars

-----------------------------------------------------------------------------
(* Properties.                                                             *)

Ticks == 0 .. Horizon

\* Every variable has its type.
TypeOK ==
  /\ now \in Ticks /\ asOf \in 0 .. now
  /\ rules \in RuleLists
  /\ pc \in {"idle", "query", "rules", "send"} /\ slot \in BOOLEAN
  /\ index \in 0 .. Len(rules) + 1 /\ (pc = "rules" => index # 0)
  /\ pc = "send" => index \in 1 .. Len(rules)
                    /\ channel \in 1 .. Len(rules[index].channels)
  /\ \A n \in DOMAIN lastFired : lastFired[n] \in 0 .. asOf
  /\ fired \in [DOMAIN rules -> 0 .. asOf \cup {Never}]
  /\ upSince \in [Channels -> Ticks \cup {Never}] /\ shaken \subseteq Channels

\* While the process lives, a rule name is dispatched at most once per
\* cooldown, however often its condition comes and goes and however many
\* rules share the name.
CooldownHeld ==
  [][\A i, j \in DOMAIN rules :
       /\ rules[i].name = rules[j].name
       /\ fired'[i] \notin {fired[i], Never} /\ fired[j] # Never
       => fired'[i] - fired[j] >= Cooldown]_vars

\* A channel that never failed gets every alert dispatched to it, whatever
\* happens on the channels before it.
HealthyChannelTold ==
  \A i \in DOMAIN rules : \A c \in DOMAIN rules[i].channels :
    \/ rules[i].channels[c] \in shaken
    \/ told[i][c] = fired[i]
    \/ pc = "send" /\ index = i /\ channel <= c

\* No other rule has the name: Config.Validate does not ask for it.
Alone(i) == \A j \in DOMAIN rules : rules[j].name = rules[i].name => j = i

\* The longest silence: a cooldown, the evaluation that comes after it, and
\* the time that one and the one before may take.
Silence == Cooldown + 2 * Lag - 1

\* A condition that lasts on a channel that works is heard there again and
\* again: an outage, during which the cooldown of an alert nobody received runs
\* on, delays it by one cooldown and no more.
LastingAlertHeard ==
  \A i \in DOMAIN rules : \A c \in 1 .. Len(rules[i].channels) :
    /\ Alone(i)
    /\ steady[i] # Never /\ now - steady[i] > Silence
    /\ upSince[rules[i].channels[c]] # Never /\ now - upSince[rules[i].channels[c]] > Silence
    => told[i][c] # Never /\ now - told[i][c] <= Silence
=============================================================================
