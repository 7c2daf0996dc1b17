-------------------------- MODULE AlertEngineProofs --------------------------
(***************************************************************************)
(* Proofs about AlertEngine, for any rules, times and disturbances; and,   *)
(* from "The built-in alerts" on, about Alerts and AlertRules, for any     *)
(* rules, evaluations, traces and disturbances.                            *)
(***************************************************************************)
EXTENDS AlertEngine, Alerts, FiniteSetTheorems, TLAPS

USE AlertEngineAssumption

\* The rules are those of a configuration that was accepted, and do not change.
RulesOK == rules \in Seq(Rules) /\ Valid(rules)

LEMMA RulesFacts ==
  ASSUME RulesOK
  PROVE  /\ Len(rules) \in Nat /\ DOMAIN rules = 1 .. Len(rules)
         /\ \A i \in DOMAIN rules :
              /\ DOMAIN rules[i].channels = 1 .. Len(rules[i].channels)
              /\ Len(rules[i].channels) \in Nat \ {0}
              /\ \A c \in DOMAIN rules[i].channels : rules[i].channels[c] \in Channels
<1>1. Len(rules) \in Nat /\ DOMAIN rules = 1 .. Len(rules)
  BY DEF RulesOK
<1>2. ASSUME NEW i \in DOMAIN rules
      PROVE  /\ DOMAIN rules[i].channels = 1 .. Len(rules[i].channels)
             /\ Len(rules[i].channels) \in Nat \ {0}
             /\ \A c \in DOMAIN rules[i].channels : rules[i].channels[c] \in Channels
  <2>1. rules[i] \in Rules
    BY <1>1, <1>2 DEF RulesOK
  <2>2. rules[i].channels \in Seq(STRING)
    BY <2>1 DEF Rules
  <2>3. /\ DOMAIN rules[i].channels = 1 .. Len(rules[i].channels)
        /\ Len(rules[i].channels) \in Nat
    BY <2>2
  <2> QED  BY <1>1, <2>3 DEF RulesOK, Valid
<1> QED  BY <1>1, <1>2

-----------------------------------------------------------------------------
(* Types.                                                                  *)

\* No step changes the rules.
LEMMA SameRules ==
  ASSUME RulesOK, [Next]_vars
  PROVE  RulesOK' /\ rules' = rules
BY DEF RulesOK, Valid, Next, Capture, Tick, Run, Begin, Query, QueryFails, PassRule, Fire,
       Send, Finish, Outage, Recover, Restart, vars, Rules, Channels

\* Dispatched stays within the channels of the rule and then within the rules.
LEMMA TypeStep ==
  ASSUME RulesOK, TypeOK, [Next]_vars
  PROVE  TypeOK'
<1> USE DEF TypeOK, Ticks, engine, history
<1>1. /\ Len(rules) \in Nat /\ DOMAIN rules = 1 .. Len(rules)
      /\ \A i \in DOMAIN rules : Len(rules[i].channels) \in Nat \ {0}
  BY RulesFacts
<1>2. /\ now \in Nat /\ asOf \in Nat /\ asOf <= now /\ Horizon \in Nat /\ index \in Nat
  BY <1>1
<1>3. rules' = rules /\ 0 .. asOf \subseteq 0 .. now
  BY <1>2, SameRules
<1>4. ASSUME NEW s \in Samples, Capture(s) PROVE TypeOK'
  BY <1>4 DEF Capture
<1>5. CASE Tick
  BY <1>1, <1>2, <1>5 DEF Tick
<1>6. CASE Begin
  <2>1. /\ \A n \in DOMAIN lastFired : lastFired[n] \in 0 .. now
        /\ fired \in [DOMAIN rules -> 0 .. now \cup {Never}]
    BY <1>3
  <2>2. 0 .. now = 0 .. asOf' /\ now \in 0 .. now
    BY <1>2, <1>6 DEF Begin
  <2> QED  BY <1>1, <1>3, <1>6, <2>1, <2>2 DEF Begin
<1>7. CASE Query
  BY <1>1, <1>2, <1>7 DEF Query
<1>8. CASE QueryFails
  BY <1>1, <1>8 DEF QueryFails
<1>9. CASE PassRule
  BY <1>1, <1>2, <1>9 DEF PassRule
<1>10. CASE Fire
  <2>1. index \in 1 .. Len(rules) /\ index' = index /\ channel' = 1 /\ pc' = "send"
    BY <1>1, <1>2, <1>10 DEF Fire, Fires
  <2>2. \A n \in DOMAIN lastFired' : lastFired'[n] \in 0 .. asOf
    BY <1>2, <1>10 DEF Fire, SetLastFired
  <2>3. fired' \in [DOMAIN rules -> 0 .. asOf \cup {Never}]
    <3> DEFINE Moments == 0 .. asOf \cup {Never}
    <3>1. asOf \in Moments /\ fired \in [DOMAIN rules -> Moments]
      BY <1>2
    <3>2. fired' = [fired EXCEPT ![index] = asOf]
      BY <1>10 DEF Fire
    <3> HIDE DEF Moments
    <3>3. fired' \in [DOMAIN rules -> Moments]
      BY <3>1, <3>2
    <3> QED  BY <3>3 DEF Moments
  <2>4. now' = now /\ asOf' = asOf /\ slot' = slot /\ upSince' = upSince /\ shaken' = shaken
    BY <1>10 DEF Fire
  <2>5. channel' \in 1 .. Len(rules'[index'].channels)
    BY <1>1, <1>3, <2>1
  <2> QED  BY <1>1, <1>3, <2>1, <2>2, <2>3, <2>4, <2>5
<1>11. CASE Send
  <2>1. index \in 1 .. Len(rules) /\ channel \in 1 .. Len(rules[index].channels)
    BY <1>11 DEF Send
  <2>2. /\ now' = now /\ asOf' = asOf /\ slot' = slot /\ upSince' = upSince /\ shaken' = shaken
        /\ lastFired' = lastFired /\ fired' = fired
    BY <1>11 DEF Send
  <2>3. /\ index' \in 1 .. Len(rules) + 1 /\ pc' \in {"send", "rules"}
        /\ pc' = "send" => index' = index /\ channel' \in 1 .. Len(rules[index].channels)
    BY <1>1, <1>11, <2>1 DEF Send, Dispatched
  <2> QED  BY <1>1, <1>3, <2>1, <2>2, <2>3
<1>12. CASE Finish
  BY <1>1, <1>12 DEF Finish
<1>13. ASSUME NEW c \in Channels, Outage(c) \/ Recover(c) PROVE TypeOK'
  <2>1. upSince' \in [Channels -> Ticks \cup {Never}] /\ shaken' \subseteq Channels
    BY <1>2, <1>13 DEF Outage, Recover
  <2> QED  BY <2>1, <1>13 DEF Outage, Recover
<1>14. CASE Restart
  <2>1. fired' \in [DOMAIN rules -> 0 .. asOf' \cup {Never}]
    BY <1>14 DEF Restart, Nothing
  <2>2. DOMAIN lastFired' = {}
    BY <1>14 DEF Restart
  <2> QED  BY <1>1, <1>2, <1>3, <1>14, <2>1, <2>2 DEF Restart
<1>15. CASE UNCHANGED vars
  BY <1>15 DEF vars
<1> QED
  BY <1>4, <1>5, <1>6, <1>7, <1>8, <1>9, <1>10, <1>11, <1>12, <1>13, <1>14, <1>15
     DEF Next, Run

LEMMA TypeInit == Init => RulesOK /\ TypeOK
<1> SUFFICES ASSUME Init PROVE RulesOK /\ TypeOK
  OBVIOUS
<1>1. RulesOK
  BY AlertEngineAssumption DEF Init, RulesOK
<1>2. Len(rules) \in Nat
  BY <1>1, RulesFacts
<1>3. fired \in [DOMAIN rules -> 0 .. asOf \cup {Never}]
  BY DEF Init, Nothing
<1> QED  BY <1>1, <1>2, <1>3 DEF Init, TypeOK, Ticks

\* Every variable keeps its type: no index of the evaluation leaves the rules
\* or the channels of its rule.
THEOREM TypeCorrect == Spec => []TypeOK
<1>1. RulesOK /\ TypeOK /\ [Next]_vars => (RulesOK /\ TypeOK)'
  BY SameRules, TypeStep
<1> QED  BY <1>1, TypeInit, PTL DEF Spec

-----------------------------------------------------------------------------
(* The cooldown.                                                           *)

\* lastFired knows of every dispatch of this process, and of none before it.
Remembered ==
  \A j \in DOMAIN rules :
    fired[j] # Never => rules[j].name \in DOMAIN lastFired
                        /\ lastFired[rules[j].name] >= fired[j]

LEMMA RememberedStep ==
  ASSUME RulesOK, TypeOK, Remembered, [Next]_vars
  PROVE  Remembered'
<1>1. rules' = rules
  BY SameRules
<1>2. /\ asOf \in Nat
      /\ \A j \in DOMAIN rules : fired[j] # Never => fired[j] <= asOf
  BY DEF TypeOK, Ticks
<1>3. CASE Fire
  <2> SUFFICES ASSUME NEW j \in DOMAIN rules, fired'[j] # Never
               PROVE  /\ rules[j].name \in DOMAIN lastFired'
                      /\ lastFired'[rules[j].name] >= fired'[j]
    BY <1>1 DEF Remembered
  <2>1. fired'[j] = IF j = index THEN asOf ELSE fired[j]
    BY <1>3 DEF Fire, TypeOK
  <2>2. /\ DOMAIN lastFired' = DOMAIN lastFired \cup {rules[index].name}
        /\ \A n \in DOMAIN lastFired' :
             lastFired'[n] = IF n = rules[index].name THEN asOf ELSE lastFired[n]
    BY <1>3 DEF Fire, SetLastFired
  <2>3. CASE rules[j].name = rules[index].name
    BY <1>2, <2>1, <2>2, <2>3
  <2>4. CASE rules[j].name # rules[index].name
    BY <2>1, <2>2, <2>4 DEF Remembered
  <2> QED  BY <2>3, <2>4
<1>4. CASE Restart
  <2>1. \A j \in DOMAIN rules : fired'[j] = Never
    BY <1>4 DEF Restart, Nothing
  <2> QED  BY <1>1, <2>1 DEF Remembered
<1>5. CASE UNCHANGED <<fired, lastFired>>
  BY <1>1, <1>5 DEF Remembered
<1>6. Fire \/ Restart \/ UNCHANGED <<fired, lastFired>>
  BY DEF Next, Capture, Tick, Run, Begin, Query, QueryFails, PassRule, Send, Finish, Outage,
         Recover, vars, engine, history
<1> QED  BY <1>3, <1>4, <1>5, <1>6

LEMMA CooldownStep ==
  ASSUME RulesOK, TypeOK, Remembered, [Next]_vars,
         NEW i \in DOMAIN rules, NEW j \in DOMAIN rules, rules[i].name = rules[j].name,
         fired'[i] \notin {fired[i], Never}, fired[j] # Never
  PROVE  fired'[i] - fired[j] >= Cooldown
<1>1. Fire \/ Restart \/ UNCHANGED fired
  BY DEF Next, Capture, Tick, Run, Begin, Query, QueryFails, PassRule, Send, Finish, Outage,
         Recover, vars, history
<1>2. ~Restart
  BY DEF Restart, Nothing
<1>3. Fire
  BY <1>1, <1>2
<1>4. i = index /\ fired'[i] = asOf
  BY <1>3 DEF Fire, TypeOK
<1>5. /\ rules[j].name \in DOMAIN lastFired
      /\ lastFired[rules[j].name] >= fired[j]
  BY DEF Remembered
<1>6. asOf - lastFired[rules[j].name] >= Cooldown
  BY <1>3, <1>4, <1>5 DEF Fire, Fires, ShouldFire
<1>7. /\ asOf \in Nat /\ lastFired[rules[j].name] \in Nat /\ fired[j] \in Nat
      /\ Cooldown \in Nat
  BY <1>5, AlertEngineAssumption DEF TypeOK, Ticks
<1> QED  BY <1>4, <1>5, <1>6, <1>7

\* Any number of rules may share a name, conditions come and go, and the clock
\* runs during a dispatch: two dispatches of a name are a cooldown apart.
THEOREM CooldownCorrect == Spec => CooldownHeld
<1>1. Init => Remembered
  BY DEF Init, Remembered, Nothing
<1>2. RulesOK /\ TypeOK /\ Remembered /\ [Next]_vars => (RulesOK /\ TypeOK /\ Remembered)'
  BY SameRules, TypeStep, RememberedStep
<1>3. RulesOK /\ TypeOK /\ Remembered /\ [Next]_vars
      => [\A i, j \in DOMAIN rules :
            /\ rules[i].name = rules[j].name
            /\ fired'[i] \notin {fired[i], Never} /\ fired[j] # Never
            => fired'[i] - fired[j] >= Cooldown]_vars
  BY CooldownStep
<1> QED  BY <1>1, <1>2, <1>3, TypeInit, PTL DEF Spec, CooldownHeld

-----------------------------------------------------------------------------
(* Healthy channels.                                                       *)

\* What the history says of the step the dispatch is at.
Dispatching ==
  /\ DOMAIN told = DOMAIN rules
  /\ \A i \in DOMAIN rules : DOMAIN told[i] = DOMAIN rules[i].channels
  /\ \A c \in Channels : upSince[c] = Never => c \in shaken
  /\ pc = "send" => fired[index] = asOf

Informed == Dispatching /\ HealthyChannelTold

LEMMA DispatchingStep ==
  ASSUME RulesOK, TypeOK, Dispatching, [Next]_vars
  PROVE  Dispatching'
<1>1. rules' = rules
  BY SameRules
<1>2. /\ DOMAIN told' = DOMAIN rules
      /\ \A i \in DOMAIN rules : DOMAIN told'[i] = DOMAIN rules[i].channels
  <2>1. CASE Send
    BY <2>1 DEF Send, Dispatching
  <2>2. CASE Restart
    BY <2>2 DEF Restart, NothingTold
  <2>3. CASE UNCHANGED told
    BY <2>3 DEF Dispatching
  <2>4. Send \/ Restart \/ UNCHANGED told
    BY DEF Next, Capture, Tick, Run, Begin, Query, QueryFails, PassRule, Fire, Finish, Outage,
           Recover, vars, history
  <2> QED  BY <2>1, <2>2, <2>3, <2>4
<1>3. \A c \in Channels : upSince'[c] = Never => c \in shaken'
  <2>1. ASSUME NEW d \in Channels, Outage(d)
        PROVE  \A c \in Channels : upSince'[c] = Never => c \in shaken'
    BY <2>1 DEF Outage, Dispatching, TypeOK
  <2>2. ASSUME NEW d \in Channels, Recover(d)
        PROVE  \A c \in Channels : upSince'[c] = Never => c \in shaken'
    <3>1. now # Never
      BY DEF TypeOK, Ticks, Never
    <3> QED  BY <2>2, <3>1 DEF Recover, Dispatching, TypeOK, history
  <2>3. CASE UNCHANGED <<upSince, shaken>>
    BY <2>3 DEF Dispatching
  <2>4. \/ \E d \in Channels : Outage(d) \/ Recover(d)
        \/ UNCHANGED <<upSince, shaken>>
    BY DEF Next, Capture, Tick, Run, Begin, Query, QueryFails, PassRule, Fire, Send, Finish,
           Restart, vars, history
  <2> QED  BY <2>1, <2>2, <2>3, <2>4
<1>4. pc' = "send" => fired'[index'] = asOf'
  <2>1. CASE Fire
    <3>1. index \in DOMAIN rules
      <4>1. Len(rules) \in Nat /\ DOMAIN rules = 1 .. Len(rules)
        BY RulesFacts
      <4>2. index \in 0 .. Len(rules) + 1 /\ index # 0 /\ index <= Len(rules)
        BY <2>1 DEF Fire, Fires, TypeOK
      <4> QED  BY <4>1, <4>2
    <3> QED  BY <2>1, <3>1 DEF Fire, TypeOK
  <2>2. CASE Send
    BY <2>2 DEF Send, Dispatched, Dispatching
  <2>3. CASE pc' # "send"
    BY <2>3
  <2>4. CASE UNCHANGED <<pc, index, fired, asOf>>
    BY <2>4 DEF Dispatching
  <2>5. Fire \/ Send \/ pc' # "send" \/ UNCHANGED <<pc, index, fired, asOf>>
    BY DEF Next, Capture, Tick, Run, Begin, Query, QueryFails, PassRule, Finish, Outage,
           Recover, Restart, vars, engine, history
  <2> QED  BY <2>1, <2>2, <2>3, <2>4, <2>5
<1> QED  BY <1>1, <1>2, <1>3, <1>4 DEF Dispatching

\* The channel at hand is told or has failed, and the ones before it were seen
\* to already.
LEMMA SendInforms ==
  ASSUME RulesOK, TypeOK, Informed, Send
  PROVE  HealthyChannelTold'
<1>1. rules' = rules /\ shaken' = shaken /\ fired' = fired /\ index \in DOMAIN rules
      /\ channel \in DOMAIN rules[index].channels
  BY RulesFacts DEF Send, TypeOK
<1> SUFFICES ASSUME NEW i \in DOMAIN rules, NEW c \in DOMAIN rules[i].channels,
                    rules[i].channels[c] \notin shaken
             PROVE  \/ told'[i][c] = fired[i]
                    \/ pc' = "send" /\ index' = i /\ channel' <= c
  BY <1>1 DEF HealthyChannelTold
<1>2. told[i][c] = fired[i] \/ (pc = "send" /\ index = i /\ channel <= c)
  BY DEF Informed, HealthyChannelTold
<1>3. CASE i = index /\ c = channel
  <2>1. upSince[rules[index].channels[channel]] # Never
    BY <1>1, <1>3, RulesFacts DEF Informed, Dispatching
  <2>2. told'[i][c] = asOf
    BY <1>1, <1>3, <2>1 DEF Send, Informed, Dispatching
  <2> QED  BY <1>3, <2>2 DEF Send, Informed, Dispatching
<1>4. CASE ~(i = index /\ c = channel)
  <2>1. told'[i][c] = told[i][c]
    BY <1>1, <1>4 DEF Send, Informed, Dispatching
  <2>2. CASE told[i][c] = fired[i]
    BY <2>1, <2>2
  <2>3. CASE index = i /\ channel <= c
    <3>1. /\ c \in 1 .. Len(rules[index].channels)
          /\ channel \in 1 .. Len(rules[index].channels)
          /\ Len(rules[index].channels) \in Nat
      BY <1>1, <2>3, RulesFacts
    <3>2. channel < c
      BY <1>4, <2>3, <3>1
    <3>3. channel < Len(rules[index].channels) /\ channel + 1 <= c
      BY <3>1, <3>2
    <3> QED  BY <2>3, <3>3 DEF Send, Dispatched
  <2> QED  BY <1>2, <2>2, <2>3
<1> QED  BY <1>3, <1>4

LEMMA InformedStep ==
  ASSUME RulesOK, TypeOK, Informed, [Next]_vars
  PROVE  Informed'
<1>1. rules' = rules
  BY SameRules
<1>2. Dispatching'
  BY DispatchingStep DEF Informed
<1>3. CASE Send
  BY <1>2, <1>3, SendInforms DEF Informed
<1>4. CASE Fire
  <2>1. pc = "rules" /\ pc' = "send" /\ index' = index /\ channel' = 1 /\ told' = told
        /\ shaken' = shaken
    BY <1>4 DEF Fire, Fires
  <2>2. \A i \in DOMAIN rules : i # index => fired'[i] = fired[i]
    BY <1>4 DEF Fire, TypeOK
  <2>3. \A i \in DOMAIN rules : \A c \in DOMAIN rules[i].channels : 1 <= c
    BY RulesFacts
  <2>4. HealthyChannelTold'
    BY <1>1, <2>1, <2>2, <2>3 DEF Informed, HealthyChannelTold
  <2> QED  BY <1>2, <2>4 DEF Informed
<1>5. CASE Restart
  <2>1. \A i \in DOMAIN rules : \A c \in DOMAIN rules[i].channels : told'[i][c] = fired'[i]
    BY <1>5 DEF Restart, Nothing, NothingTold
  <2>2. HealthyChannelTold'
    BY <1>1, <2>1 DEF HealthyChannelTold
  <2> QED  BY <1>2, <2>2 DEF Informed
<1>6. CASE UNCHANGED <<told, fired>> /\ shaken \subseteq shaken'
           /\ (pc = "send" => UNCHANGED <<pc, index, channel>>)
  <2>1. HealthyChannelTold'
    BY <1>1, <1>6 DEF Informed, HealthyChannelTold
  <2> QED  BY <1>2, <2>1 DEF Informed
<1>7. \/ Send \/ Fire \/ Restart
      \/ /\ UNCHANGED <<told, fired>> /\ shaken \subseteq shaken'
         /\ pc = "send" => UNCHANGED <<pc, index, channel>>
  BY DEF Next, Capture, Tick, Run, Begin, Query, QueryFails, PassRule, Finish, Outage, Recover,
         vars, engine, history
<1> QED  BY <1>3, <1>4, <1>5, <1>6, <1>7

\* Channels fail and recover at any moment, and a dispatch goes on after one
\* that fails: the alert reaches every channel that never did.
THEOREM HealthyChannelToldCorrect == Spec => []HealthyChannelTold
<1>1. Init => Informed
  <2> SUFFICES ASSUME Init PROVE Informed
    OBVIOUS
  <2>1. DOMAIN told = DOMAIN rules
        /\ \A i \in DOMAIN rules : DOMAIN told[i] = DOMAIN rules[i].channels
    BY DEF Init, NothingTold
  <2>2. \A i \in DOMAIN rules : \A c \in DOMAIN rules[i].channels : told[i][c] = fired[i]
    BY DEF Init, Nothing, NothingTold
  <2>3. \A c \in Channels : upSince[c] # Never
    BY DEF Init, Never
  <2> QED  BY <2>1, <2>2, <2>3 DEF Informed, Dispatching, HealthyChannelTold, Init
<1>2. RulesOK /\ TypeOK /\ Informed /\ [Next]_vars => (RulesOK /\ TypeOK /\ Informed)'
  BY SameRules, TypeStep, InformedStep
<1> QED  BY <1>1, <1>2, TypeInit, PTL DEF Spec, Informed
-----------------------------------------------------------------------------
(* Conditions.                                                             *)

\* Induction over the subsets of a finite set, as a minimal counterexample.
LEMMA Smallest ==
  ASSUME NEW S, IsFiniteSet(S), NEW Bad \in SUBSET SUBSET S, Bad # {}
  PROVE  \E U \in Bad : \A V \in SUBSET U : V # U => V \notin Bad
<1>1. FiniteSubsetsOf(S) = SUBSET S
  BY FS_FiniteSubsetsOfFinite
<1>2. IsWellFoundedOn(StrictSubsetOrdering(S), SUBSET S)
  BY <1>1, FS_StrictSubsetOrderingWellFounded
<1>3. PICK U \in Bad : \A V \in Bad : <<V, U>> \notin StrictSubsetOrdering(S)
  BY <1>2, WFMin
<1> QED  BY <1>3 DEF StrictSubsetOrdering

\* A finite set of integers has a least and a greatest member.
LEMMA Extremes ==
  ASSUME NEW S \in SUBSET Int, IsFiniteSet(S), S # {}
  PROVE  /\ \E x \in S : \A y \in S : x <= y
         /\ \E x \in S : \A y \in S : y <= x
<1> DEFINE HasMin(V) == \E x \in V : \A y \in V : x <= y
           HasMax(V) == \E x \in V : \A y \in V : y <= x
           Bad == {V \in SUBSET S : V # {} /\ ~(HasMin(V) /\ HasMax(V))}
<1> SUFFICES ASSUME Bad # {} PROVE FALSE
  OBVIOUS
<1>1. PICK U \in Bad : \A V \in SUBSET U : V # U => V \notin Bad
  <2>1. Bad \in SUBSET SUBSET S
    OBVIOUS
  <2> HIDE DEF Bad
  <2> QED  BY <2>1, Smallest
<1>2. U \in SUBSET S /\ U # {} /\ ~(HasMin(U) /\ HasMax(U))
  BY <1>1
<1>3. PICK x \in U : TRUE
  BY <1>2
<1>4. PICK V : V = U \ {x}
  OBVIOUS
<1>5. V \in SUBSET U /\ V # U /\ x \in Int /\ V \in SUBSET Int
  BY <1>2, <1>3, <1>4
<1>6. V = {} \/ (HasMin(V) /\ HasMax(V))
  BY <1>1, <1>2, <1>5
<1>7. \A y \in U : y = x \/ y \in V
  BY <1>4
<1>8. CASE V = {}
  BY <1>2, <1>3, <1>5, <1>7, <1>8
<1>9. CASE HasMin(V) /\ HasMax(V)
  <2>1. PICK a \in V : \A y \in V : a <= y
    BY <1>9
  <2>2. PICK b \in V : \A y \in V : y <= b
    BY <1>9
  <2>3. a \in U /\ b \in U /\ a \in Int /\ b \in Int
    BY <1>5, <2>1, <2>2
  <2>4. HasMin(U)
    <3>1. CASE x <= a
      <4>1. \A y \in U : x <= y
        BY <1>5, <1>7, <2>1, <2>3, <3>1
      <4> QED  BY <1>3, <4>1
    <3>2. CASE ~(x <= a)
      <4>1. \A y \in U : a <= y
        BY <1>5, <1>7, <2>1, <2>3, <3>2
      <4> QED  BY <2>3, <4>1
    <3> QED  BY <3>1, <3>2
  <2>5. HasMax(U)
    <3>1. CASE b <= x
      <4>1. \A y \in U : y <= x
        BY <1>5, <1>7, <2>2, <2>3, <3>1
      <4> QED  BY <1>3, <4>1
    <3>2. CASE ~(b <= x)
      <4>1. \A y \in U : y <= b
        BY <1>5, <1>7, <2>2, <2>3, <3>2
      <4> QED  BY <2>3, <4>1
    <3> QED  BY <3>1, <3>2
  <2> QED  BY <1>2, <2>4, <2>5
<1> QED  BY <1>6, <1>8, <1>9

\* Min is the least member of a finite set.
LEMMA MinIsLeast ==
  ASSUME NEW S \in SUBSET Int, IsFiniteSet(S), S # {}
  PROVE  Min(S) \in S /\ \A y \in S : Min(S) <= y
<1>1. \E x \in S : \A y \in S : x <= y
  BY Extremes
<1> QED  BY <1>1 DEF Min

\* The latencies of a set of traces.
LEMMA Latencies ==
  ASSUME NEW ts, IsFiniteSet(ts), \A t \in ts : t.latency \in Int
  PROVE  {t.latency : t \in ts} \in SUBSET Int /\ IsFiniteSet({t.latency : t \in ts})
<1> DEFINE img == {t.latency : t \in ts}
           f == [t \in ts |-> t.latency]
<1>1. f \in Surjection(ts, img)
  BY DEF Surjection
<1>2. IsFiniteSet(img)
  <2> HIDE DEF f, img
  <2> QED  BY <1>1, FS_Surjection
<1> QED  BY <1>2

\* Some trace is the slowest.
LEMMA Slowest ==
  ASSUME NEW ts, IsFiniteSet(ts), ts # {}, \A t \in ts : t.latency \in Int
  PROVE  \E m \in ts : \A t \in ts : t.latency <= m.latency
<1> DEFINE img == {t.latency : t \in ts}
<1>1. img \in SUBSET Int /\ IsFiniteSet(img) /\ img # {}
  BY Latencies
<1>2. PICK x \in img : \A y \in img : y <= x
  <2> HIDE DEF img
  <2> QED  BY <1>1, Extremes
<1>3. PICK m \in ts : m.latency = x
  OBVIOUS
<1> QED  BY <1>2, <1>3

\* The rank of a percentile is its share of the traces, rounded up.
LEMMA RankRounds ==
  ASSUME NEW n \in Nat \ {0}, NEW pct \in 1 .. 100
  PROVE  /\ Rank(n, pct) \in 1 .. n
         /\ 100 * Rank(n, pct) >= n * pct
         /\ 100 * Rank(n, pct) < n * pct + 100
<1>1. PICK p \in Nat : p = n * pct
  OBVIOUS
<1>2. pct \in Int /\ 1 <= pct /\ pct <= 100
  OBVIOUS
<1>3. p >= n /\ p <= 100 * n
  <2>1. n * 1 <= n * pct
    BY <1>2
  <2>2. n * pct <= n * 100
    BY <1>2
  <2> QED  BY <1>1, <2>1, <2>2
<1>4. PICK q \in Int : q = (p + 99) \div 100
  BY <1>1
<1>5. 100 * q <= p + 99 /\ p + 99 < 100 * q + 100
  BY <1>4
<1>6. q \in 1 .. n
  BY <1>3, <1>5
<1> QED  BY <1>1, <1>4, <1>5, <1>6 DEF Rank

\* A percentile is at most k if as many traces as its rank are.
LEMMA PercentileMeans ==
  ASSUME NEW ts, IsFiniteSet(ts), ts # {}, \A t \in ts : t.latency \in Int,
         NEW pct \in 1 .. 100, NEW k \in Int
  PROVE  /\ Percentile(ts, pct) \in Int
         /\ (Percentile(ts, pct) <= k)
              <=> (Cardinality({t \in ts : t.latency <= k}) >= Rank(Cardinality(ts), pct))
<1> DEFINE AtMost(j) == {t \in ts : t.latency <= j}
           R == Rank(Cardinality(ts), pct)
           P == {x \in ts : Cardinality(AtMost(x.latency)) >= R}
           L == {t.latency : t \in P}
<1>1. Cardinality(ts) \in Nat \ {0}
  BY FS_EmptySet, FS_CardinalityType
<1>2. R \in 1 .. Cardinality(ts) /\ R \in Nat \ {0}
  <2>1. PICK n \in Nat \ {0} : n = Cardinality(ts)
    BY <1>1
  <2>2. Rank(n, pct) \in 1 .. n
    BY RankRounds
  <2> QED  BY <2>1, <2>2
<1>3. \A t \in ts : t.latency \in Int
  OBVIOUS
<1>4. ASSUME NEW j
      PROVE  IsFiniteSet(AtMost(j)) /\ Cardinality(AtMost(j)) \in Nat
  BY FS_Subset, FS_CardinalityType
<1>5. Percentile(ts, pct) = Min(L)
  BY DEF Percentile
<1> HIDE DEF R
<1>6. P # {}
  <2>1. PICK m \in ts : \A t \in ts : t.latency <= m.latency
    BY Slowest
  <2>2. AtMost(m.latency) = ts
    BY <2>1
  <2>3. PICK n \in Nat : n = Cardinality(ts)
    BY <1>1
  <2>4. n >= R
    BY <1>2, <2>3
  <2>5. Cardinality(AtMost(m.latency)) >= R
    <3> HIDE DEF AtMost
    <3> QED  BY <2>2, <2>3, <2>4
  <2> QED  BY <2>5
<1>7. IsFiniteSet(P) /\ \A x \in P : x.latency \in Int
  BY FS_Subset
<1>8. L \in SUBSET Int /\ IsFiniteSet(L) /\ L # {}
  <2>1. L # {}
    BY <1>6
  <2> HIDE DEF P
  <2> QED  BY <1>7, <2>1, Latencies
<1>9. Min(L) \in L /\ Min(L) \in Int /\ \A y \in L : Min(L) <= y
  <2> HIDE DEF L
  <2> QED  BY <1>8, MinIsLeast
<1>10. ASSUME Min(L) <= k PROVE Cardinality(AtMost(k)) >= R
  <2>1. PICK x \in P : x.latency = Min(L)
    BY <1>9
  <2>2. x.latency \in Int /\ x.latency <= k
    BY <1>10, <1>9, <2>1
  <2>3. AtMost(x.latency) \in SUBSET AtMost(k)
    BY <1>3, <2>2
  <2>4. Cardinality(AtMost(x.latency)) <= Cardinality(AtMost(k))
    <3> HIDE DEF AtMost, P
    <3> QED  BY <1>4, <2>3, FS_Subset
  <2>5. Cardinality(AtMost(x.latency)) >= R
    BY <2>1
  <2> HIDE DEF AtMost, P, L
  <2> QED  BY <1>2, <1>4, <2>4, <2>5
<1>11. ASSUME Cardinality(AtMost(k)) >= R PROVE Min(L) <= k
  <2>1. AtMost(k) # {}
    <3>1. Cardinality(AtMost(k)) # 0
      <4> HIDE DEF AtMost
      <4> QED  BY <1>2, <1>4, <1>11
    <3> HIDE DEF AtMost
    <3> QED  BY <1>4, <3>1, FS_EmptySet
  <2>2. PICK m \in AtMost(k) : \A t \in AtMost(k) : t.latency <= m.latency
    <3>1. \A t \in AtMost(k) : t.latency \in Int
      OBVIOUS
    <3> HIDE DEF AtMost
    <3> QED  BY <1>4, <2>1, <3>1, Slowest
  <2>3. m \in ts /\ m.latency <= k /\ m.latency \in Int
    BY <1>3
  <2>4. AtMost(k) \in SUBSET AtMost(m.latency)
    BY <2>2
  <2>5. Cardinality(AtMost(k)) <= Cardinality(AtMost(m.latency))
    <3> HIDE DEF AtMost, P
    <3> QED  BY <1>4, <2>4, FS_Subset
  <2>6. Cardinality(AtMost(m.latency)) >= R
    <3>1. PICK a \in Nat : a = Cardinality(AtMost(k))
      BY <1>4
    <3>2. PICK b \in Nat : b = Cardinality(AtMost(m.latency))
      BY <1>4
    <3>3. a >= R /\ a <= b /\ R \in Nat
      BY <1>2, <1>11, <2>5, <3>1, <3>2
    <3>4. b >= R
      BY <3>3
    <3> QED  BY <3>2, <3>4
  <2>7. m.latency \in L
    BY <2>3, <2>6
  <2> HIDE DEF AtMost, P, L
  <2> QED  BY <1>9, <2>3, <2>7
<1> HIDE DEF L, P
<1> QED  BY <1>5, <1>9, <1>10, <1>11 DEF R

\* What a query returns.
Traces == [at : Nat, latency : Int, error : BOOLEAN]

\* The condition of a rule is what it says: the share of errors above the
\* threshold, or the share of slow calls above one in a hundred.
LEMMA ConditionMeans ==
  ASSUME NEW rule \in Rules, NEW ts \in SUBSET Traces, IsFiniteSet(ts)
  PROVE  EvaluateCondition(rule, ts) <=> Meant(rule, ts)
<1> DEFINE n == Cardinality(ts)
           slow == {t \in ts : t.latency > rule.threshold}
           fast == {t \in ts : t.latency <= rule.threshold}
           errors == {t \in ts : t.error}
<1>1. rule.threshold \in Int /\ rule.kind \in {"error_rate_5m", "p99_ms"}
  BY DEF Rules
<1>2. n \in Nat /\ (n = 0 <=> ts = {})
  BY FS_CardinalityType, FS_EmptySet
<1>3. CASE rule.kind = "error_rate_5m"
  <2>1. {t \in ts : IF rule.kind = "p99_ms" THEN t.latency > rule.threshold ELSE t.error} = errors
    BY <1>3
  <2>2. ts = {} => Cardinality(errors) = 0
    BY FS_EmptySet
  <2>3. EvaluateCondition(rule, ts) <=> ts # {} /\ Cardinality(errors) * 100 > rule.threshold * n
    BY <1>3 DEF EvaluateCondition
  <2>4. Meant(rule, ts) <=> Cardinality(errors) * 100 > rule.threshold * n
    BY <1>3, <2>1 DEF Meant
  <2>5. ts = {} => ~(Cardinality(errors) * 100 > rule.threshold * n)
    <3> HIDE DEF errors, n
    <3> QED  BY <1>1, <1>2, <2>2
  <2> QED  BY <2>3, <2>4, <2>5
<1>4. CASE rule.kind = "p99_ms"
  <2>1. {t \in ts : IF rule.kind = "p99_ms" THEN t.latency > rule.threshold ELSE t.error} = slow
    BY <1>4
  <2>2. EvaluateCondition(rule, ts) <=> ts # {} /\ Percentile(ts, 99) > rule.threshold
    BY <1>4 DEF EvaluateCondition
  <2>3. Meant(rule, ts) <=> Cardinality(slow) * 100 > n
    BY <1>2, <1>4, <2>1 DEF Meant
  <2>4. CASE ts = {}
    <3>1. Cardinality(slow) = 0 /\ n = 0
      BY <2>4, FS_EmptySet
    <3> QED  BY <2>2, <2>3, <2>4, <3>1
  <2>5. CASE ts # {}
    <3>1. /\ Percentile(ts, 99) \in Int
          /\ (Percentile(ts, 99) <= rule.threshold) <=> (Cardinality(fast) >= Rank(n, 99))
      <4>1. 99 \in 1 .. 100 /\ rule.threshold \in Int /\ \A t \in ts : t.latency \in Int
        BY <1>1 DEF Traces
      <4> QED  BY <2>5, <4>1, PercentileMeans
    <3>2. /\ Rank(n, 99) \in Int
          /\ 100 * Rank(n, 99) >= n * 99 /\ 100 * Rank(n, 99) < n * 99 + 100
      <4>1. n \in Nat \ {0}
        BY <1>2, <2>5
      <4> HIDE DEF n
      <4> QED  BY <4>1, RankRounds
    <3>3. IsFiniteSet(slow) /\ IsFiniteSet(fast)
      BY FS_Subset
    <3>4. slow \cup fast = ts /\ slow \cap fast = {}
      BY <1>1 DEF Traces
    <3>5. n = Cardinality(slow) + Cardinality(fast) - 0
      <4> HIDE DEF slow, fast
      <4> QED  BY <3>3, <3>4, FS_Union, FS_EmptySet
    <3>6. Cardinality(slow) \in Nat /\ Cardinality(fast) \in Nat
      BY <3>3, FS_CardinalityType
    <3>7. (Cardinality(fast) >= Rank(n, 99)) <=> ~(Cardinality(slow) * 100 > n)
      <4> HIDE DEF slow, fast, n
      <4> QED  BY <1>2, <3>2, <3>5, <3>6
    <3> HIDE DEF slow, fast, n
    <3> QED  BY <1>1, <2>2, <2>3, <2>5, <3>1, <3>7
  <2> QED  BY <2>4, <2>5
<1> QED  BY <1>1, <1>3, <1>4

-----------------------------------------------------------------------------
(* Alerts that last.                                                       *)

\* The engine looks at finitely many traces.
TracesOK ==
  /\ traces \in SUBSET Traces /\ IsFiniteSet(traces)
  /\ seen \in SUBSET Traces /\ IsFiniteSet(seen)

\* An evaluation begins as soon as a tick waits, reads the traces at the time
\* it took as its own, and is over within the lag.
Timely ==
  /\ now <= asOf + Lag
  /\ ~slot => now = asOf
  /\ pc = "query" => now = asOf

\* A condition that is steady holds now, and held in what the evaluation saw if
\* it is older than the evaluation.
Lasting ==
  /\ steady \in [DOMAIN rules -> Int]
  /\ \A i \in DOMAIN rules :
       /\ steady[i] # Never => Meant(rules[i], Recent(traces, now))
       /\ pc \in {"rules", "send"} /\ steady[i] # Never /\ steady[i] < asOf =>
            Meant(rules[i], seen)

\* The cooldown of a name that only one rule has is that of the rule.
Sole ==
  \A i \in DOMAIN rules :
    Alone(i) /\ rules[i].name \in DOMAIN lastFired =>
      fired[i] # Never /\ lastFired[rules[i].name] = fired[i]

\* The message of rule i to its channel c is still to be sent.
Pending(i, c) == pc = "send" /\ index = i /\ channel <= c

\* A channel that worked before the last alert and still does was told of it.
ToldLast ==
  \A i \in DOMAIN rules : \A c \in DOMAIN rules[i].channels :
    LET up == upSince[rules[i].channels[c]] IN
    /\ told[i][c] \in Int
    /\ fired[i] # Never /\ up # Never /\ up < fired[i] =>
         told[i][c] = fired[i] \/ Pending(i, c)

\* The evaluation has not yet dealt with channel c of rule i.
Ahead(i, c) ==
  \/ pc = "query"
  \/ pc = "rules" /\ index <= i
  \/ pc = "send" /\ index < i
  \/ Pending(i, c)

\* If condition and channel are old enough, the channel was told at most lag
\* and a cooldown before the evaluation.
HeardBy(i, c, lag) ==
  LET up == upSince[rules[i].channels[c]] IN
  /\ steady[i] # Never /\ steady[i] < asOf - lag
  /\ up # Never /\ up < asOf - lag - Cooldown + 1
  => told[i][c] # Never /\ asOf - told[i][c] < lag + Cooldown

\* What the evaluation before this one did is older by at most Lag.
Heard(i, c) ==
  /\ Ahead(i, c) => HeardBy(i, c, Lag)
  /\ ~Ahead(i, c) => HeardBy(i, c, 0)
AllHeard == \A i \in DOMAIN rules : Alone(i) => \A c \in DOMAIN rules[i].channels : Heard(i, c)

LEMMA Clocks ==
  ASSUME RulesOK, TypeOK
  PROVE  /\ now \in Nat /\ asOf \in Nat /\ asOf <= now /\ Cooldown \in Nat \ {0}
         /\ Lag \in Nat \ {0} /\ Never \in Int /\ Never < 0
         /\ index \in Nat /\ Len(rules) \in Nat
  BY RulesFacts DEF TypeOK, Ticks, Never

LEMMA TracesStep ==
  ASSUME RulesOK, TypeOK, TracesOK, [Next]_vars
  PROVE  TracesOK'
<1>1. now \in Nat
  BY Clocks
<1>2. \A t : Recent(traces, t) \in SUBSET Traces /\ IsFiniteSet(Recent(traces, t))
  BY FS_Subset DEF TracesOK, Recent
<1>3. ASSUME NEW s \in Samples, Capture(s) PROVE TracesOK'
  <2> DEFINE new == [at |-> now, latency |-> s.latency, error |-> s.error]
  <2>1. s \in [latency : Int, error : BOOLEAN]
    OBVIOUS
  <2>2. new \in Traces
    BY <1>1, <2>1 DEF Traces
  <2>3. PICK kept \in SUBSET traces : traces' = kept \cup {new} /\ seen' = seen
    BY <1>3 DEF Capture, engine
  <2>4. IsFiniteSet(kept) /\ kept \in SUBSET Traces
    BY FS_Subset DEF TracesOK
  <2> HIDE DEF new
  <2> QED  BY <2>2, <2>3, <2>4, FS_AddElement DEF TracesOK
<1>4. CASE Tick
  BY <1>2, <1>4 DEF Tick, TracesOK
<1>5. CASE Query
  BY <1>2, <1>5 DEF Query, TracesOK
<1>6. CASE traces' = traces /\ seen' \in {seen, {}}
  BY <1>6, FS_EmptySet DEF TracesOK
<1>7. \/ (\E s \in Samples : Capture(s)) \/ Tick \/ Query
      \/ traces' = traces /\ seen' \in {seen, {}}
  BY DEF Next, Run, Begin, QueryFails, PassRule, Fire, Send, Finish, Outage, Recover, Restart,
         vars, engine
<1> QED  BY <1>3, <1>4, <1>5, <1>6, <1>7

LEMMA TimelyStep ==
  ASSUME RulesOK, TypeOK, Timely, [Next]_vars
  PROVE  Timely'
<1>1. now \in Nat /\ asOf \in Nat /\ Lag \in Nat \ {0}
  BY Clocks
<1>2. CASE Tick
  BY <1>1, <1>2 DEF Tick, Timely
<1>3. CASE Begin \/ Restart
  BY <1>1, <1>3 DEF Begin, Restart, Timely
<1>4. CASE UNCHANGED <<now, asOf, slot>> /\ (pc' = pc \/ pc' # "query")
  BY <1>4 DEF Timely
<1>5. Tick \/ Begin \/ Restart \/ (UNCHANGED <<now, asOf, slot>> /\ (pc' = pc \/ pc' # "query"))
  BY DEF Next, Run, Capture, Query, QueryFails, PassRule, Fire, Send, Dispatched, Finish, Outage,
         Recover, vars, engine
<1> QED  BY <1>2, <1>3, <1>4, <1>5

\* A condition becomes steady at the moment of a step, and only then.
LEMMA SteadyStep ==
  ASSUME NEW ts, NEW t, NEW i \in DOMAIN rules, Steady(ts, t)
  PROVE  /\ steady'[i] \in {Never, steady[i], t}
         /\ steady'[i] # Never => Meant(rules[i], Recent(ts, t))
  BY DEF Steady

\* The steps after which a condition may be steady that was not.
LEMMA SteadyMoves ==
  ASSUME RulesOK, TypeOK, Lasting, [Next]_vars, NEW i \in DOMAIN rules
  PROVE  \/ steady'[i] = steady[i]
         \/ steady'[i] = Never
         \/ steady'[i] = now' /\ now' >= asOf /\ asOf' = asOf
<1>1. now \in Nat /\ asOf \in Nat /\ asOf <= now
  BY Clocks
<1>2. ASSUME NEW s \in Samples, Capture(s) PROVE steady'[i] \in {Never, steady[i], now}
             /\ now' = now /\ asOf' = asOf
  <2>1. Steady(traces', now)
    BY <1>2 DEF Capture
  <2> QED  BY <1>2, <2>1, SteadyStep DEF Capture, engine
<1>3. ASSUME Tick PROVE steady'[i] \in {Never, steady[i], now'} /\ now' = now + 1 /\ asOf' = asOf
  <2>1. Steady(traces', now')
    BY <1>3 DEF Tick
  <2>2. steady'[i] \in {Never, steady[i], now'}
    BY <2>1 DEF Steady
  <2> QED  BY <1>3, <2>2 DEF Tick
<1>4. CASE QueryFails \/ Restart
  BY <1>4 DEF QueryFails, Restart, Nothing
<1>5. \/ \E s \in Samples : Capture(s)
      \/ Tick \/ QueryFails \/ Restart \/ steady' = steady
  BY DEF Next, Run, Begin, Query, PassRule, Fire, Send, Finish, Outage, Recover, vars
<1> QED  BY <1>1, <1>2, <1>3, <1>4, <1>5

LEMMA LastingStep ==
  ASSUME RulesOK, TypeOK, Timely, Lasting, [Next]_vars
  PROVE  Lasting'
<1>1. now \in Nat /\ asOf \in Nat /\ asOf <= now /\ Never \in Int
  BY Clocks
<1>2. rules' = rules
  BY SameRules
<1>3. steady' \in [DOMAIN rules -> Int]
  <2>1. ASSUME NEW ts, NEW t \in Int, Steady(ts, t) PROVE steady' \in [DOMAIN rules -> Int]
    BY <1>1, <2>1 DEF Steady, Lasting
  <2>2. ASSUME NEW s \in Samples, Capture(s) PROVE Steady(traces', now)
    BY <2>2 DEF Capture
  <2>3. CASE Tick
    <3>1. Steady(traces', now + 1)
      BY <2>3 DEF Tick, Steady
    <3> QED  BY <1>1, <2>1, <3>1
  <2>4. CASE QueryFails \/ Restart
    BY <1>1, <2>4 DEF QueryFails, Restart, Nothing
  <2>5. \/ \E s \in Samples : Capture(s)
        \/ Tick \/ QueryFails \/ Restart \/ steady' = steady
    BY DEF Next, Run, Begin, Query, PassRule, Fire, Send, Finish, Outage, Recover, vars
  <2> QED  BY <1>1, <2>1, <2>2, <2>3, <2>4, <2>5 DEF Lasting
<1> SUFFICES ASSUME NEW i \in DOMAIN rules
             PROVE  /\ steady'[i] # Never => Meant(rules[i], Recent(traces', now'))
                    /\ pc' \in {"rules", "send"} /\ steady'[i] # Never /\ steady'[i] < asOf' =>
                         Meant(rules[i], seen')
  BY <1>2, <1>3 DEF Lasting
<1>4. /\ steady[i] # Never => Meant(rules[i], Recent(traces, now))
      /\ pc \in {"rules", "send"} /\ steady[i] # Never /\ steady[i] < asOf
         => Meant(rules[i], seen)
  BY DEF Lasting
<1>5. ASSUME NEW s \in Samples, Capture(s)
      PROVE  steady'[i] # Never => Meant(rules[i], Recent(traces', now'))
  <2>1. Steady(traces', now) /\ now' = now
    BY <1>5 DEF Capture
  <2> QED  BY <2>1 DEF Steady
<1>6. ASSUME Tick
      PROVE  steady'[i] # Never => Meant(rules[i], Recent(traces', now'))
  <2>1. Steady(traces', now')
    BY <1>6 DEF Tick
  <2> QED  BY <2>1 DEF Steady
<1>7. ASSUME (\E s \in Samples : Capture(s)) \/ Tick
      PROVE  pc' = pc /\ seen' = seen /\ asOf' = asOf /\ now' \in Nat /\ now' >= asOf
  BY <1>1, <1>7 DEF Capture, Tick, engine
<1>8. CASE (\E s \in Samples : Capture(s)) \/ Tick
  <2>1. steady'[i] # Never /\ steady'[i] < asOf' => steady'[i] = steady[i]
    BY <1>1, <1>7, <1>8, SteadyMoves
  <2> QED  BY <1>4, <1>5, <1>6, <1>7, <1>8, <2>1
<1>9. CASE Query
  <2>1. seen' = Recent(traces, now)
    BY <1>9 DEF Query, Timely
  <2> QED  BY <1>4, <1>9, <2>1 DEF Query
<1>10. CASE QueryFails \/ Restart
  BY <1>10 DEF QueryFails, Restart, Nothing
<1>11. CASE /\ UNCHANGED <<now, traces, steady>>
            /\ pc' \in {"rules", "send"} => pc \in {"rules", "send"} /\ UNCHANGED <<seen, asOf>>
  BY <1>4, <1>11
<1>12. \/ \E s \in Samples : Capture(s)
       \/ Tick \/ Query \/ QueryFails \/ Restart
       \/ /\ UNCHANGED <<now, traces, steady>>
          /\ pc' \in {"rules", "send"} => pc \in {"rules", "send"} /\ UNCHANGED <<seen, asOf>>
  BY DEF Next, Run, Begin, PassRule, Fire, Fires, Send, Finish, Outage, Recover, vars, engine
<1> QED  BY <1>8, <1>9, <1>10, <1>11, <1>12

LEMMA SoleStep ==
  ASSUME RulesOK, TypeOK, Sole, [Next]_vars
  PROVE  Sole'
<1>1. rules' = rules
  BY SameRules
<1> SUFFICES ASSUME NEW i \in DOMAIN rules, Alone(i), rules[i].name \in DOMAIN lastFired'
             PROVE  fired'[i] # Never /\ lastFired'[rules[i].name] = fired'[i]
  BY <1>1 DEF Sole, Alone
<1>2. CASE Fire
  <2>1. index \in DOMAIN rules
    <3>1. Len(rules) \in Nat /\ DOMAIN rules = 1 .. Len(rules)
      BY RulesFacts
    <3> QED  BY <1>2, <3>1 DEF Fire, Fires, TypeOK
  <2>2. fired'[i] = IF i = index THEN asOf ELSE fired[i]
    BY <1>2 DEF Fire, TypeOK
  <2>3. /\ DOMAIN lastFired' = DOMAIN lastFired \cup {rules[index].name}
        /\ \A n \in DOMAIN lastFired' :
             lastFired'[n] = IF n = rules[index].name THEN asOf ELSE lastFired[n]
    BY <1>2 DEF Fire, SetLastFired
  <2>4. rules[index].name = rules[i].name => index = i
    BY <2>1 DEF Alone
  <2>5. asOf # Never
    BY Clocks
  <2> QED  BY <2>2, <2>3, <2>4, <2>5 DEF Sole
<1>3. CASE Restart
  BY <1>3 DEF Restart
<1>4. CASE UNCHANGED <<fired, lastFired>>
  BY <1>4 DEF Sole
<1>5. Fire \/ Restart \/ UNCHANGED <<fired, lastFired>>
  BY DEF Next, Capture, Tick, Run, Begin, Query, QueryFails, PassRule, Send, Finish, Outage,
         Recover, vars, engine, history
<1> QED  BY <1>2, <1>3, <1>4, <1>5

\* A channel works longer or fails, or begins to work now.
LEMMA UpMoves ==
  ASSUME RulesOK, TypeOK, [Next]_vars, NEW d \in Channels
  PROVE  \/ upSince'[d] = upSince[d]
         \/ upSince'[d] = Never
         \/ upSince'[d] = now /\ UNCHANGED <<told, fired, steady, pc, index, channel, asOf>>
<1>1. ASSUME NEW e \in Channels, Outage(e) PROVE upSince'[d] \in {upSince[d], Never}
  BY <1>1 DEF Outage, TypeOK
<1>2. ASSUME NEW e \in Channels, Recover(e)
      PROVE  /\ upSince'[d] \in {upSince[d], now}
             /\ UNCHANGED <<told, fired, steady, pc, index, channel, asOf>>
  BY <1>2 DEF Recover, TypeOK, engine, history
<1>3. (\E e \in Channels : Outage(e) \/ Recover(e)) \/ upSince' = upSince
  BY DEF Next, Run, Capture, Tick, Begin, Query, QueryFails, PassRule, Fire, Send, Finish,
         Restart, vars
<1> QED  BY <1>1, <1>2, <1>3

\* One message is sent or fails, and the others keep what they were told.
LEMMA SendTells ==
  ASSUME RulesOK, TypeOK, Dispatching, Send,
         NEW i \in DOMAIN rules, NEW c \in DOMAIN rules[i].channels
  PROVE  /\ i = index /\ c = channel /\ upSince[rules[i].channels[c]] # Never
            => told'[i][c] = asOf
         /\ ~(i = index /\ c = channel) => told'[i][c] = told[i][c]
         /\ told'[i][c] \in {told[i][c], asOf}
<1>1. index \in DOMAIN rules /\ channel \in DOMAIN rules[index].channels
  BY RulesFacts DEF Send, TypeOK
<1>2. index \in DOMAIN told /\ channel \in DOMAIN told[index]
      /\ i \in DOMAIN told /\ c \in DOMAIN told[i]
  BY <1>1 DEF Dispatching
<1>3. CASE upSince[rules[index].channels[channel]] = Never
  <2>1. told' = told
    BY <1>3 DEF Send
  <2> QED  BY <1>3, <2>1
<1>4. CASE upSince[rules[index].channels[channel]] # Never
  <2>1. told' = [told EXCEPT ![index][channel] = asOf]
    BY <1>4 DEF Send
  <2> QED  BY <1>2, <2>1
<1> QED  BY <1>3, <1>4

\* What Send leaves ahead of it.
LEMMA SendPasses ==
  ASSUME RulesOK, TypeOK, Send, NEW i \in DOMAIN rules, NEW c \in DOMAIN rules[i].channels
  PROVE  /\ Pending(i, c)' <=> Pending(i, c) /\ c # channel
         /\ Ahead(i, c)' <=> Ahead(i, c) /\ ~(i = index /\ c = channel)
<1>1. /\ DOMAIN rules = 1 .. Len(rules) /\ Len(rules) \in Nat /\ i \in Nat /\ index \in Nat
      /\ pc = "send" /\ index \in DOMAIN rules
      /\ channel \in 1 .. Len(rules[index].channels) /\ Len(rules[index].channels) \in Nat
      /\ DOMAIN rules[i].channels = 1 .. Len(rules[i].channels) /\ Len(rules[i].channels) \in Nat
  BY RulesFacts, Clocks DEF Send, TypeOK
<1>2. c \in Nat /\ channel \in Nat
  BY <1>1
<1>3. CASE channel < Len(rules[index].channels)
  <2>1. pc' = "send" /\ channel' = channel + 1 /\ index' = index
    BY <1>1, <1>3 DEF Send, Dispatched
  <2> QED  BY <1>1, <1>2, <2>1 DEF Pending, Ahead
<1>4. CASE ~(channel < Len(rules[index].channels))
  <2>1. pc' = "rules" /\ channel' = 0 /\ index' = index + 1
    BY <1>1, <1>4 DEF Send, Dispatched
  <2>2. channel = Len(rules[index].channels)
    BY <1>1, <1>2, <1>4
  <2>3. Pending(i, c) => c = channel
    BY <1>1, <1>2, <2>2 DEF Pending
  <2> QED  BY <1>1, <1>2, <2>1, <2>3 DEF Pending, Ahead
<1> QED  BY <1>3, <1>4

LEMMA ToldLastStep ==
  ASSUME RulesOK, TypeOK, Dispatching, ToldLast, [Next]_vars
  PROVE  ToldLast'
<1>1. rules' = rules
  BY SameRules
<1>2. now \in Nat /\ asOf \in Nat /\ asOf <= now /\ Never \in Int
  BY Clocks
<1> SUFFICES ASSUME NEW i \in DOMAIN rules, NEW c \in DOMAIN rules[i].channels
             PROVE  /\ told'[i][c] \in Int
                    /\ LET up == upSince'[rules[i].channels[c]] IN
                       fired'[i] # Never /\ up # Never /\ up < fired'[i] =>
                         told'[i][c] = fired'[i] \/ Pending(i, c)'
  BY <1>1 DEF ToldLast
<1> DEFINE up == upSince[rules[i].channels[c]]
<1>3. /\ told[i][c] \in Int
      /\ fired[i] # Never /\ up # Never /\ up < fired[i] => told[i][c] = fired[i] \/ Pending(i, c)
  BY DEF ToldLast
<1>4. rules[i].channels[c] \in Channels
  BY RulesFacts
<1>5. fired[i] \in Int /\ (fired[i] # Never => fired[i] <= asOf)
  BY <1>2 DEF TypeOK
<1>6. CASE Send
  <2>1. fired' = fired /\ upSince' = upSince
    BY <1>6 DEF Send
  <2>2. told'[i][c] \in Int
    BY <1>2, <1>3, <1>6, SendTells
  <2>3. Pending(i, c)' <=> Pending(i, c) /\ c # channel
    BY <1>6, SendPasses
  <2>4. CASE i = index /\ c = channel
    <3>1. up # Never => told'[i][c] = fired[i]
      BY <1>6, <2>4, SendTells DEF Send, Dispatching
    <3> QED  BY <2>1, <2>2, <3>1
  <2>5. CASE ~(i = index /\ c = channel)
    <3>1. told'[i][c] = told[i][c]
      BY <1>6, <2>5, SendTells
    <3>2. Pending(i, c) => Pending(i, c)'
      BY <2>3, <2>5 DEF Pending
    <3> QED  BY <1>3, <2>1, <2>2, <3>1, <3>2
  <2> QED  BY <2>4, <2>5
<1>7. CASE Fire
  <2>1. pc = "rules" /\ pc' = "send" /\ index' = index /\ channel' = 1 /\ told' = told
        /\ upSince' = upSince
    BY <1>7 DEF Fire, Fires
  <2>2. i # index => fired'[i] = fired[i]
    BY <1>7 DEF Fire, TypeOK
  <2>3. 1 <= c
    BY RulesFacts
  <2> QED  BY <1>3, <2>1, <2>2, <2>3 DEF Pending
<1>8. CASE Restart
  <2>1. told'[i][c] = Never /\ fired'[i] = Never
    BY <1>8 DEF Restart, Nothing, NothingTold
  <2> QED  BY <1>2, <2>1
<1>9. CASE UNCHANGED <<told, fired>> /\ (pc = "send" => UNCHANGED <<pc, index, channel>>)
  <2>1. Pending(i, c) => Pending(i, c)'
    BY <1>9 DEF Pending
  <2>2. \/ upSince'[rules[i].channels[c]] = up
        \/ upSince'[rules[i].channels[c]] = Never
        \/ upSince'[rules[i].channels[c]] = now
    BY <1>4, UpMoves
  <2>3. fired[i] # Never => ~(now < fired[i])
    BY <1>2, <1>5
  <2> HIDE DEF up
  <2> QED  BY <1>3, <1>9, <2>1, <2>2, <2>3
<1>10. \/ Send \/ Fire \/ Restart
       \/ UNCHANGED <<told, fired>> /\ (pc = "send" => UNCHANGED <<pc, index, channel>>)
  BY DEF Next, Capture, Tick, Run, Begin, Query, QueryFails, PassRule, Finish, Outage, Recover,
         vars, engine, history
<1> QED  BY <1>6, <1>7, <1>8, <1>9, <1>10

\* What was heard of an alert is still heard after a step that neither begins
\* an evaluation nor sends to the channel: a condition or a channel that the
\* step renews is younger than the evaluation.
LEMMA HeardKept ==
  ASSUME RulesOK, TypeOK, Lasting, NEW i \in DOMAIN rules, NEW c \in DOMAIN rules[i].channels,
         NEW lag \in Nat, HeardBy(i, c, lag), rules' = rules, asOf' = asOf,
         told'[i][c] = told[i][c],
         \/ steady'[i] \in {Never, steady[i]}
         \/ steady'[i] \in Nat /\ steady'[i] >= asOf,
         \/ upSince'[rules[i].channels[c]] \in {Never, upSince[rules[i].channels[c]]}
         \/ upSince'[rules[i].channels[c]] \in Nat /\ upSince'[rules[i].channels[c]] >= asOf
  PROVE  HeardBy(i, c, lag)'
<1>1. asOf \in Nat /\ Cooldown \in Nat \ {0}
  BY Clocks
<1>2. steady'[i] # Never /\ steady'[i] < asOf - lag => steady'[i] = steady[i]
  BY <1>1
<1>3. upSince'[rules[i].channels[c]] # Never
      /\ upSince'[rules[i].channels[c]] < asOf - lag - Cooldown + 1
      => upSince'[rules[i].channels[c]] = upSince[rules[i].channels[c]]
  BY <1>1
<1> QED  BY <1>2, <1>3 DEF HeardBy

LEMMA HeardStep ==
  ASSUME RulesOK, TypeOK, TracesOK, Dispatching, Timely, Lasting, Sole, ToldLast, AllHeard,
         [Next]_vars, NEW i \in DOMAIN rules, Alone(i), NEW c \in DOMAIN rules[i].channels
  PROVE  Heard(i, c)'
<1> DEFINE d == rules[i].channels[c]
<1>1. /\ now \in Nat /\ asOf \in Nat /\ asOf <= now /\ now <= asOf + Lag
      /\ Cooldown \in Nat \ {0} /\ Lag \in Nat \ {0} /\ Never \in Int
      /\ index \in Nat /\ i \in Nat /\ i >= 1 /\ i <= Len(rules) /\ Len(rules) \in Nat
      /\ c \in Nat /\ c >= 1 /\ d \in Channels
  BY Clocks, RulesFacts DEF Timely
<1>2. /\ rules' = rules /\ d' = d
      /\ steady[i] \in Int /\ told[i][c] \in Int /\ upSince[d] \in Int
  BY <1>1, SameRules DEF Lasting, ToldLast, TypeOK, Ticks
<1>3. /\ Ahead(i, c) => HeardBy(i, c, Lag)
      /\ ~Ahead(i, c) => HeardBy(i, c, 0)
  BY DEF AllHeard, Heard
<1>4. ASSUME asOf' = asOf, told'[i][c] = told[i][c], Ahead(i, c)' <=> Ahead(i, c)
      PROVE  Heard(i, c)'
  <2>1. \/ steady'[i] \in {Never, steady[i]}
        \/ steady'[i] \in Nat /\ steady'[i] >= asOf
    <3>1. now' \in Nat
      BY TypeStep, <1>2, SameRules, Clocks DEF TypeOK, Ticks
    <3> QED  BY <3>1, SteadyMoves
  <2>2. \/ upSince'[d] \in {Never, upSince[d]}
        \/ upSince'[d] \in Nat /\ upSince'[d] >= asOf
    BY <1>1, UpMoves
  <2>3. ASSUME NEW lag \in Nat, HeardBy(i, c, lag) PROVE HeardBy(i, c, lag)'
    BY <1>2, <1>4, <2>1, <2>2, <2>3, HeardKept
  <2>4. Lag \in Nat /\ 0 \in Nat
    BY <1>1
  <2>5. /\ HeardBy(i, c, Lag) => HeardBy(i, c, Lag)'
        /\ HeardBy(i, c, 0) => HeardBy(i, c, 0)'
    BY <2>3, <2>4
  <2> QED  BY <1>3, <1>4, <2>5 DEF Heard
<1>5. CASE Begin
  <2>1. /\ asOf' = now /\ told' = told /\ steady' = steady /\ upSince' = upSince
        /\ pc = "idle" /\ pc' = "query"
    BY <1>5 DEF Begin, history
  <2>2. ~Ahead(i, c) /\ Ahead(i, c)'
    BY <2>1 DEF Ahead, Pending
  <2>3. HeardBy(i, c, 0)
    BY <1>3, <2>2
  <2>4. HeardBy(i, c, Lag)'
    <3> SUFFICES ASSUME steady[i] # Never, steady[i] < now - Lag,
                        upSince[d] # Never, upSince[d] < now - Lag - Cooldown + 1
                 PROVE  told[i][c] # Never /\ now - told[i][c] < Lag + Cooldown
      BY <1>2, <2>1 DEF HeardBy
    <3>1. steady[i] < asOf - 0 /\ upSince[d] < asOf - 0 - Cooldown + 1
      BY <1>1, <1>2
    <3>2. told[i][c] # Never /\ asOf - told[i][c] < 0 + Cooldown
      BY <2>3, <3>1 DEF HeardBy
    <3> QED  BY <1>1, <1>2, <3>2
  <2> QED  BY <2>2, <2>4 DEF Heard
<1>6. CASE PassRule
  <2>1. /\ pc = "rules" /\ pc' = "rules" /\ index' = index + 1
        /\ UNCHANGED <<asOf, told, steady, upSince>>
        /\ index <= Len(rules) /\ ~Fires
    BY <1>6 DEF PassRule, history
  <2>2. CASE index # i
    <3>1. Ahead(i, c)' <=> Ahead(i, c)
      BY <1>1, <2>1, <2>2 DEF Ahead, Pending
    <3> QED  BY <1>4, <2>1, <3>1
  <2>3. CASE index = i
    <3>1. ~Ahead(i, c)'
      BY <1>1, <2>1, <2>3 DEF Ahead, Pending
    <3>2. HeardBy(i, c, 0)'
      <4> SUFFICES ASSUME steady[i] # Never, steady[i] < asOf - 0,
                          upSince[d] # Never, upSince[d] < asOf - 0 - Cooldown + 1
                   PROVE  told[i][c] # Never /\ asOf - told[i][c] < 0 + Cooldown
        BY <1>2, <2>1 DEF HeardBy
      <4>1. Meant(rules[i], seen)
        BY <1>1, <1>2, <2>1 DEF Lasting
      <4>2. EvaluateCondition(rules[i], seen)
        <5>1. rules[i] \in Rules
          BY RulesFacts DEF RulesOK
        <5> QED  BY <4>1, <5>1, ConditionMeans DEF TracesOK
      <4>3. ~ShouldFire(rules[i].name)
        BY <2>1, <2>3, <4>2 DEF Fires
      <4>4. fired[i] # Never /\ ~(asOf - fired[i] >= Cooldown)
        BY <4>3 DEF ShouldFire, Sole
      <4>5. fired[i] \in Int
        BY <1>1 DEF TypeOK
      <4>6. told[i][c] = fired[i]
        <5>1. upSince[d] < fired[i]
          BY <1>1, <1>2, <4>4, <4>5
        <5> QED  BY <2>1, <4>4, <5>1 DEF ToldLast, Pending
      <4> QED  BY <1>1, <4>4, <4>5, <4>6
    <3> QED  BY <3>1, <3>2 DEF Heard
  <2> QED  BY <2>2, <2>3
<1>7. CASE Fire
  <2>1. /\ pc = "rules" /\ pc' = "send" /\ index' = index /\ channel' = 1
        /\ UNCHANGED <<asOf, told>>
    BY <1>7 DEF Fire, Fires
  <2>2. Ahead(i, c)' <=> Ahead(i, c)
    BY <1>1, <2>1 DEF Ahead, Pending
  <2> QED  BY <1>4, <2>1, <2>2
<1>8. CASE Send
  <2>1. UNCHANGED <<asOf, steady, upSince>>
    BY <1>8 DEF Send
  <2>2. CASE i = index /\ c = channel
    <3>1. ~Ahead(i, c)'
      BY <1>8, <2>2, SendPasses
    <3>2. upSince[d] # Never => told'[i][c] = asOf
      BY <1>8, <2>2, SendTells
    <3>3. HeardBy(i, c, 0)'
      <4>1. asOf # Never /\ asOf - asOf < 0 + Cooldown
        BY <1>1, Clocks
      <4> QED  BY <1>2, <2>1, <3>2, <4>1 DEF HeardBy
    <3> QED  BY <3>1, <3>3 DEF Heard
  <2>3. CASE ~(i = index /\ c = channel)
    <3>1. (Ahead(i, c)' <=> Ahead(i, c)) /\ told'[i][c] = told[i][c]
      BY <1>8, <2>3, SendPasses, SendTells
    <3> QED  BY <1>4, <2>1, <3>1
  <2> QED  BY <2>2, <2>3
<1>9. CASE QueryFails \/ Restart
  <2>1. steady'[i] = Never
    BY <1>2, <1>9 DEF QueryFails, Restart, Nothing
  <2> QED  BY <2>1 DEF Heard, HeardBy
<1>10. CASE Query \/ Finish
  <2>1. Ahead(i, c)' <=> Ahead(i, c)
    BY <1>1, <1>10 DEF Query, Finish, Ahead, Pending
  <2> QED  BY <1>4, <1>10, <2>1 DEF Query, Finish, history
<1>11. CASE UNCHANGED <<asOf, told, pc, index, channel>>
  <2>1. Ahead(i, c)' <=> Ahead(i, c)
    BY <1>11 DEF Ahead, Pending
  <2> QED  BY <1>4, <1>11, <2>1
<1>12. \/ Begin \/ PassRule \/ Fire \/ Send \/ QueryFails \/ Restart \/ Query \/ Finish
       \/ UNCHANGED <<asOf, told, pc, index, channel>>
  BY DEF Next, Run, Capture, Tick, Outage, Recover, vars, engine, history
<1> QED  BY <1>5, <1>6, <1>7, <1>8, <1>9, <1>10, <1>11, <1>12

\* Old conditions on old channels were heard within the silence.
LEMMA HeardIsEnough ==
  RulesOK /\ TypeOK /\ Timely /\ Lasting /\ ToldLast /\ AllHeard => LastingAlertHeard
<1> SUFFICES ASSUME RulesOK, TypeOK, Timely, Lasting, ToldLast, AllHeard,
                    NEW i \in DOMAIN rules, NEW c \in 1 .. Len(rules[i].channels), Alone(i),
                    steady[i] # Never, now - steady[i] > Silence,
                    upSince[rules[i].channels[c]] # Never,
                    now - upSince[rules[i].channels[c]] > Silence
             PROVE  told[i][c] # Never /\ now - told[i][c] <= Silence
  BY DEF LastingAlertHeard
<1>1. /\ now \in Nat /\ asOf \in Nat /\ asOf <= now /\ now <= asOf + Lag
      /\ Cooldown \in Nat \ {0} /\ Lag \in Nat \ {0} /\ Never \in Int
  BY Clocks DEF Timely
<1>2. c \in DOMAIN rules[i].channels /\ rules[i].channels[c] \in Channels
  BY RulesFacts
<1>3. steady[i] \in Int /\ told[i][c] \in Int /\ upSince[rules[i].channels[c]] \in Int
  BY <1>1, <1>2 DEF Lasting, ToldLast, TypeOK, Ticks
<1>4. HeardBy(i, c, Lag) \/ HeardBy(i, c, 0)
  BY <1>2 DEF AllHeard, Heard
<1>5. PICK lag \in {0, Lag} : HeardBy(i, c, lag)
  BY <1>4
<1>6. /\ steady[i] < asOf - lag
      /\ upSince[rules[i].channels[c]] < asOf - lag - Cooldown + 1
  BY <1>1, <1>3 DEF Silence
<1>7. told[i][c] # Never /\ asOf - told[i][c] < lag + Cooldown
  BY <1>5, <1>6 DEF HeardBy
<1>8. lag \in Nat /\ lag <= Lag
  BY <1>1
<1> QED  BY <1>1, <1>3, <1>7, <1>8 DEF Silence

AlertsLast == TracesOK /\ Dispatching /\ Timely /\ Lasting /\ Sole /\ ToldLast /\ AllHeard

LEMMA AlertsLastStep ==
  ASSUME RulesOK, TypeOK, AlertsLast, [Next]_vars
  PROVE  AlertsLast'
<1>1. /\ TracesOK /\ Dispatching /\ Timely /\ Lasting /\ Sole /\ ToldLast /\ AllHeard
  BY DEF AlertsLast
<1>2. rules' = rules
  BY SameRules
<1>3. AllHeard'
  <2>1. \A i \in DOMAIN rules : Alone(i) => \A c \in DOMAIN rules[i].channels : Heard(i, c)'
    BY <1>1, HeardStep
  <2> QED  BY <1>2, <2>1 DEF AllHeard, Alone
<1> QED  BY <1>1, <1>3, TracesStep, DispatchingStep, TimelyStep, LastingStep, SoleStep,
            ToldLastStep DEF AlertsLast

LEMMA AlertsLastInit == Init => AlertsLast
<1> SUFFICES ASSUME Init PROVE AlertsLast
  OBVIOUS
<1>1. TracesOK
  BY FS_EmptySet DEF Init, TracesOK
<1>2. Dispatching
  BY DEF Init, NothingTold, Dispatching, Never
<1>3. Timely
  BY DEF Init, Timely
<1>4. Lasting /\ Sole
  BY DEF Init, Nothing, Never, Lasting, Sole
<1>5. \A i \in DOMAIN rules : \A c \in DOMAIN rules[i].channels : told[i][c] = Never
  BY DEF Init, NothingTold
<1>6. ToldLast
  BY <1>5 DEF Init, Nothing, Never, ToldLast
<1>7. AllHeard
  BY DEF Init, Nothing, AllHeard, Heard, HeardBy
<1> QED  BY <1>1, <1>2, <1>3, <1>4, <1>6, <1>7 DEF AlertsLast

\* Whatever channels fail and recover, evaluations that fail and restarts: a
\* condition that lasts on a channel that works is heard there within every
\* cooldown and the time of two evaluations.
THEOREM LastingAlertCorrect == Spec => []LastingAlertHeard
<1>1. RulesOK /\ TypeOK /\ AlertsLast /\ [Next]_vars => (RulesOK /\ TypeOK /\ AlertsLast)'
  BY SameRules, TypeStep, AlertsLastStep
<1>2. RulesOK /\ TypeOK /\ AlertsLast => LastingAlertHeard
  BY HeardIsEnough DEF AlertsLast
<1> QED  BY <1>1, <1>2, TypeInit, AlertsLastInit, PTL DEF Spec

-----------------------------------------------------------------------------
(* The built-in alerts, which share no state with the engine: Alerts.      *)

HIDE AlertEngineAssumption
USE AlertsAssumption

-----------------------------------------------------------------------------
(* Types.                                                                  *)

LEMMA TargetsFacts == Len(Targets) \in Nat /\ (Targets # <<>> => Len(Targets) >= 1)
<1> DEFINE Kinds == {"webhook", "slack", "pagerduty"}
<1>1. [i \in 1 .. Webhooks |-> "webhook"] \in Seq(Kinds)
  OBVIOUS
<1>2. [i \in 1 .. Slacks |-> "slack"] \in Seq(Kinds)
  OBVIOUS
<1>3. [i \in 1 .. PagerDuties |-> "pagerduty"] \in Seq(Kinds)
  OBVIOUS
<1>4. Targets \in Seq(Kinds)
  BY <1>1, <1>2, <1>3 DEF Targets
<1> HIDE DEF Kinds
<1> QED  BY <1>4

LEMMA StatusType ==
  ASSUME NEW rule, NEW samples
  PROVE  Status(rule, samples) \in Statuses
BY DEF Status, Statuses, Severity

Outcomes == {"sent", "failed", "skipped"}
Deliveries == [rule : RuleIds \cup {None}, previous : Statuses \cup {None}, target : Nat,
               attempt : 0 .. Retries, outcome : Outcomes \cup {None}]

\* After the list of rules was read; the clock was, too.
Timed == {"evaluate", "report", "deliver", "insert"}

\* What is true of one evaluation whatever the others do.
Evaluation(e) ==
  /\ at[e] \in 0 .. clock
  /\ DOMAIN listed[e] \subseteq RuleIds
  /\ DOMAIN verdicts[e] \subseteq DOMAIN listed[e]
  /\ \A r \in DOMAIN verdicts[e] : verdicts[e][r] \in Statuses
  /\ reported[e] \subseteq DOMAIN verdicts[e]
  /\ delivery[e] \in Deliveries
  /\ stage[e] \notin Timed => DOMAIN verdicts[e] = {}
  /\ stage[e] \in {"report", "deliver", "insert"} => DOMAIN verdicts[e] = DOMAIN listed[e]
  /\ stage[e] \in {"deliver", "insert"} =>
       /\ delivery[e].rule \in DOMAIN verdicts[e] \ reported[e]
       /\ delivery[e].previous # verdicts[e][delivery[e].rule]
  /\ stage[e] = "deliver" => delivery[e].target \in 1 .. Len(Targets) /\ delivery[e].attempt # 0
  /\ stage[e] = "insert" => delivery[e].outcome \in Outcomes

Locals == /\ stage \in [Evaluations -> Running \cup {"idle", "done", "failed"}]
          /\ DOMAIN at = Evaluations /\ DOMAIN listed = Evaluations
          /\ DOMAIN verdicts = Evaluations /\ DOMAIN reported = Evaluations
          /\ DOMAIN delivery = Evaluations

Typed ==
  /\ clock \in Nat
  /\ DOMAIN alertRules \subseteq RuleIds
  /\ \A r \in DOMAIN alertRules : alertRules[r] \in RuleForms /\ ValidRule(alertRules[r])
  /\ recent \subseteq TraceForms /\ IsFiniteSet(recent)
  /\ events \in Seq(Verdict)
  /\ Locals
  /\ \A e \in Evaluations : Evaluation(e)
  /\ received \subseteq Evaluations \X RuleIds \X (1 .. Len(Targets))

\* Steps of one evaluation.
Move(e) == BeginEvaluation(e) \/ Step(e) \/ Cancel(e)

LEMMA NextIsOneOf ==
  ASSUME [NextAlerts]_alertVars
  PROVE  \/ \E e \in Evaluations : Move(e)
         \/ \E r \in RuleIds : Delete(r) \/ \E f \in RuleForms : Upsert(r, f)
         \/ UNCHANGED alertVars
BY DEF NextAlerts, Move

\* A step of one evaluation leaves the local variables of the others alone.
LEMMA OthersKeep ==
  ASSUME Locals, NEW e \in Evaluations, Move(e)
  PROVE  /\ Locals'
         /\ \A f \in Evaluations \ {e} :
              /\ stage'[f] = stage[f] /\ at'[f] = at[f] /\ listed'[f] = listed[f]
              /\ verdicts'[f] = verdicts[f] /\ reported'[f] = reported[f]
              /\ delivery'[f] = delivery[f]
<1> USE DEF Locals, Running, own, data
<1>1. CASE BeginEvaluation(e)
  BY <1>1 DEF BeginEvaluation, Goto
<1>2. CASE ListRules(e)
  BY <1>2 DEF ListRules, Goto
<1>3. CASE EvaluateRule(e)
  <2>1. stage' \in [Evaluations -> Running \cup {"idle", "done", "failed"}]
    BY <1>3 DEF EvaluateRule
  <2> QED  BY <1>3, <2>1 DEF EvaluateRule
<1>4. CASE NothingListed(e)
  BY <1>4 DEF NothingListed, Return, Goto
<1>5. CASE ReadLatest(e)
  <2>1. stage' \in [Evaluations -> Running \cup {"idle", "done", "failed"}]
    BY <1>5 DEF ReadLatest
  <2> QED  BY <1>5, <2>1 DEF ReadLatest
<1>6. CASE AllReported(e)
  BY <1>6 DEF AllReported, Return, Goto
<1>7. CASE SendSucceeds(e)
  BY <1>7 DEF SendSucceeds, Deliver, Goto
<1>8. CASE Retry(e)
  BY <1>8 DEF Retry
<1>9. CASE NextTarget(e)
  BY <1>9 DEF NextTarget
<1>10. CASE DeliveryFails(e)
  BY <1>10 DEF DeliveryFails, Deliver, Goto
<1>11. CASE InsertAlertEvent(e)
  BY <1>11 DEF InsertAlertEvent, Goto
<1>12. CASE StoreFails(e)
  BY <1>12 DEF StoreFails, Return, Goto
<1>13. CASE Cancel(e)
  BY <1>13 DEF Cancel
<1> QED
  BY <1>1, <1>2, <1>3, <1>4, <1>5, <1>6, <1>7, <1>8, <1>9, <1>10, <1>11, <1>12, <1>13
     DEF Move, Step

LEMMA EvaluationKept ==
  ASSUME Typed, NEW f \in Evaluations, clock' \in Nat, clock <= clock',
         stage'[f] = stage[f], at'[f] = at[f], listed'[f] = listed[f],
         verdicts'[f] = verdicts[f], reported'[f] = reported[f], delivery'[f] = delivery[f]
  PROVE  Evaluation(f)'
<1>1. Evaluation(f) /\ clock \in Nat
  BY DEF Typed
<1>2. at'[f] \in 0 .. clock'
  BY <1>1 DEF Evaluation
<1> QED  BY <1>1, <1>2 DEF Evaluation

\* The rows of the table; some row of a rule is the latest.
Rows == {events[i] : i \in 1 .. Len(events)}

LEMMA RowsFacts ==
  ASSUME Typed
  PROVE  /\ Len(events) \in Nat /\ IsFiniteSet(Rows)
         /\ \A v \in Rows : /\ v.rule \in RuleIds /\ v.status \in Statuses
                            /\ v.previous \in Statuses \cup {None} /\ v.at \in Nat
                            /\ v.outcome \in Outcomes /\ v.by \in Evaluations
         /\ \A r : ListAlertEvents(r) = {v \in Rows : v.rule = r}
<1>1. Len(events) \in Nat /\ \A i \in 1 .. Len(events) : events[i] \in Verdict
  BY DEF Typed
<1>2. IsFiniteSet(Rows)
  <2> DEFINE f == [i \in 1 .. Len(events) |-> events[i]]
  <2>1. f \in Surjection(1 .. Len(events), Rows)
    BY DEF Surjection, Rows
  <2>2. IsFiniteSet(1 .. Len(events))
    BY <1>1, FS_Interval
  <2> HIDE DEF f
  <2> QED  BY <2>1, <2>2, FS_Surjection
<1>3. ASSUME NEW r PROVE ListAlertEvents(r) = {v \in Rows : v.rule = r}
  BY DEF ListAlertEvents, Rows
<1>4. \A v \in Rows : v \in Verdict
  BY <1>1 DEF Rows
<1>5. \A v \in Rows : /\ v.rule \in RuleIds /\ v.status \in Statuses
                      /\ v.previous \in Statuses \cup {None} /\ v.at \in Nat
                      /\ v.outcome \in Outcomes /\ v.by \in Evaluations
  BY <1>4 DEF Verdict, Outcomes
<1> QED  BY <1>1, <1>2, <1>3, <1>5

LEMMA LatestIs ==
  ASSUME Typed, NEW rows \in SUBSET Rows, rows # {}
  PROVE  Latest(rows) \in rows /\ \A w \in rows : w.at <= Latest(rows).at
<1> DEFINE times == {v.at : v \in rows}
           f == [v \in rows |-> v.at]
<1>1. IsFiniteSet(rows) /\ \A v \in rows : v.at \in Int
  BY RowsFacts, FS_Subset
<1>2. times \in SUBSET Int /\ times # {}
  BY <1>1
<1>3. IsFiniteSet(times)
  <2>1. f \in Surjection(rows, times)
    BY DEF Surjection
  <2> HIDE DEF f, times
  <2> QED  BY <1>1, <2>1, FS_Surjection
<1>4. \E x \in times : \A y \in times : y <= x
  <2> HIDE DEF times
  <2> QED  BY <1>2, <1>3, Extremes
<1>5. \E v \in rows : \A w \in rows : w.at <= v.at
  BY <1>4
<1> QED  BY <1>5 DEF Latest

LEMMA LatestStatusType ==
  ASSUME Typed, NEW r
  PROVE  LatestStatus(r) \in Statuses \cup {None}
<1>1. CASE ListAlertEvents(r) = {}
  BY <1>1 DEF LatestStatus
<1>2. CASE ListAlertEvents(r) # {}
  <2>1. ListAlertEvents(r) \in SUBSET Rows
    BY RowsFacts
  <2>2. Latest(ListAlertEvents(r)) \in Rows
    BY <1>2, <2>1, LatestIs
  <2>3. Latest(ListAlertEvents(r)).status \in Statuses
    BY <2>2, RowsFacts
  <2> QED  BY <1>2, <2>3 DEF LatestStatus
<1> QED  BY <1>1, <1>2

LEMMA MoveTyped ==
  ASSUME Typed, NEW e \in Evaluations, Move(e)
  PROVE  Evaluation(e)' /\ clock' \in Nat /\ clock <= clock'
<1>1. Evaluation(e) /\ clock \in Nat /\ Locals
  BY DEF Typed
<1>2. clock' \in {clock, clock + 1}
  BY DEF Move, BeginEvaluation, Step, Cancel, ListRules, EvaluateRule, NothingListed,
     ReadLatest, AllReported, SendSucceeds, Deliver, Retry, NextTarget, DeliveryFails,
     InsertAlertEvent, StoreFails
<1>3. /\ at[e] \in 0 .. clock /\ DOMAIN listed[e] \subseteq RuleIds
      /\ DOMAIN verdicts[e] \subseteq DOMAIN listed[e]
      /\ \A r \in DOMAIN verdicts[e] : verdicts[e][r] \in Statuses
      /\ reported[e] \subseteq DOMAIN verdicts[e]
      /\ delivery[e] \in Deliveries
  BY <1>1 DEF Evaluation
<1>4. /\ 0 \in 0 .. clock /\ at[e] \in 0 .. clock' /\ clock' \in Nat /\ clock <= clock'
  BY <1>1, <1>2, <1>3
<1>5. NoDelivery \in Deliveries
  BY DEF NoDelivery, Deliveries
<1> SUFFICES Evaluation(e)'
  BY <1>4
<1> USE DEF Timed
<1>6. ASSUME NEW from, NEW to, Return(e, from, to), to \in {"done", "failed"}, clock' = clock
      PROVE  Evaluation(e)'
  BY <1>1, <1>4, <1>5, <1>6 DEF Return, Goto, Locals, Evaluation
<1>7. CASE BeginEvaluation(e)
  BY <1>1, <1>4, <1>7 DEF BeginEvaluation, Goto, Locals, Evaluation, own
<1>8. CASE ListRules(e)
  <2>1. at'[e] = clock' /\ listed'[e] = alertRules /\ stage[e] = "list" /\ stage'[e] = "evaluate"
    BY <1>1, <1>8 DEF ListRules, Goto, Locals
  <2>2. DOMAIN verdicts[e] = {} /\ reported[e] = {}
    BY <1>1, <2>1 DEF Evaluation
  <2>3. DOMAIN alertRules \subseteq RuleIds
    BY DEF Typed
  <2> QED  BY <1>1, <1>3, <1>4, <1>8, <2>1, <2>2, <2>3 DEF ListRules, Locals, Evaluation
<1>9. CASE EvaluateRule(e)
  <2> DEFINE With(r) == [x \in DOMAIN verdicts[e] \cup {r} |->
                           IF x = r THEN Status(listed[e][r], recent) ELSE verdicts[e][x]]
  <2>1. PICK r \in DOMAIN listed[e] \ DOMAIN verdicts[e] :
          /\ verdicts' = [verdicts EXCEPT ![e] = With(r)]
          /\ stage' = [stage EXCEPT ![e] = IF DOMAIN With(r) = DOMAIN listed[e]
                                           THEN "report" ELSE "evaluate"]
    BY <1>9 DEF EvaluateRule
  <2>2. /\ verdicts'[e] = With(r) /\ DOMAIN With(r) = DOMAIN verdicts[e] \cup {r}
        /\ stage'[e] = IF DOMAIN With(r) = DOMAIN listed[e] THEN "report" ELSE "evaluate"
    BY <1>1, <2>1 DEF Locals
  <2>3. \A x \in DOMAIN With(r) : With(r)[x] \in Statuses
    BY <1>3, <2>1, StatusType
  <2>4. /\ UNCHANGED <<clock, at, listed, reported, delivery>>
        /\ stage[e] = "evaluate" /\ stage'[e] \in {"evaluate", "report"}
        /\ stage'[e] = "report" => DOMAIN With(r) = DOMAIN listed[e]
    BY <1>9, <2>2 DEF EvaluateRule
  <2>5. \A x \in DOMAIN verdicts'[e] : verdicts'[e][x] \in Statuses
    BY <2>2, <2>3
  <2> HIDE DEF With
  <2>6. DOMAIN verdicts'[e] = DOMAIN verdicts[e] \cup {r} /\ r \in DOMAIN listed[e]
    BY <2>1, <2>2
  <2>7. stage'[e] = "report" => DOMAIN verdicts'[e] = DOMAIN listed[e]
    BY <2>2, <2>4
  <2> QED  BY <1>3, <1>4, <2>4, <2>5, <2>6, <2>7 DEF Evaluation
<1>10. CASE NothingListed(e)
  BY <1>6, <1>10 DEF NothingListed
<1>11. CASE ReadLatest(e)
  <2>1. stage[e] = "report" /\ DOMAIN verdicts[e] = DOMAIN listed[e]
    BY <1>1, <1>11 DEF ReadLatest, Evaluation
  <2>2. PICK r \in RuleIds :
          /\ NextUp(e, r)
          /\ IF Unchanged(e, r)
             THEN /\ reported' = [reported EXCEPT ![e] = @ \cup {r}]
                  /\ UNCHANGED <<stage, delivery>>
             ELSE /\ delivery' = [delivery EXCEPT ![e] =
                       [rule |-> r, previous |-> LatestStatus(r), target |-> 1, attempt |-> 1,
                        outcome |-> IF Targets = <<>> THEN "skipped" ELSE None]]
                  /\ stage' = [stage EXCEPT ![e] = IF Targets = <<>> THEN "insert" ELSE "deliver"]
                  /\ UNCHANGED reported
    BY <1>11 DEF ReadLatest
  <2>3. UNCHANGED <<clock, at, listed, verdicts>> /\ r \in DOMAIN verdicts[e] \ reported[e]
    BY <1>11, <2>2 DEF ReadLatest, NextUp
  <2>4. CASE Unchanged(e, r)
    BY <1>1, <1>3, <1>4, <2>1, <2>2, <2>3, <2>4 DEF Locals, Evaluation
  <2>5. CASE ~Unchanged(e, r)
    <3>1. /\ stage'[e] = IF Targets = <<>> THEN "insert" ELSE "deliver"
          /\ delivery'[e] = [rule |-> r, previous |-> LatestStatus(r), target |-> 1,
                             attempt |-> 1,
                             outcome |-> IF Targets = <<>> THEN "skipped" ELSE None]
          /\ reported' = reported
      BY <1>1, <2>2, <2>5 DEF Locals
    <3>2. delivery'[e] \in Deliveries
      <4>1. LatestStatus(r) \in Statuses \cup {None} /\ 1 \in 0 .. Retries
        BY LatestStatusType
      <4> QED  BY <3>1, <4>1 DEF Deliveries, Outcomes
    <3>3. delivery'[e].previous # verdicts'[e][delivery'[e].rule]
      BY <2>3, <2>5, <3>1 DEF Unchanged
    <3>4. /\ stage'[e] = "deliver" => /\ delivery'[e].target \in 1 .. Len(Targets)
                                   /\ delivery'[e].attempt # 0
          /\ stage'[e] = "insert" => delivery'[e].outcome \in Outcomes
      BY <3>1, TargetsFacts DEF Outcomes
    <3> QED  BY <1>1, <1>3, <1>4, <2>1, <2>3, <3>1, <3>2, <3>3, <3>4 DEF Evaluation
  <2> QED  BY <2>4, <2>5
<1>12. CASE AllReported(e)
  BY <1>6, <1>12 DEF AllReported
<1>13. ASSUME NEW outcome \in {"sent", "failed"}, Deliver(e, outcome, "insert")
       PROVE  Evaluation(e)'
  <2>1. /\ stage[e] = "deliver" /\ stage'[e] = "insert"
        /\ delivery'[e] = [delivery[e] EXCEPT !.outcome = outcome]
    BY <1>1, <1>13 DEF Deliver, Goto, Locals
  <2>2. /\ delivery'[e] \in Deliveries /\ delivery'[e].outcome = outcome
        /\ delivery'[e].rule = delivery[e].rule /\ delivery'[e].previous = delivery[e].previous
    BY <1>3, <2>1 DEF Deliveries, Outcomes
  <2> QED  BY <1>1, <1>3, <1>4, <1>13, <2>1, <2>2 DEF Deliver, Evaluation, Outcomes
<1>14. CASE SendSucceeds(e)
  BY <1>13, <1>14 DEF SendSucceeds
<1>15. CASE DeliveryFails(e)
  BY <1>13, <1>15 DEF DeliveryFails
<1>16. ASSUME stage[e] = "deliver", UNCHANGED <<clock, stage, at, listed, verdicts, reported>>,
              NEW target \in 1 .. Len(Targets), NEW attempt \in 1 .. Retries,
              delivery'[e] = [delivery[e] EXCEPT !.target = target, !.attempt = attempt]
       PROVE  Evaluation(e)'
  <2>1. target \in Nat /\ attempt \in 0 .. Retries /\ attempt # 0
    BY TargetsFacts
  <2>2. /\ delivery'[e].rule = delivery[e].rule /\ delivery'[e].previous = delivery[e].previous
        /\ delivery'[e].target = target /\ delivery'[e].attempt = attempt
        /\ delivery'[e] \in Deliveries
    BY <1>3, <1>16, <2>1 DEF Deliveries
  <2> QED  BY <1>1, <1>3, <1>4, <1>16, <2>1, <2>2 DEF Evaluation
<1>17. CASE Retry(e)
  <2>1. /\ delivery[e].target \in 1 .. Len(Targets) /\ delivery[e].attempt \in 0 .. Retries
        /\ delivery[e].attempt < Retries
    BY <1>1, <1>3, <1>17 DEF Retry, Evaluation, Deliveries
  <2>4. delivery'[e] = [delivery[e] EXCEPT !.attempt = delivery[e].attempt + 1]
    BY <1>1, <1>17 DEF Retry, Locals
  <2>2. delivery'[e] = [delivery[e] EXCEPT !.target = delivery[e].target,
                                           !.attempt = delivery[e].attempt + 1]
    BY <1>3, <2>4 DEF Deliveries
  <2>3. delivery[e].attempt + 1 \in 1 .. Retries
    BY <2>1
  <2> QED  BY <1>16, <1>17, <2>1, <2>2, <2>3 DEF Retry
<1>18. CASE NextTarget(e)
  <2>1. /\ delivery[e].target \in 1 .. Len(Targets) /\ delivery[e].target < Len(Targets)
    BY <1>1, <1>3, <1>18 DEF NextTarget, Evaluation
  <2>3. delivery'[e] = [delivery[e] EXCEPT !.target = delivery[e].target + 1, !.attempt = 1]
    BY <1>1, <1>18 DEF NextTarget, Locals
  <2>2. delivery[e].target + 1 \in 1 .. Len(Targets) /\ 1 \in 1 .. Retries
    BY <2>1, TargetsFacts
  <2> QED  BY <1>16, <1>18, <2>2, <2>3 DEF NextTarget
<1>19. CASE InsertAlertEvent(e)
  <2>1. /\ stage[e] = "insert" /\ stage'[e] = "report" /\ delivery'[e] = NoDelivery
        /\ reported'[e] = reported[e] \cup {delivery[e].rule}
    BY <1>1, <1>19 DEF InsertAlertEvent, Goto, Locals
  <2> QED  BY <1>1, <1>3, <1>4, <1>5, <1>19, <2>1 DEF InsertAlertEvent, Evaluation
<1>20. CASE StoreFails(e)
  BY <1>6, <1>20 DEF StoreFails
<1>21. CASE Cancel(e)
  BY <1>1, <1>4, <1>21 DEF Cancel, Evaluation, own
<1> QED
  BY <1>4, <1>7, <1>8, <1>9, <1>10, <1>11, <1>12, <1>14, <1>15, <1>17, <1>18, <1>19, <1>20,
     <1>21 DEF Move, Step

\* An insertion adds one row, which says what the evaluation found.
LEMMA EventFacts ==
  ASSUME Typed, NEW e \in Evaluations, InsertAlertEvent(e)
  PROVE  /\ Event(e) \in Verdict /\ events' \in Seq(Verdict)
         /\ Rows' = Rows \cup {Event(e)}
         /\ Event(e).rule = delivery[e].rule /\ Event(e).at = at[e] /\ Event(e).by = e
         /\ Event(e).status = verdicts[e][delivery[e].rule]
         /\ Event(e).previous = delivery[e].previous
         /\ delivery[e].rule \in DOMAIN verdicts[e] \ reported[e]
<1>1. stage[e] = "insert" /\ events' = Append(events, Event(e))
  BY DEF InsertAlertEvent, Goto
<1>2. /\ delivery[e].rule \in DOMAIN verdicts[e] \ reported[e]
      /\ delivery[e].outcome \in Outcomes /\ delivery[e] \in Deliveries
      /\ at[e] \in 0 .. clock /\ DOMAIN verdicts[e] \subseteq RuleIds
      /\ verdicts[e][delivery[e].rule] \in Statuses /\ clock \in Nat
      /\ events \in Seq(Verdict)
  BY <1>1 DEF Typed, Evaluation
<1>3. Event(e) \in Verdict
  <2>1. /\ delivery[e].rule \in RuleIds /\ delivery[e].previous \in Statuses \cup {None}
        /\ at[e] \in Nat
    BY <1>2 DEF Deliveries
  <2> QED  BY <1>2, <2>1 DEF Event, Verdict, Outcomes
<1>4. events' \in Seq(Verdict) /\ Rows' = Rows \cup {Event(e)}
  <2>1. PICK v \in Verdict : v = Event(e)
    BY <1>3
  <2>2. /\ events' \in Seq(Verdict) /\ Len(events) \in Nat
        /\ DOMAIN events' = 1 .. Len(events) + 1 /\ Len(events') = Len(events) + 1
        /\ events'[Len(events) + 1] = v
        /\ \A i \in 1 .. Len(events) : events'[i] = events[i]
    BY <1>1, <1>2, <2>1
  <2> QED  BY <2>1, <2>2 DEF Rows
<1> QED  BY <1>2, <1>3, <1>4 DEF Event

LEMMA TypedStep ==
  ASSUME Typed, [NextAlerts]_alertVars
  PROVE  Typed'
<1>1. CASE UNCHANGED alertVars
  BY <1>1 DEF alertVars, data, own, Typed, Locals, Evaluation
<1>2. ASSUME NEW e \in Evaluations, Move(e) PROVE Typed'
  <2>1. Locals' /\ clock' \in Nat /\ clock <= clock'
    BY <1>2, OthersKeep, MoveTyped DEF Typed
  <2>2. ASSUME NEW f \in Evaluations PROVE Evaluation(f)'
    <3>1. CASE f = e
      BY <1>2, <3>1, MoveTyped
    <3>2. CASE f # e
      <4>1. /\ stage'[f] = stage[f] /\ at'[f] = at[f] /\ listed'[f] = listed[f]
            /\ verdicts'[f] = verdicts[f] /\ reported'[f] = reported[f]
            /\ delivery'[f] = delivery[f]
        BY <1>2, <3>2, OthersKeep DEF Typed
      <4> QED  BY <2>1, <4>1, EvaluationKept
    <3> QED  BY <3>1, <3>2
  <2>3. alertRules' = alertRules
    BY <1>2 DEF Move, Step, BeginEvaluation, Cancel, ListRules, EvaluateRule,
       NothingListed, ReadLatest, AllReported, SendSucceeds, Deliver, Retry, NextTarget,
       DeliveryFails, InsertAlertEvent, StoreFails, data
  <2>4. recent' \subseteq TraceForms /\ IsFiniteSet(recent')
    <3>1. CASE BeginEvaluation(e)
      <4>1. PICK s \in TraceForms, kept \in SUBSET recent : recent' = kept \cup {s}
        BY <3>1 DEF BeginEvaluation
      <4>2. recent \subseteq TraceForms /\ IsFiniteSet(recent)
        BY DEF Typed
      <4>3. IsFiniteSet(kept) /\ IsFiniteSet(kept \cup {s})
        BY <4>2, FS_Subset, FS_AddElement
      <4> QED  BY <4>1, <4>2, <4>3
    <3>2. CASE recent' = recent
      BY <3>2 DEF Typed
    <3> QED
      BY <1>2, <3>1, <3>2 DEF Move, Step, Cancel, ListRules, EvaluateRule, NothingListed,
         ReadLatest, AllReported, SendSucceeds, Deliver, Retry, NextTarget, DeliveryFails,
         InsertAlertEvent, StoreFails, data
  <2>5. events' \in Seq(Verdict)
    <3>1. CASE InsertAlertEvent(e)
      BY <3>1, EventFacts
    <3>2. CASE events' = events
      BY <3>2 DEF Typed
    <3> QED
      BY <1>2, <3>1, <3>2 DEF Move, Step, BeginEvaluation, Cancel, ListRules, EvaluateRule,
         NothingListed, ReadLatest, AllReported, SendSucceeds, Deliver, Retry, NextTarget,
         DeliveryFails, StoreFails, data
  <2>6. received' \subseteq Evaluations \X RuleIds \X (1 .. Len(Targets))
    <3>1. CASE stage[e] = "deliver" /\ Arrives(e)
      <4>1. stage[e] = "deliver" /\ received' = received \cup {<<e, delivery[e].rule, delivery[e].target>>}
        BY <3>1 DEF Arrives
      <4>2. delivery[e].rule \in RuleIds /\ delivery[e].target \in 1 .. Len(Targets)
        BY <4>1 DEF Typed, Evaluation
      <4> QED  BY <4>1, <4>2 DEF Typed
    <3>2. CASE received' = received
      BY <3>2 DEF Typed
    <3> QED
      BY <1>2, <3>1, <3>2 DEF Move, Step, BeginEvaluation, Cancel, ListRules,
         EvaluateRule, NothingListed, ReadLatest, AllReported, SendSucceeds, Retry, NextTarget,
         DeliveryFails, Deliver, Goto, SendFailed, InsertAlertEvent, StoreFails
  <2> QED  BY <2>1, <2>2, <2>3, <2>4, <2>5, <2>6 DEF Typed
<1>3. ASSUME NEW r \in RuleIds, Delete(r) \/ \E f \in RuleForms : Upsert(r, f) PROVE Typed'
  <2>1. UNCHANGED <<clock, recent, events, stage, at, listed, verdicts, reported, delivery, received>>
    BY <1>3 DEF Delete, Upsert, own
  <2>2. /\ DOMAIN alertRules' \subseteq RuleIds
        /\ \A x \in DOMAIN alertRules' : alertRules'[x] \in RuleForms /\ ValidRule(alertRules'[x])
    <3>1. CASE Delete(r)
      BY <3>1 DEF Delete, Restrict, Typed
    <3>2. ASSUME NEW f \in RuleForms, Upsert(r, f)
          PROVE  /\ DOMAIN alertRules' \subseteq RuleIds
                 /\ \A x \in DOMAIN alertRules' : alertRules'[x] \in RuleForms /\ ValidRule(alertRules'[x])
      BY <3>2 DEF Upsert, UpsertAlertRule, Typed
    <3> QED  BY <1>3, <3>1, <3>2
  <2>3. \A e \in Evaluations : Evaluation(e)'
    BY <2>1 DEF Typed, Evaluation
  <2> QED  BY <2>1, <2>2, <2>3 DEF Typed, Locals
<1> QED  BY <1>1, <1>2, <1>3, NextIsOneOf

LEMMA TypedInit == InitAlerts => Typed
<1> SUFFICES ASSUME InitAlerts PROVE Typed
  OBVIOUS
<1>1. ASSUME NEW e \in Evaluations PROVE Evaluation(e)
  <2>1. /\ at[e] = 0 /\ clock = 0 /\ DOMAIN listed[e] = {} /\ DOMAIN verdicts[e] = {}
        /\ reported[e] = {} /\ stage[e] = "idle" /\ delivery[e] = NoDelivery
    BY DEF InitAlerts
  <2>2. NoDelivery \in Deliveries
    BY DEF NoDelivery, Deliveries
  <2> QED  BY <2>1, <2>2 DEF Evaluation, Timed
<1>2. recent \subseteq TraceForms /\ IsFiniteSet(recent)
  BY FS_EmptySet DEF InitAlerts
<1>3. events \in Seq(Verdict) /\ received = {} /\ clock \in Nat
  BY DEF InitAlerts
<1>4. /\ DOMAIN alertRules \subseteq RuleIds
      /\ \A r \in DOMAIN alertRules : alertRules[r] \in RuleForms /\ ValidRule(alertRules[r])
  BY DEF InitAlerts
<1>5. Locals
  BY DEF InitAlerts, Locals
<1> QED  BY <1>1, <1>2, <1>3, <1>4, <1>5 DEF Typed

\* Every variable keeps its type, whatever evaluations and edits interleave.
THEOREM AlertsTypeCorrect == SpecAlerts => []AlertsTypeOK
<1>1. Typed => AlertsTypeOK
  <2> SUFFICES ASSUME Typed PROVE AlertsTypeOK
    OBVIOUS
  <2>1. \A e \in Evaluations :
          /\ at[e] \in 0 .. clock /\ DOMAIN verdicts[e] \subseteq DOMAIN listed[e]
          /\ reported[e] \subseteq DOMAIN verdicts[e] /\ delivery[e].attempt \in 0 .. Retries
    BY DEF Typed, Evaluation, Deliveries
  <2> QED  BY <2>1 DEF Typed, AlertsTypeOK, Locals
<1> QED  BY <1>1, TypedInit, TypedStep, PTL DEF SpecAlerts

-----------------------------------------------------------------------------
(* Notifications.                                                          *)

\* Rows are never lost.
LEMMA RowsStay ==
  ASSUME Typed, [NextAlerts]_alertVars
  PROVE  Rows \subseteq Rows'
<1>1. ASSUME NEW e \in Evaluations, InsertAlertEvent(e) PROVE Rows \subseteq Rows'
  BY <1>1, EventFacts
<1>2. CASE events' = events
  BY <1>2 DEF Rows
<1> QED
  BY <1>1, <1>2 DEF NextAlerts, Step, BeginEvaluation, Cancel, ListRules, EvaluateRule,
     NothingListed, ReadLatest, AllReported, SendSucceeds, Deliver, Retry, NextTarget,
     DeliveryFails, StoreFails, Delete, Upsert, alertVars, data

\* What became of a notification of rule r by evaluation e.
Accounted(e, r) == \/ \E v \in Rows : v.by = e /\ v.rule = r
                   \/ stage[e] = "failed"
                   \/ stage[e] \in {"deliver", "insert"} /\ delivery[e].rule = r

\* A delivery under way is recorded by its evaluation, unless that fails.
LEMMA AccountedStep ==
  ASSUME Typed, [NextAlerts]_alertVars, NEW e \in Evaluations, NEW r, Accounted(e, r)
  PROVE  Accounted(e, r)'
<1> SUFFICES ASSUME ~(\E v \in Rows : v.by = e /\ v.rule = r) PROVE Accounted(e, r)'
  BY RowsStay DEF Accounted
<1>1. \/ stage[e] = "failed"
      \/ stage[e] \in {"deliver", "insert"} /\ delivery[e].rule = r
  BY DEF Accounted
<1>2. CASE stage'[e] = stage[e] /\ delivery'[e] = delivery[e]
  BY <1>1, <1>2 DEF Accounted
<1>3. ASSUME Move(e) PROVE Accounted(e, r)'
  <2>1. Locals
    BY DEF Typed
  <2>2. (stage[e] \in {"deliver", "insert"} /\ delivery[e].rule = r) \/ Cancel(e)
    BY <1>1, <1>3 DEF Move, BeginEvaluation, Step, ListRules, EvaluateRule,
       NothingListed, Return, Goto, ReadLatest, AllReported, SendSucceeds, Deliver, Retry,
       NextTarget, DeliveryFails, InsertAlertEvent, StoreFails, Running
  <2>3. CASE Cancel(e)
    BY <1>1, <2>3 DEF Cancel, own, Accounted
  <2>4. CASE InsertAlertEvent(e)
    <3>1. delivery[e].rule = r
      BY <2>2, <2>4 DEF Cancel, InsertAlertEvent, Goto, own
    <3>2. Event(e) \in Rows' /\ Event(e).by = e /\ Event(e).rule = r
      BY <2>4, <3>1, EventFacts
    <3> QED  BY <3>2 DEF Accounted
  <2>5. CASE StoreFails(e)
    BY <2>1, <2>5 DEF StoreFails, Return, Goto, Locals, Accounted
  <2>6. CASE SendSucceeds(e) \/ DeliveryFails(e) \/ Retry(e) \/ NextTarget(e)
    <3>1. stage[e] = "deliver" /\ stage'[e] \in {"deliver", "insert"}
      BY <2>1, <2>6 DEF SendSucceeds, DeliveryFails, Deliver, Goto, Retry, NextTarget,
         Locals
    <3>2. delivery[e].rule = r /\ delivery[e] \in Deliveries
      BY <1>1, <3>1 DEF Typed, Evaluation
    <3>3. delivery'[e].rule = delivery[e].rule
      BY <2>1, <2>6, <3>2 DEF SendSucceeds, DeliveryFails, Deliver, Retry, NextTarget,
         Locals, Deliveries
    <3> QED  BY <3>1, <3>2, <3>3 DEF Accounted
  <2> QED
    BY <1>3, <2>2, <2>3, <2>4, <2>5, <2>6 DEF Move, BeginEvaluation, Step, ListRules,
       EvaluateRule, NothingListed, Return, Goto, ReadLatest, AllReported
<1>4. ASSUME NEW f \in Evaluations \ {e}, Move(f) PROVE Accounted(e, r)'
  <2>1. stage'[e] = stage[e] /\ delivery'[e] = delivery[e]
    BY <1>4, OthersKeep DEF Typed
  <2> QED  BY <1>2, <2>1
<1>5. ASSUME NEW x \in RuleIds, Delete(x) \/ \E f \in RuleForms : Upsert(x, f)
      PROVE  Accounted(e, r)'
  BY <1>2, <1>5 DEF Delete, Upsert, own
<1>6. CASE UNCHANGED alertVars
  BY <1>2, <1>6 DEF alertVars, own
<1> QED  BY <1>3, <1>4, <1>5, <1>6, NextIsOneOf

LEMMA NotifiedStep ==
  ASSUME Typed, NotifiedIsRecorded, [NextAlerts]_alertVars
  PROVE  NotifiedIsRecorded'
<1>1. ASSUME NEW n \in Evaluations \X RuleIds \X (1 .. Len(Targets))
      PROVE  /\ n[1] \in Evaluations
             /\ Accounted(n[1], n[2]) <=>
                  \/ \E i \in 1 .. Len(events) : events[i].by = n[1] /\ events[i].rule = n[2]
                  \/ stage[n[1]] = "failed"
                  \/ stage[n[1]] \in {"deliver", "insert"} /\ delivery[n[1]].rule = n[2]
  BY DEF Accounted, Rows
<1>2. ASSUME NEW n \in received' PROVE Accounted(n[1], n[2])'
  <2>1. CASE n \in received
    <3>1. n \in Evaluations \X RuleIds \X (1 .. Len(Targets))
      BY <2>1 DEF Typed
    <3>2. Accounted(n[1], n[2])
      BY <1>1, <2>1, <3>1 DEF NotifiedIsRecorded
    <3> QED  BY <1>1, <3>1, <3>2, AccountedStep
  <2>2. CASE n \notin received
    <3>1. PICK e \in Evaluations :
            SendSucceeds(e) \/ Retry(e) \/ NextTarget(e) \/ DeliveryFails(e)
      BY <1>2, <2>2 DEF NextAlerts, Step, BeginEvaluation, Cancel, ListRules,
         EvaluateRule, NothingListed, ReadLatest, AllReported,
         InsertAlertEvent, StoreFails, Delete, Upsert, alertVars
    <3>2. n = <<e, delivery[e].rule, delivery[e].target>>
      <4>1. Arrives(e)
        BY <1>2, <2>2, <3>1 DEF SendSucceeds, Retry, NextTarget, DeliveryFails, SendFailed
      <4> QED  BY <1>2, <2>2, <4>1 DEF Arrives
    <3>3. stage'[e] \in {"deliver", "insert"} /\ delivery'[e].rule = delivery[e].rule
      <4>1. CASE SendSucceeds(e) \/ DeliveryFails(e)
        <5>1. \E o \in {"failed", "sent"} : Deliver(e, o, "insert")
          BY <4>1 DEF SendSucceeds, DeliveryFails
        <5>2. stage[e] = "deliver" /\ delivery[e] \in Deliveries
          BY <5>1 DEF Deliver, Goto, Typed, Evaluation
        <5> QED  BY <5>1, <5>2 DEF Deliver, Goto, Typed, Locals, Deliveries
      <4>2. CASE Retry(e) \/ NextTarget(e)
        <5>1. stage[e] = "deliver" /\ stage' = stage
          BY <4>2 DEF Retry, NextTarget, Deliver
        <5>2. delivery[e] \in Deliveries
          BY <5>1 DEF Typed, Evaluation
        <5>3. delivery'[e].rule = delivery[e].rule
          BY <4>2, <5>2 DEF Retry, NextTarget, Deliver, Typed, Locals, Deliveries
        <5> QED  BY <5>1, <5>3
      <4> QED  BY <3>1, <4>1, <4>2
    <3> QED  BY <3>2, <3>3 DEF Accounted
  <2> QED  BY <2>1, <2>2
<1>3. \A n \in received' :
        \/ \E i \in 1 .. Len(events') : events'[i].by = n[1] /\ events'[i].rule = n[2]
        \/ stage'[n[1]] = "failed"
        \/ stage'[n[1]] \in {"deliver", "insert"} /\ delivery'[n[1]].rule = n[2]
  BY <1>2 DEF Accounted, Rows
<1> QED  BY <1>3 DEF NotifiedIsRecorded

\* No target hears of a change that the table will not know of, unless the
\* evaluation is cut short.
THEOREM NotifiedCorrect == SpecAlerts => []NotifiedIsRecorded
<1>1. InitAlerts => NotifiedIsRecorded
  BY DEF InitAlerts, NotifiedIsRecorded
<1> QED  BY <1>1, TypedInit, TypedStep, NotifiedStep, PTL DEF SpecAlerts
-----------------------------------------------------------------------------
(* The table of events.                                                    *)

\* Evaluations that are active together have overlapped.
Serial == \A e, f \in Active : e # f => e \in overlapped

\* An event carries the time of its evaluation, which is nobody else's; an
\* evaluation inserts one event per rule.
Stamped ==
  /\ \A v \in Rows :
       /\ stage[v.by] \notin {"idle", "list"} /\ v.at <= clock
       /\ stage[v.by] \in Timed => v.at = at[v.by] /\ v.rule \in reported[v.by]
  /\ \A v, w \in Rows : /\ v.at = w.at => v.by = w.by
                        /\ v.by = w.by /\ v.rule = w.rule => v = w

\* Two evaluations that did not overlap are one before the other.
Distinct == \A e, f \in Evaluations : stage[e] \in Timed /\ stage[f] \in Timed /\ e # f => at[e] # at[f]
Sequential ==
  \A v \in Rows, e \in Evaluations :
    stage[e] \in Timed /\ v.by # e =>
      /\ v.at # at[e]
      /\ v.at < at[e] \/ (v.by \in overlapped /\ e \in overlapped)

\* What an evaluation that is alone has read is still true.
Current ==
  \A e \in Active \ overlapped :
    /\ stage[e] \in {"deliver", "insert"} => delivery[e].previous = LatestStatus(delivery[e].rule)
    /\ \A r \in reported[e] : LatestStatus(r) = verdicts[e][r]

\* The events of a rule before v.
Before(v) == {w \in ListAlertEvents(v.rule) : w.at < v.at}

\* An event of an evaluation that never overlapped tells a change.
Tells(v) ==
  /\ v.previous = IF Before(v) = {} THEN None ELSE Latest(Before(v)).status
  /\ v.status # v.previous
Telling == \A v \in Rows : v.by \notin overlapped => Tells(v)

Table == Serial /\ Stamped /\ Distinct /\ Sequential /\ Current /\ Telling

\* The course of an evaluation, as far as the table is concerned.
LEMMA Course ==
  ASSUME Typed, NEW e \in Evaluations, Move(e)
  PROVE  \/ BeginEvaluation(e) /\ stage[e] = "idle" /\ stage'[e] = "list" /\ clock' = clock
         \/ /\ stage[e] = "list" /\ stage'[e] = "evaluate"
            /\ at'[e] = clock' /\ clock' = clock + 1 /\ UNCHANGED <<events, overlapped>>
         \/ /\ stage[e] \in Running /\ stage'[e] \in {"done", "failed"}
            /\ UNCHANGED <<clock, events, overlapped>>
         \/ /\ stage[e] \in Running /\ (stage'[e] = stage[e] \/ {stage[e], stage'[e]} \subseteq Timed)
            /\ at'[e] = at[e] /\ reported[e] \subseteq reported'[e]
            /\ UNCHANGED <<clock, overlapped>>
<1> USE DEF Locals, Timed, Running
<1>1. Locals
  BY DEF Typed
<1>2. CASE BeginEvaluation(e)
  BY <1>1, <1>2 DEF BeginEvaluation, Goto
<1>3. CASE ListRules(e)
  BY <1>1, <1>3 DEF ListRules, Goto, data
<1>4. CASE NothingListed(e) \/ AllReported(e) \/ StoreFails(e)
  BY <1>1, <1>4 DEF NothingListed, AllReported, StoreFails, Return, Goto, data
<1>5. CASE EvaluateRule(e)
  BY <1>1, <1>5 DEF EvaluateRule
<1>6. CASE ReadLatest(e)
  <2>1. /\ stage[e] = "report" /\ at' = at /\ UNCHANGED <<clock, overlapped>>
        /\ stage'[e] \in {"report", "insert", "deliver"}
    BY <1>1, <1>6 DEF ReadLatest
  <2>2. reported[e] \subseteq reported'[e]
    BY <1>1, <1>6 DEF ReadLatest
  <2> QED  BY <2>1, <2>2
<1>7. CASE SendSucceeds(e) \/ DeliveryFails(e)
  BY <1>1, <1>7 DEF SendSucceeds, DeliveryFails, Deliver, Goto
<1>8. CASE Retry(e) \/ NextTarget(e)
  BY <1>1, <1>8 DEF Retry, NextTarget
<1>9. CASE InsertAlertEvent(e)
  BY <1>1, <1>9 DEF InsertAlertEvent, Goto
<1>10. CASE Cancel(e)
  BY <1>1, <1>10 DEF Cancel, own
<1> QED
  BY <1>2, <1>3, <1>4, <1>5, <1>6, <1>7, <1>8, <1>9, <1>10 DEF Move, Step

\* What a step may do to the table and to the history.
LEMMA TableMoves ==
  ASSUME [NextAlerts]_alertVars
  PROVE  /\ (\E e \in Evaluations : InsertAlertEvent(e)) \/ events' = events
         /\ overlapped \subseteq overlapped'
BY DEF NextAlerts, Step, BeginEvaluation, Cancel, ListRules, EvaluateRule, NothingListed,
   ReadLatest, AllReported, SendSucceeds, Deliver, Retry, NextTarget, DeliveryFails,
   InsertAlertEvent, StoreFails, Delete, Upsert, alertVars, data

LEMMA SerialStep ==
  ASSUME Typed, Serial, [NextAlerts]_alertVars
  PROVE  Serial'
<1>1. CASE stage' = stage
  BY <1>1, TableMoves DEF Serial, Active
<1>2. ASSUME NEW g \in Evaluations, Move(g) PROVE Serial'
  <2>1. \A f \in Evaluations \ {g} : stage'[f] = stage[f]
    BY <1>2, OthersKeep DEF Typed
  <2>2. CASE BeginEvaluation(g)
    <3>1. Active' \subseteq Active \cup {g}
      BY <2>1 DEF Active
    <3>2. CASE Active = {}
      BY <3>1, <3>2 DEF Serial
    <3>3. CASE Active # {}
      BY <2>2, <3>1, <3>3 DEF Serial, BeginEvaluation
    <3> QED  BY <3>2, <3>3
  <2>3. CASE ~BeginEvaluation(g)
    <3>1. stage[g] \in Running
      BY <1>2, <2>3, Course DEF Running
    <3>2. Active' \subseteq Active
      BY <2>1, <3>1 DEF Active
    <3> QED  BY <3>2, TableMoves DEF Serial
  <2> QED  BY <2>2, <2>3
<1>3. (\E g \in Evaluations : Move(g)) \/ stage' = stage
  BY NextIsOneOf DEF Delete, Upsert, alertVars
<1> QED  BY <1>1, <1>2, <1>3

LEMMA DistinctStep ==
  ASSUME Typed, Distinct, [NextAlerts]_alertVars
  PROVE  Distinct'
<1>1. CASE stage' = stage /\ at' = at
  BY <1>1 DEF Distinct
<1>2. ASSUME NEW g \in Evaluations, Move(g) PROVE Distinct'
  <2>1. \A f \in Evaluations \ {g} : stage'[f] = stage[f] /\ at'[f] = at[f]
    BY <1>2, OthersKeep DEF Typed
  <2>2. ASSUME NEW f \in Evaluations \ {g}, stage[f] \in Timed, stage'[g] \in Timed
        PROVE  at[f] # at'[g]
    <3>1. CASE at'[g] = clock + 1
      BY <3>1 DEF Typed, Evaluation
    <3>2. CASE stage[g] \in Timed /\ at'[g] = at[g]
      BY <2>2, <3>2 DEF Distinct
    <3> QED  BY <1>2, <2>2, <3>1, <3>2, Course DEF Timed
  <2> QED  BY <2>1, <2>2 DEF Distinct
<1>3. (\E g \in Evaluations : Move(g)) \/ (stage' = stage /\ at' = at)
  BY NextIsOneOf DEF Delete, Upsert, alertVars, own
<1> QED  BY <1>1, <1>2, <1>3

\* The new row and the old ones.
LEMMA NewRow ==
  ASSUME Typed, Serial, Stamped, Sequential, NEW e \in Evaluations, InsertAlertEvent(e)
  PROVE  /\ stage[e] = "insert" /\ stage'[e] = "report" /\ at' = at /\ clock' = clock
         /\ overlapped' = overlapped /\ Event(e).at <= clock /\ Event(e).at \in Nat
         /\ reported'[e] = reported[e] \cup {Event(e).rule}
         /\ \A v \in Rows :
              /\ v.by = e => v.at = Event(e).at /\ v.rule # Event(e).rule
              /\ v.by # e => /\ v.at # Event(e).at
                             /\ v.at < Event(e).at
                                \/ (v.by \in overlapped /\ e \in overlapped)
<1>1. /\ stage[e] = "insert" /\ stage'[e] = "report" /\ at' = at /\ clock' = clock
      /\ overlapped' = overlapped /\ reported'[e] = reported[e] \cup {delivery[e].rule}
  BY DEF InsertAlertEvent, Goto, Typed, Locals
<1>2. /\ Event(e).at = at[e] /\ Event(e).rule = delivery[e].rule
      /\ delivery[e].rule \notin reported[e]
  BY EventFacts
<1>3. at[e] \in Nat /\ at[e] <= clock
  BY DEF Typed, Evaluation
<1> QED  BY <1>1, <1>2, <1>3 DEF Stamped, Sequential, Timed

LEMMA StampedStep ==
  ASSUME Typed, Serial, Stamped, Sequential, [NextAlerts]_alertVars
  PROVE  Stamped'
<1>1. CASE UNCHANGED <<events, stage, at, reported, clock>>
  BY <1>1 DEF Stamped, Rows
<1>2. ASSUME NEW e \in Evaluations, Move(e) PROVE Stamped'
  <2>1. \A f \in Evaluations \ {e} : /\ stage'[f] = stage[f] /\ at'[f] = at[f]
                                     /\ reported'[f] = reported[f]
    BY <1>2, OthersKeep DEF Typed
  <2>2. clock \in Nat /\ clock' \in Nat /\ clock <= clock'
    BY <1>2, MoveTyped DEF Typed
  <2>3. ASSUME NEW v \in Rows
        PROVE  /\ stage'[v.by] \notin {"idle", "list"} /\ v.at <= clock'
               /\ stage'[v.by] \in Timed => v.at = at'[v.by] /\ v.rule \in reported'[v.by]
    <3>1. /\ stage[v.by] \notin {"idle", "list"} /\ v.at <= clock /\ v.at \in Nat
          /\ v.by \in Evaluations
          /\ stage[v.by] \in Timed => v.at = at[v.by] /\ v.rule \in reported[v.by]
      BY RowsFacts DEF Stamped
    <3>2. CASE v.by # e
      BY <2>1, <2>2, <3>1, <3>2
    <3>3. CASE v.by = e
      <4>1. \/ stage'[e] \in {"done", "failed"}
            \/ /\ stage'[e] = stage[e] \/ {stage[e], stage'[e]} \subseteq Timed
               /\ at'[e] = at[e] /\ reported[e] \subseteq reported'[e]
        BY <1>2, <3>1, <3>3, Course
      <4> QED  BY <2>2, <3>1, <3>3, <4>1 DEF Timed
    <3> QED  BY <3>2, <3>3
  <2>4. CASE Rows' = Rows
    BY <2>3, <2>4 DEF Stamped
  <2>5. CASE InsertAlertEvent(e)
    <3> DEFINE n == Event(e)
    <3>1. Rows' = Rows \cup {n} /\ n.by = e /\ n.at = at[e] /\ n.rule = delivery[e].rule
      BY <2>5, EventFacts
    <3>2. /\ stage'[e] = "report" /\ at' = at /\ n.at <= clock' /\ n.rule \in reported'[e]
          /\ \A v \in Rows : /\ v.by = e => v.rule # n.rule
                             /\ v.by # e => v.at # n.at
      BY <2>5, NewRow
    <3> HIDE DEF n
    <3>3. \A v \in Rows' :
            /\ stage'[v.by] \notin {"idle", "list"} /\ v.at <= clock'
            /\ stage'[v.by] \in Timed => v.at = at'[v.by] /\ v.rule \in reported'[v.by]
      BY <2>3, <3>1, <3>2
    <3>4. \A v, w \in Rows' : /\ v.at = w.at => v.by = w.by
                              /\ v.by = w.by /\ v.rule = w.rule => v = w
      BY <3>1, <3>2 DEF Stamped
    <3> QED  BY <3>3, <3>4 DEF Stamped
  <2>6. InsertAlertEvent(e) \/ Rows' = Rows
    BY <1>2 DEF Rows, Move, Step, BeginEvaluation, Cancel, ListRules, EvaluateRule,
       NothingListed, ReadLatest, AllReported, SendSucceeds, Deliver, Retry, NextTarget,
       DeliveryFails, StoreFails, data
  <2> QED  BY <2>4, <2>5, <2>6
<1>3. (\E e \in Evaluations : Move(e)) \/ UNCHANGED <<events, stage, at, reported, clock>>
  BY NextIsOneOf DEF Delete, Upsert, alertVars, own, data
<1> QED  BY <1>1, <1>2, <1>3

LEMMA SequentialStep ==
  ASSUME Typed, Serial, Stamped, Distinct, Sequential, [NextAlerts]_alertVars
  PROVE  Sequential'
<1>1. CASE UNCHANGED <<events, stage, at, overlapped>>
  BY <1>1 DEF Sequential, Rows
<1>2. ASSUME NEW g \in Evaluations, Move(g) PROVE Sequential'
  <2>1. \A f \in Evaluations \ {g} : stage'[f] = stage[f] /\ at'[f] = at[f]
    BY <1>2, OthersKeep DEF Typed
  <2>2. overlapped \subseteq overlapped'
    BY <1>2, TableMoves
  <2>3. ASSUME NEW v \in Rows, NEW e \in Evaluations, stage'[e] \in Timed, v.by # e
        PROVE  /\ v.at # at'[e]
               /\ v.at < at'[e] \/ (v.by \in overlapped' /\ e \in overlapped')
    <3>1. CASE stage[e] \in Timed /\ at'[e] = at[e]
      BY <2>2, <2>3, <3>1 DEF Sequential
    <3>2. CASE at'[e] = clock + 1
      <4>1. v.at \in Nat /\ v.at <= clock /\ clock \in Nat
        BY RowsFacts DEF Stamped, Typed
      <4> QED  BY <3>2, <4>1
    <3>3. CASE e # g
      BY <2>1, <2>3, <3>1, <3>3
    <3>4. CASE e = g
      BY <1>2, <2>3, <3>1, <3>2, <3>4, Course DEF Timed
    <3> QED  BY <3>3, <3>4
  <2>4. CASE InsertAlertEvent(g)
    <3> DEFINE n == Event(g)
    <3>1. Rows' = Rows \cup {n} /\ n.by = g /\ n.at = at[g]
      BY <2>4, EventFacts
    <3>2. stage[g] = "insert" /\ at' = at /\ overlapped' = overlapped
      BY <2>4, NewRow
    <3>3. ASSUME NEW e \in Evaluations, stage'[e] \in Timed, e # g
          PROVE  n.at # at'[e] /\ g \in overlapped' /\ e \in overlapped'
      <4>1. stage[e] \in Timed /\ stage[g] \in Timed
        BY <2>1, <3>2, <3>3 DEF Timed
      <4>2. e \in Active /\ g \in Active
        BY <4>1 DEF Active, Running, Timed
      <4> QED  BY <3>1, <3>2, <3>3, <4>1, <4>2 DEF Serial, Distinct
    <3> HIDE DEF n
    <3> QED  BY <2>3, <3>1, <3>3 DEF Sequential
  <2>5. CASE events' = events
    BY <2>3, <2>5 DEF Sequential, Rows
  <2>6. InsertAlertEvent(g) \/ events' = events
    BY <1>2 DEF Move, Step, BeginEvaluation, Cancel, ListRules, EvaluateRule, NothingListed,
       ReadLatest, AllReported, SendSucceeds, Deliver, Retry, NextTarget, DeliveryFails,
       StoreFails, data
  <2> QED  BY <2>4, <2>5, <2>6
<1>3. (\E e \in Evaluations : Move(e)) \/ UNCHANGED <<events, stage, at, overlapped>>
  BY NextIsOneOf DEF Delete, Upsert, alertVars, own, data
<1> QED  BY <1>1, <1>2, <1>3

\* A rule whose rows did not change has the same latest status.
LEMMA SameRows ==
  ASSUME NEW r, ListAlertEvents(r)' = ListAlertEvents(r)
  PROVE  LatestStatus(r)' = LatestStatus(r)
BY DEF LatestStatus

\* The new row of an evaluation that is alone is the latest of its rule.
LEMMA NewIsLatest ==
  ASSUME Typed, Typed', Serial, Stamped, Sequential,
         NEW e \in Evaluations \ overlapped, InsertAlertEvent(e),
         NEW d, d = delivery[e].rule
  PROVE  /\ LatestStatus(d)' = verdicts[e][d]
         /\ \A r : r # d => LatestStatus(r)' = LatestStatus(r)
         /\ \A v \in ListAlertEvents(d) : v.at < at[e]
<1>1. PICK n : n = Event(e)
  OBVIOUS
<1>2. /\ Rows' = Rows \cup {n} /\ n.by = e /\ n.at = at[e] /\ n.rule = d
      /\ n.status = verdicts[e][d]
  BY <1>1, EventFacts
<1>3. /\ \A r : ListAlertEvents(r) = {v \in Rows : v.rule = r}
      /\ \A r : ListAlertEvents(r)' = {v \in Rows' : v.rule = r}
  <2>1. \A r : ListAlertEvents(r)' = {v \in Rows' : v.rule = r}
    BY DEF ListAlertEvents, Rows
  <2> QED  BY <2>1, RowsFacts
<1>4. /\ n.at \in Nat
      /\ \A v \in Rows : v.rule = d => v.at < n.at /\ v.at \in Nat
  BY NewRow, RowsFacts, <1>1, <1>2
<1>5. ASSUME NEW r, r # d PROVE LatestStatus(r)' = LatestStatus(r)
  <2>1. ListAlertEvents(r)' = ListAlertEvents(r)
    BY <1>2, <1>3, <1>5
  <2> QED  BY <2>1, SameRows
<1>6. LatestStatus(d)' = n.status
  <2>1. PICK rows : rows = ListAlertEvents(d)'
    OBVIOUS
  <2>2. n \in rows /\ \A v \in rows : v = n \/ (v.at < n.at /\ v.at \in Nat)
    BY <1>2, <1>3, <1>4, <2>1
  <2>3. Latest(rows) = n
    BY <1>4, <2>2 DEF Latest
  <2>4. LatestStatus(d)' = IF rows = {} THEN None ELSE Latest(rows).status
    BY <2>1 DEF LatestStatus, Latest
  <2> QED  BY <2>2, <2>3, <2>4
<1> QED  BY <1>2, <1>3, <1>4, <1>5, <1>6

LEMMA CurrentStep ==
  ASSUME Typed, Typed', Serial, Stamped, Sequential, Current, [NextAlerts]_alertVars
  PROVE  Current'
<1> DEFINE Goal(e) ==
      /\ stage'[e] \in {"deliver", "insert"} =>
           \A r : r = delivery'[e].rule => delivery'[e].previous = LatestStatus(r)'
      /\ \A r \in reported'[e] : LatestStatus(r)' = verdicts'[e][r]
<1> SUFFICES ASSUME NEW e \in Evaluations, stage'[e] \in Running, e \notin overlapped'
             PROVE  Goal(e)
  BY DEF Current, Active
<1>1. e \notin overlapped
  BY TableMoves
<1>2. stage[e] \in Running =>
        /\ stage[e] \in {"deliver", "insert"} =>
             delivery[e].previous = LatestStatus(delivery[e].rule)
        /\ \A r \in reported[e] : LatestStatus(r) = verdicts[e][r]
  BY <1>1 DEF Current, Active
<1>3. events' = events => \A r : LatestStatus(r)' = LatestStatus(r)
  <2>1. events' = events => \A r : ListAlertEvents(r)' = ListAlertEvents(r)
    BY DEF ListAlertEvents
  <2> QED  BY <2>1, SameRows
<1>4. CASE /\ stage'[e] = stage[e] /\ delivery'[e] = delivery[e] /\ reported'[e] = reported[e]
           /\ verdicts'[e] = verdicts[e] /\ events' = events
  BY <1>2, <1>3, <1>4
<1>5. ASSUME Move(e) PROVE Goal(e)
  <2>1. Locals /\ Evaluation(e) /\ reported[e] \subseteq DOMAIN verdicts[e]
    BY DEF Typed, Evaluation
  <2>2. CASE BeginEvaluation(e) \/ ListRules(e)
    <3>1. stage[e] \in {"idle", "list"} /\ stage'[e] \in {"list", "evaluate"} /\ reported' = reported
      BY <2>1, <2>2 DEF BeginEvaluation, ListRules, Goto, own, Locals
    <3>2. reported[e] = {}
      BY <2>1, <3>1 DEF Evaluation, Timed
    <3> QED  BY <3>1, <3>2
  <2>3. CASE EvaluateRule(e)
    <3>1. /\ stage[e] = "evaluate" /\ stage'[e] \in {"evaluate", "report"}
          /\ reported' = reported /\ events' = events
      BY <2>1, <2>3 DEF EvaluateRule, Locals, data
    <3>2. \A r \in DOMAIN verdicts[e] : verdicts'[e][r] = verdicts[e][r]
      BY <2>1, <2>3 DEF EvaluateRule, Locals
    <3> QED  BY <1>2, <1>3, <2>1, <3>1, <3>2 DEF Running
  <2>4. CASE NothingListed(e) \/ AllReported(e) \/ StoreFails(e)
    BY <2>1, <2>4 DEF NothingListed, AllReported, StoreFails, Return, Goto, Locals, Running
  <2>5. CASE ReadLatest(e)
    <3>1. /\ stage[e] = "report" /\ events' = events /\ verdicts' = verdicts
      BY <2>5 DEF ReadLatest, data
    <3>2. PICK r \in RuleIds :
            IF Unchanged(e, r)
            THEN /\ reported' = [reported EXCEPT ![e] = @ \cup {r}]
                 /\ UNCHANGED <<stage, delivery>>
            ELSE /\ delivery' = [delivery EXCEPT ![e] =
                      [rule |-> r, previous |-> LatestStatus(r), target |-> 1, attempt |-> 1,
                       outcome |-> IF Targets = <<>> THEN "skipped" ELSE None]]
                 /\ stage' = [stage EXCEPT ![e] = IF Targets = <<>> THEN "insert" ELSE "deliver"]
                 /\ UNCHANGED reported
      BY <2>5 DEF ReadLatest
    <3>3. CASE Unchanged(e, r)
      <4>1. reported'[e] = reported[e] \cup {r} /\ stage'[e] = "report"
        BY <2>1, <3>1, <3>2, <3>3 DEF Locals
      <4>2. LatestStatus(r) = verdicts[e][r]
        BY <3>3 DEF Unchanged
      <4> QED  BY <1>2, <1>3, <3>1, <4>1, <4>2 DEF Running
    <3>4. CASE ~Unchanged(e, r)
      <4>1. /\ delivery'[e].rule = r /\ delivery'[e].previous = LatestStatus(r)
            /\ reported' = reported
        BY <2>1, <3>2, <3>4 DEF Locals
      <4> QED  BY <1>2, <1>3, <3>1, <4>1 DEF Running
    <3> QED  BY <3>3, <3>4
  <2>6. CASE SendSucceeds(e) \/ DeliveryFails(e) \/ Retry(e) \/ NextTarget(e)
    <3>1. /\ stage[e] = "deliver" /\ events' = events /\ verdicts' = verdicts
          /\ reported' = reported
      BY <2>6 DEF SendSucceeds, DeliveryFails, Deliver, Goto, Retry, NextTarget, data
    <3>2. delivery[e] \in Deliveries
      BY <2>1 DEF Evaluation
    <3>3. delivery'[e].rule = delivery[e].rule /\ delivery'[e].previous = delivery[e].previous
      BY <2>1, <2>6, <3>2 DEF SendSucceeds, DeliveryFails, Deliver, Retry, NextTarget,
         Locals, Deliveries
    <3> QED  BY <1>2, <1>3, <3>1, <3>3 DEF Running
  <2>7. CASE InsertAlertEvent(e)
    <3>1. PICK d : d = delivery[e].rule
      OBVIOUS
    <3>2. /\ LatestStatus(d)' = verdicts[e][d]
          /\ \A r : r # d => LatestStatus(r)' = LatestStatus(r)
      BY <1>1, <2>7, <3>1, NewIsLatest
    <3>3. /\ stage[e] = "insert" /\ stage'[e] = "report" /\ verdicts' = verdicts
          /\ reported'[e] = reported[e] \cup {d}
      BY <2>1, <2>7, <3>1 DEF InsertAlertEvent, Goto, Locals
    <3> QED  BY <1>2, <3>2, <3>3 DEF Running
  <2>8. CASE Cancel(e)
    BY <1>4, <2>8 DEF Cancel, own, data
  <2> HIDE DEF Goal
  <2> QED
    BY <1>5, <2>2, <2>3, <2>4, <2>5, <2>6, <2>7, <2>8 DEF Move, Step
<1>6. ASSUME NEW f \in Evaluations \ {e}, Move(f) PROVE Goal(e)
  <2>1. /\ stage'[e] = stage[e] /\ delivery'[e] = delivery[e] /\ reported'[e] = reported[e]
        /\ verdicts'[e] = verdicts[e]
    BY <1>6, OthersKeep DEF Typed
  <2>2. ~InsertAlertEvent(f)
    <3>1. e \in Active
      BY <2>1 DEF Active
    <3>2. InsertAlertEvent(f) => f \in Active
      BY DEF InsertAlertEvent, Goto, Active, Running
    <3> QED  BY <1>1, <3>1, <3>2 DEF Serial
  <2>3. events' = events
    BY <1>6, <2>2 DEF Move, Step, BeginEvaluation, Cancel, ListRules, EvaluateRule,
       NothingListed, ReadLatest, AllReported, SendSucceeds, Deliver, Retry, NextTarget,
       DeliveryFails, StoreFails, data
  <2> QED  BY <1>4, <2>1, <2>3
<1>7. (\E f \in Evaluations : Move(f)) \/ UNCHANGED <<stage, delivery, reported, verdicts, events>>
  BY NextIsOneOf DEF Delete, Upsert, alertVars, own, data
<1> HIDE DEF Goal
<1> QED  BY <1>4, <1>5, <1>6, <1>7

LEMMA TellingStep ==
  ASSUME Typed, Typed', Serial, Stamped, Sequential, Current, Telling, [NextAlerts]_alertVars
  PROVE  Telling'
<1>1. overlapped \subseteq overlapped'
  BY TableMoves
<1>2. CASE events' = events
  <2>1. Rows' = Rows /\ \A v : Before(v)' = Before(v)
    BY <1>2 DEF Rows, Before, ListAlertEvents
  <2> QED  BY <1>1, <2>1 DEF Telling, Tells
<1>3. ASSUME NEW e \in Evaluations, InsertAlertEvent(e) PROVE Telling'
  <2>1. PICK n : n = Event(e)
    OBVIOUS
  <2>2. PICK d : d = delivery[e].rule
    OBVIOUS
  <2>3. /\ Rows' = Rows \cup {n} /\ n.by = e /\ n.at = at[e] /\ n.rule = d
        /\ n.status = verdicts[e][d] /\ n.previous = delivery[e].previous
    BY <1>3, <2>1, <2>2, EventFacts
  <2>4. /\ \A r : ListAlertEvents(r) = {v \in Rows : v.rule = r}
        /\ \A r : ListAlertEvents(r)' = {v \in Rows' : v.rule = r}
    <3>1. \A r : ListAlertEvents(r)' = {v \in Rows' : v.rule = r}
      BY DEF ListAlertEvents, Rows
    <3> QED  BY <3>1, RowsFacts
  <2>5. /\ n.at \in Nat /\ \A v \in Rows : v.at \in Nat
        /\ \A v \in Rows : /\ v.by = e => v.at = n.at
                           /\ v.by # e => v.at < n.at \/ v.by \in overlapped
    BY <1>3, <2>1, NewRow, RowsFacts
  <2>6. \A v : Before(v)' = {w \in ListAlertEvents(v.rule)' : w.at < v.at}
    BY DEF Before
  <2>7. ASSUME NEW v \in Rows, v.by \notin overlapped' PROVE Tells(v)'
    <3>1. ~(n.at < v.at)
      BY <1>1, <2>5, <2>7
    <3>2. Before(v)' = Before(v)
      BY <2>3, <2>4, <2>6, <3>1 DEF Before
    <3> QED  BY <1>1, <2>7, <3>2 DEF Telling, Tells
  <2>8. ASSUME e \notin overlapped' PROVE Tells(n)'
    <3>1. e \notin overlapped
      BY <1>1, <2>8
    <3>2. \A v \in ListAlertEvents(d) : v.at < n.at
      BY <1>3, <2>2, <2>3, <3>1, NewIsLatest
    <3>3. Before(n)' = ListAlertEvents(d)
      <4>1. Before(n)' = {w \in ListAlertEvents(d)' : w.at < n.at}
        BY <2>3, <2>6
      <4>2. ListAlertEvents(d)' = ListAlertEvents(d) \cup {n}
        BY <2>3, <2>4
      <4>3. ~(n.at < n.at)
        BY <2>5
      <4> QED  BY <3>2, <4>1, <4>2, <4>3
    <3>4. stage[e] = "insert"
      BY <1>3 DEF InsertAlertEvent, Goto
    <3>5. delivery[e].previous = LatestStatus(d) /\ delivery[e].previous # verdicts[e][d]
      BY <2>2, <3>1, <3>4 DEF Current, Active, Running, Typed, Evaluation
    <3> QED  BY <2>3, <3>3, <3>5 DEF Tells, LatestStatus
  <2> QED  BY <2>3, <2>7, <2>8 DEF Telling
<1> QED  BY <1>2, <1>3, TableMoves

LEMMA TableInit == InitAlerts => Table
<1> SUFFICES ASSUME InitAlerts PROVE Table
  OBVIOUS
<1>1. Rows = {} /\ Active = {}
  BY DEF InitAlerts, Rows, Active, Running
<1>2. \A e \in Evaluations : stage[e] \notin Timed
  BY DEF InitAlerts, Timed
<1> QED
  BY <1>1, <1>2 DEF Table, Serial, Stamped, Distinct, Sequential, Current, Telling

LEMMA TableStep ==
  ASSUME Typed, Table, [NextAlerts]_alertVars
  PROVE  Table'
BY TypedStep, SerialStep, StampedStep, DistinctStep, SequentialStep, CurrentStep,
   TellingStep DEF Table

\* Only evaluations that overlap report a status twice, whatever the order in
\* which their events are inserted and whatever fails.
THEOREM RepeatsCorrect == SpecAlerts => []RepeatsOverlap
<1>1. ASSUME Typed, Table PROVE RepeatsOverlap
  <2> SUFFICES ASSUME NEW r \in RuleIds, NEW v \in ListAlertEvents(r), NEW w \in ListAlertEvents(r),
                      w.at < v.at, w.status = v.status, v.by \notin overlapped,
                      \A x \in ListAlertEvents(r) : x.at <= w.at \/ v.at <= x.at
               PROVE  FALSE
    BY DEF RepeatsOverlap
  <2>1. ListAlertEvents(r) = {x \in Rows : x.rule = r} /\ \A x \in Rows : x.at \in Nat
    BY <1>1, RowsFacts
  <2>2. w \in Before(v) /\ Before(v) \in SUBSET Rows /\ v \in Rows
    BY <2>1 DEF Before
  <2>3. PICK last : last = Latest(Before(v))
    OBVIOUS
  <2>4. last \in Before(v) /\ w.at <= last.at
    BY <1>1, <2>2, <2>3, LatestIs
  <2>5. last.at < v.at /\ last \in ListAlertEvents(r)
    BY <2>1, <2>4 DEF Before
  <2>6. last.at = w.at
    BY <2>1, <2>4, <2>5
  <2>7. last = w
    BY <1>1, <2>1, <2>5, <2>6 DEF Table, Stamped
  <2>8. v.previous = last.status /\ v.status # v.previous
    BY <1>1, <2>2, <2>3 DEF Table, Telling, Tells
  <2> QED  BY <2>7, <2>8
<1> QED  BY <1>1, TypedInit, TypedStep, TableInit, TableStep, PTL DEF SpecAlerts

\* An evaluation that is alone leaves the table as it found the traces.
THEOREM SettledCorrect == SpecAlerts => SettledWhenAlone
<1>1. ASSUME Typed, Table, NextAlerts, NEW e \in Evaluations \ overlapped,
             stage[e] # "done", stage'[e] = "done"
      PROVE  \A r \in DOMAIN listed[e] : LatestStatus(r) = verdicts[e][r]
  <2>1. Move(e)
    <3>1. ASSUME NEW f \in Evaluations \ {e} PROVE ~Move(f)
      BY <1>1, OthersKeep DEF Typed
    <3>2. stage' # stage
      BY <1>1
    <3> QED  BY <1>1, <3>1, <3>2, NextIsOneOf DEF Delete, Upsert, alertVars
  <2>2. NothingListed(e) \/ AllReported(e)
    BY <1>1, <2>1 DEF Move, BeginEvaluation, Step, Cancel, ListRules, EvaluateRule,
       ReadLatest, SendSucceeds, Deliver, Retry, NextTarget, DeliveryFails,
       InsertAlertEvent, StoreFails, Return, Goto, Typed, Locals
  <2>3. CASE NothingListed(e)
    BY <2>3 DEF NothingListed
  <2>4. CASE AllReported(e)
    <3>1. stage[e] = "report" /\ reported[e] = DOMAIN verdicts[e]
      BY <2>4 DEF AllReported, Return, Goto
    <3>2. DOMAIN verdicts[e] = DOMAIN listed[e]
      BY <1>1, <3>1 DEF Typed, Evaluation
    <3> QED  BY <1>1, <3>1, <3>2 DEF Table, Current, Active, Running
  <2> QED  BY <2>2, <2>3, <2>4
<1>2. Typed /\ Table /\ [NextAlerts]_alertVars
      => [\A e \in Evaluations \ overlapped :
            stage[e] # "done" /\ stage'[e] = "done"
            => \A r \in DOMAIN listed[e] : LatestStatus(r) = verdicts[e][r]]_alertVars
  BY <1>1
<1> QED
  BY <1>2, TypedInit, TypedStep, TableInit, TableStep, PTL DEF SpecAlerts, SettledWhenAlone

-----------------------------------------------------------------------------
(* What the rules promise.                                                 *)

\* Products of natural numbers, as the comparisons of fractions need them.
LEMMA Cancels ==
  ASSUME NEW a \in Nat, NEW b \in Nat, NEW n \in Nat \ {0}, a * n >= b * n
  PROVE  a >= b
OBVIOUS

LEMMA Multiply ==
  ASSUME NEW a \in Nat, NEW b \in Nat, NEW n \in Nat, a >= b
  PROVE  a * n >= b * n
OBVIOUS

LEMMA FractionsTransitive ==
  ASSUME NEW a \in Nat, NEW b \in Nat, NEW c \in Nat,
         NEW p \in Nat \ {0}, NEW q \in Nat \ {0}, NEW r \in Nat \ {0},
         a * q >= b * p, b * r >= c * q
  PROVE  a * r >= c * p
<1>1. (a * q) * r >= (b * p) * r
  BY Multiply
<1>2. (b * r) * p >= (c * q) * p
  BY Multiply
<1>3. (a * r) * q = (a * q) * r /\ (b * p) * r = (b * r) * p /\ (c * q) * p = (c * p) * q
  OBVIOUS
<1>4. PICK x \in Nat : x = a * r
  OBVIOUS
<1>5. PICK y \in Nat : y = c * p
  OBVIOUS
<1>6. x * q >= y * q
  BY <1>1, <1>2, <1>3, <1>4, <1>5
<1> QED  BY <1>4, <1>5, <1>6, Cancels

\* Among finitely many fractions one is the greatest.
LEMMA Greatest ==
  ASSUME NEW S, IsFiniteSet(S), S # {}, NEW E, NEW N,
         \A m \in S : E[m] \in Nat /\ N[m] \in Nat \ {0}
  PROVE  \E m \in S : \A o \in S : E[m] * N[o] >= E[o] * N[m]
<1> DEFINE Has(V) == \E m \in V : \A o \in V : E[m] * N[o] >= E[o] * N[m]
           Bad == {V \in SUBSET S : V # {} /\ ~Has(V)}
<1> SUFFICES ASSUME Bad # {} PROVE FALSE
  OBVIOUS
<1>1. PICK U \in Bad : \A V \in SUBSET U : V # U => V \notin Bad
  <2>1. Bad \in SUBSET SUBSET S
    OBVIOUS
  <2> HIDE DEF Bad
  <2> QED  BY <2>1, Smallest
<1>2. U \in SUBSET S /\ U # {} /\ ~Has(U)
  BY <1>1
<1>3. PICK x \in U : TRUE
  BY <1>2
<1>4. PICK V : V = U \ {x}
  OBVIOUS
<1>5. V \in SUBSET U /\ V # U /\ (V = {} \/ Has(V))
  <2>1. V \in SUBSET U /\ V # U
    BY <1>3, <1>4
  <2>2. V \in SUBSET S /\ V \notin Bad
    BY <1>1, <1>2, <2>1
  <2> HIDE DEF Has
  <2> QED  BY <2>1, <2>2
<1>6. \A y \in U : y = x \/ y \in V
  BY <1>4
<1>7. \A y \in U : E[y] \in Nat /\ N[y] \in Nat \ {0}
  BY <1>2
<1>8. E[x] * N[x] >= E[x] * N[x]
  BY <1>3, <1>7
<1>9. CASE V = {}
  BY <1>2, <1>3, <1>6, <1>8, <1>9
<1>10. CASE Has(V)
  <2>1. PICK m \in V : \A o \in V : E[m] * N[o] >= E[o] * N[m]
    BY <1>10
  <2>2. m \in U
    BY <1>5, <2>1
  <2>3. CASE E[m] * N[x] >= E[x] * N[m]
    <3>1. \A o \in U : E[m] * N[o] >= E[o] * N[m]
      BY <1>6, <2>1, <2>3
    <3> QED  BY <1>2, <2>2, <3>1
  <2>4. CASE ~(E[m] * N[x] >= E[x] * N[m])
    <3>1. E[x] * N[m] >= E[m] * N[x]
      <4>1. PICK y \in Nat : y = E[m] * N[x]
        BY <1>3, <1>7, <2>2
      <4>2. PICK z \in Nat : z = E[x] * N[m]
        BY <1>3, <1>7, <2>2
      <4> QED  BY <2>4, <4>1, <4>2
    <3>2. ASSUME NEW o \in V PROVE E[x] * N[o] >= E[o] * N[x]
      <4>1. /\ E[x] \in Nat /\ N[x] \in Nat \ {0} /\ E[m] \in Nat /\ N[m] \in Nat \ {0}
            /\ E[o] \in Nat /\ N[o] \in Nat \ {0}
        BY <1>3, <1>5, <1>7, <2>2
      <4>2. E[m] * N[o] >= E[o] * N[m]
        BY <2>1
      <4> QED  BY <3>1, <4>1, <4>2, FractionsTransitive
    <3>3. \A o \in U : E[x] * N[o] >= E[o] * N[x]
      BY <1>6, <1>8, <3>2
    <3> QED  BY <1>2, <1>3, <3>3
  <2> QED  BY <2>3, <2>4
<1> QED  BY <1>5, <1>9, <1>10

\* A threshold that a fraction reaches is reached by the greatest one.
LEMMA GreatestReaches ==
  ASSUME NEW a \in Nat, NEW b \in Nat \ {0}, NEW c \in Nat, NEW d \in Nat \ {0}, NEW t \in Nat,
         a * d >= c * b, c * 100 >= t * d
  PROVE  a * 100 >= t * b
<1>1. (a * d) * 100 >= (c * b) * 100
  BY Multiply
<1>2. (c * 100) * b >= (t * d) * b
  BY Multiply
<1>3. /\ (a * d) * 100 = (a * 100) * d /\ (c * b) * 100 = (c * 100) * b
      /\ (t * d) * b = (t * b) * d
  OBVIOUS
<1>4. PICK x \in Nat : x = a * 100
  OBVIOUS
<1>5. PICK y \in Nat : y = t * b
  OBVIOUS
<1>6. x * d >= y * d
  BY <1>1, <1>2, <1>3, <1>4, <1>5
<1> QED  BY <1>4, <1>5, <1>6, Cancels

\* The queries of the store and the engine take the same percentile.
LEMMA SamePercentile ==
  /\ \A n, pct : RowRank(n, pct) = Rank(n, pct)
  /\ \A ts, pct : LatencyPercentile(ts, pct) = Percentile(ts, pct)
<1>1. \A n, pct : RowRank(n, pct) = Rank(n, pct)
  BY DEF RowRank, Rank
<1>2. ASSUME NEW ts, NEW pct PROVE LatencyPercentile(ts, pct) = Percentile(ts, pct)
  BY <1>1 DEF LatencyPercentile, Percentile
<1> QED  BY <1>1, <1>2

\* A latency rule of one method: a percentile at the threshold or above is one
\* that too few calls stay below.
LEMMA LatencyBreaches ==
  ASSUME NEW rule \in RuleForms, rule.type = "latency_p95",
         NEW ts \in SUBSET TraceForms, IsFiniteSet(ts), ts # {}
  PROVE  Breaches(rule, ts) <=> RowBreaches(rule, ts)
<1> DEFINE below == {s \in ts : s.latency < rule.threshold}
<1>1. PICK t \in Int : t = rule.threshold
  OBVIOUS
<1>2. \A s \in ts : s.latency \in Int
  OBVIOUS
<1>3. PICK n \in Nat \ {0} : n = Cardinality(ts)
  BY FS_CardinalityType, FS_EmptySet
<1>4. PICK c \in Nat : c = Cardinality(below)
  BY FS_Subset, FS_CardinalityType
<1>5. below = {s \in ts : s.latency <= t - 1}
  BY <1>1, <1>2
<1>6. /\ LatencyPercentile(ts, 95) \in Int
      /\ (LatencyPercentile(ts, 95) <= t - 1) <=> (c >= RowRank(n, 95))
  <2>1. 95 \in 1 .. 100 /\ t - 1 \in Int
    OBVIOUS
  <2>2. /\ LatencyPercentile(ts, 95) \in Int
        /\ (LatencyPercentile(ts, 95) <= t - 1)
             <=> (Cardinality({s \in ts : s.latency <= t - 1}) >= RowRank(Cardinality(ts), 95))
    BY <1>2, <2>1, PercentileMeans, SamePercentile
  <2> HIDE DEF below
  <2> QED  BY <1>3, <1>4, <1>5, <2>2
<1>7. /\ RowRank(n, 95) \in Int
      /\ 100 * RowRank(n, 95) >= n * 95 /\ 100 * RowRank(n, 95) < n * 95 + 100
  BY RankRounds, SamePercentile
<1>8. (c >= RowRank(n, 95)) <=> ~(c * 100 < 95 * n)
  BY <1>7
<1>9. Breaches(rule, ts) <=> LatencyPercentile(ts, 95) >= t
  BY <1>1 DEF Breaches
<1>10. RowBreaches(rule, ts) <=> c * 100 < 95 * n
  BY <1>3, <1>4 DEF RowBreaches
<1> QED  BY <1>6, <1>8, <1>9, <1>10

\* What a row holds.
LEMMA RowFacts ==
  ASSUME NEW rule \in RuleForms, NEW ts \in SUBSET TraceForms, IsFiniteSet(ts), ts # {}
  PROVE  /\ RowKeys(rule, ts) # {} /\ IsFiniteSet(RowKeys(rule, ts))
         /\ RowKeys(rule, ts) \in SUBSET (Nat \X Nat \X Nat)
         /\ \A row \in RowKeys(rule, ts) :
              /\ OfRow(rule, ts, row) \in SUBSET TraceForms
              /\ IsFiniteSet(OfRow(rule, ts, row)) /\ OfRow(rule, ts, row) # {}
              /\ Cardinality(Errors(OfRow(rule, ts, row))) \in Nat
              /\ Cardinality(OfRow(rule, ts, row)) \in Nat \ {0}
<1> DEFINE R == RowKeys(rule, ts)
           f == [s \in ts |-> RowKey(rule, s)]
<1>1. IsFiniteSet(R) /\ R # {}
  <2>1. f \in Surjection(ts, R)
    BY DEF Surjection, RowKeys
  <2>2. R # {}
    BY DEF RowKeys
  <2> HIDE DEF f, R
  <2> QED  BY <2>1, <2>2, FS_Surjection
<1>2. R \in SUBSET (Nat \X Nat \X Nat)
  <2>1. ASSUME NEW s \in ts PROVE RowKey(rule, s) \in Nat \X Nat \X Nat
    <3>1. s.server \in Nat /\ s.name \in Nat /\ s.method \in Nat
      OBVIOUS
    <3> QED  BY <3>1 DEF RowKey
  <2> QED  BY <2>1 DEF RowKeys
<1>3. ASSUME NEW row \in R
      PROVE  /\ OfRow(rule, ts, row) \in SUBSET TraceForms
             /\ IsFiniteSet(OfRow(rule, ts, row)) /\ OfRow(rule, ts, row) # {}
             /\ Cardinality(Errors(OfRow(rule, ts, row))) \in Nat
             /\ Cardinality(OfRow(rule, ts, row)) \in Nat \ {0}
  <2>1. OfRow(rule, ts, row) # {}
    BY DEF OfRow, RowKeys
  <2>2. OfRow(rule, ts, row) \in SUBSET ts /\ Errors(OfRow(rule, ts, row)) \in SUBSET ts
    BY DEF OfRow, Errors
  <2>3. IsFiniteSet(OfRow(rule, ts, row)) /\ IsFiniteSet(Errors(OfRow(rule, ts, row)))
    BY <2>2, FS_Subset
  <2>4. OfRow(rule, ts, row) \in SUBSET TraceForms
    BY <2>2
  <2> QED  BY <2>1, <2>3, <2>4, FS_CardinalityType, FS_EmptySet
<1> QED  BY <1>1, <1>2, <1>3

\* Among the rows about errors there is one that no other outdoes.
LEMMA WorstExists ==
  ASSUME NEW rule \in RuleForms, NEW ts \in SUBSET TraceForms, IsFiniteSet(ts), ts # {}
  PROVE  \E row \in RowKeys(rule, ts) : WorstRow(rule, ts, row)
<1> DEFINE R == RowKeys(rule, ts)
           E == [row \in R |-> Cardinality(Errors(OfRow(rule, ts, row)))]
           N == [row \in R |-> Cardinality(OfRow(rule, ts, row))]
<1>1. \A row \in R : E[row] \in Nat /\ N[row] \in Nat \ {0}
  BY RowFacts
<1>2. \E row \in R : \A o \in R : E[row] * N[o] >= E[o] * N[row]
  <2>1. R # {} /\ IsFiniteSet(R)
    BY RowFacts
  <2> HIDE DEF R, E, N
  <2> QED  BY <1>1, <2>1, Greatest
<1> QED  BY <1>2 DEF WorstRow

\* Among finitely many rows one has the least component.
LEMMA LeastAt ==
  ASSUME NEW R \in SUBSET (Nat \X Nat \X Nat), IsFiniteSet(R), R # {}, NEW i \in 1 .. 3
  PROVE  \E row \in R : \A other \in R : row[i] <= other[i]
<1> DEFINE C == {row[i] : row \in R}
           f == [row \in R |-> row[i]]
<1>1. f \in Surjection(R, C) /\ C # {} /\ C \in SUBSET Int
  BY DEF Surjection
<1>2. IsFiniteSet(C)
  <2> HIDE DEF f, C
  <2> QED  BY <1>1, FS_Surjection
<1>3. PICK n \in C : \A k \in C : n <= k
  <2> HIDE DEF C
  <2> QED  BY <1>1, <1>2, Extremes
<1> QED  BY <1>3

\* Among the rows about latency there is a first one.
LEMMA FirstExists ==
  ASSUME NEW R \in SUBSET (Nat \X Nat \X Nat), IsFiniteSet(R), R # {}
  PROVE  \E row \in R : \A other \in R \ {row} : Precedes(row, other)
<1>1. \A r \in R : r = <<r[1], r[2], r[3]>> /\ r[1] \in Nat /\ r[2] \in Nat /\ r[3] \in Nat
  OBVIOUS
<1>2. PICK a \in R : \A r \in R : a[1] <= r[1]
  BY LeastAt
<1>3. PICK b \in R : b[1] = a[1] /\ \A r \in R : r[1] = a[1] => b[2] <= r[2]
  <2>1. PICK S \in SUBSET R : S = {r \in R : r[1] = a[1]}
    OBVIOUS
  <2>2. IsFiniteSet(S) /\ S # {} /\ S \in SUBSET (Nat \X Nat \X Nat)
    BY <2>1, FS_Subset
  <2>3. PICK b \in S : \A r \in S : b[2] <= r[2]
    BY <2>2, LeastAt
  <2> QED  BY <2>1, <2>3
<1>4. PICK c \in R : /\ c[1] = a[1] /\ c[2] = b[2]
                     /\ \A r \in R : r[1] = a[1] /\ r[2] = b[2] => c[3] <= r[3]
  <2>1. PICK S \in SUBSET R : S = {r \in R : r[1] = a[1] /\ r[2] = b[2]}
    OBVIOUS
  <2>2. IsFiniteSet(S) /\ S # {} /\ S \in SUBSET (Nat \X Nat \X Nat)
    BY <1>3, <2>1, FS_Subset
  <2>3. PICK c \in S : \A r \in S : c[3] <= r[3]
    BY <2>2, LeastAt
  <2> QED  BY <2>1, <2>3
<1>5. ASSUME NEW r \in R \ {c} PROVE Precedes(c, r)
  <2>1. /\ a[1] <= r[1] /\ (r[1] = a[1] => b[2] <= r[2])
        /\ (r[1] = a[1] /\ r[2] = b[2] => c[3] <= r[3])
    BY <1>2, <1>3, <1>4
  <2>2. c[1] # r[1] \/ c[2] # r[2] \/ c[3] # r[3]
    BY <1>1
  <2>3. /\ c[1] \in Nat /\ c[2] \in Nat /\ c[3] \in Nat
        /\ r[1] \in Nat /\ r[2] \in Nat /\ r[3] \in Nat
    BY <1>1
  <2> QED  BY <1>4, <2>1, <2>2, <2>3 DEF Precedes
<1> QED  BY <1>5

\* The first row is a row, and about errors one that no other outdoes.
LEMMA LeadingIs ==
  ASSUME NEW rule \in RuleForms, NEW ts \in SUBSET TraceForms, IsFiniteSet(ts), ts # {}
  PROVE  /\ LeadingRow(rule, ts) \in RowKeys(rule, ts)
         /\ rule.type = "error_rate" => WorstRow(rule, ts, LeadingRow(rule, ts))
<1>1. CASE rule.type = "error_rate"
  <2>1. PICK row \in RowKeys(rule, ts) : WorstRow(rule, ts, row)
    BY WorstExists
  <2>2. LeadingRow(rule, ts) = CHOOSE x \in RowKeys(rule, ts) : WorstRow(rule, ts, x)
    BY <1>1 DEF LeadingRow
  <2> QED  BY <2>1, <2>2
<1>2. CASE rule.type # "error_rate"
  <2>1. PICK row \in RowKeys(rule, ts) : \A other \in RowKeys(rule, ts) \ {row} : Precedes(row, other)
    BY RowFacts, FirstExists
  <2>2. LeadingRow(rule, ts)
          = CHOOSE x \in RowKeys(rule, ts) : \A other \in RowKeys(rule, ts) \ {x} : Precedes(x, other)
    BY <1>2 DEF LeadingRow
  <2> QED  BY <1>2, <2>1, <2>2
<1> QED  BY <1>1, <1>2

\* A rule about errors fires for the worst row if it would for any.
LEMMA WorstBreaches ==
  ASSUME NEW rule \in RuleForms, NEW ts \in SUBSET TraceForms, IsFiniteSet(ts), ts # {},
         NEW t \in Nat,
         NEW worst \in RowKeys(rule, ts), WorstRow(rule, ts, worst),
         NEW row \in RowKeys(rule, ts), ErrorsBreach(OfRow(rule, ts, row), t)
  PROVE  ErrorsBreach(OfRow(rule, ts, worst), t)
<1>1. PICK a \in Nat : a = Cardinality(Errors(OfRow(rule, ts, worst)))
  BY RowFacts
<1>2. PICK b \in Nat \ {0} : b = Cardinality(OfRow(rule, ts, worst))
  BY RowFacts
<1>3. PICK c \in Nat : c = Cardinality(Errors(OfRow(rule, ts, row)))
  BY RowFacts
<1>4. PICK d \in Nat \ {0} : d = Cardinality(OfRow(rule, ts, row))
  BY RowFacts
<1>5. a * d >= c * b
  BY <1>1, <1>2, <1>3, <1>4 DEF WorstRow
<1>6. c * 100 >= t * d
  BY <1>3, <1>4 DEF ErrorsBreach
<1>7. a * 100 >= t * b
  BY <1>5, <1>6, GreatestReaches
<1> QED  BY <1>1, <1>2, <1>7 DEF ErrorsBreach

\* What the first row says is what the promise says of that row.
LEMMA RowMeans ==
  ASSUME NEW rule \in RuleForms, ValidRule(rule),
         NEW ts \in SUBSET TraceForms, IsFiniteSet(ts), ts # {}
  PROVE  Breaches(rule, ts) <=> RowBreaches(rule, ts)
<1>1. CASE rule.type = "error_rate"
  BY <1>1 DEF Breaches, RowBreaches
<1>2. CASE rule.type = "latency_p95"
  BY <1>2, LatencyBreaches
<1> QED  BY <1>1, <1>2 DEF ValidRule

\* A rule that fires does so rightly, and the status of a rule that one row
\* decides is the promised one.
LEMMA StatusMeans ==
  ASSUME NEW rule \in RuleForms, ValidRule(rule), NEW ts \in SUBSET TraceForms, IsFiniteSet(ts)
  PROVE  /\ Status(rule, ts) = "firing" => Promised(rule, ts) = "firing"
         /\ Decisive(rule, ts) => Status(rule, ts) = Promised(rule, ts)
<1>1. PICK counted : counted = Counted(rule, ts)
  OBVIOUS
<1>2. counted \in SUBSET TraceForms /\ IsFiniteSet(counted)
  <2>1. counted \in SUBSET ts
    BY <1>1 DEF Counted, Selected
  <2> QED  BY <2>1, FS_Subset
<1>3. rule.type \in {"error_rate", "latency_p95"} /\ rule.threshold \in Nat
  BY DEF ValidRule
<1>4. CASE counted = {}
  BY <1>1, <1>4 DEF Status, Promised, FirstRow
<1>5. CASE counted # {}
  <2>1. PICK lead \in RowKeys(rule, counted) :
          /\ FirstRow(rule, ts) = OfRow(rule, counted, lead)
          /\ rule.type = "error_rate" => WorstRow(rule, counted, lead)
    BY <1>1, <1>2, <1>5, LeadingIs DEF FirstRow
  <2>2. \A row \in RowKeys(rule, counted) :
          /\ OfRow(rule, counted, row) # {}
          /\ Breaches(rule, OfRow(rule, counted, row))
               <=> RowBreaches(rule, OfRow(rule, counted, row))
    BY <1>2, <1>5, RowFacts, RowMeans
  <2>3. Status(rule, ts) = IF ~rule.enabled THEN "disabled"
          ELSE IF RowBreaches(rule, OfRow(rule, counted, lead)) THEN "firing" ELSE "ok"
    BY <2>1, <2>2 DEF Status
  <2>4. Promised(rule, ts) = IF ~rule.enabled THEN "disabled"
          ELSE IF \E row \in RowKeys(rule, counted) : RowBreaches(rule, OfRow(rule, counted, row))
               THEN "firing" ELSE "ok"
    BY <1>1, <1>5 DEF Promised
  <2>5. ASSUME Decisive(rule, ts), NEW row \in RowKeys(rule, counted),
               RowBreaches(rule, OfRow(rule, counted, row))
        PROVE  RowBreaches(rule, OfRow(rule, counted, lead))
    <3>1. CASE rule.type = "error_rate"
      <4>1. ErrorsBreach(OfRow(rule, counted, row), rule.threshold)
        BY <2>5, <3>1 DEF RowBreaches
      <4>2. ErrorsBreach(OfRow(rule, counted, lead), rule.threshold)
        BY <1>2, <1>3, <1>5, <2>1, <3>1, <4>1, WorstBreaches
      <4> QED  BY <3>1, <4>2 DEF RowBreaches
    <3>2. CASE rule.type # "error_rate"
      BY <1>1, <2>5, <3>2 DEF Decisive
    <3> QED  BY <3>1, <3>2
  <2> QED  BY <2>3, <2>4, <2>5
<1> QED  BY <1>4, <1>5

\* No rule fires without reason, and what the dashboard is told of a rule that
\* one row decides is what the rule promises, whatever the traces of the window.
THEOREM EvaluationsRight == SpecAlerts => []EvaluationsCorrect
<1>1. ASSUME Typed PROVE EvaluationsCorrect
  <2> SUFFICES ASSUME NEW r \in DOMAIN alertRules
               PROVE  /\ Evaluated[r] = "firing" => Promised(alertRules[r], recent) = "firing"
                      /\ Decisive(alertRules[r], recent)
                           => Evaluated[r] = Promised(alertRules[r], recent)
    BY DEF EvaluationsCorrect
  <2>1. /\ alertRules[r] \in RuleForms /\ ValidRule(alertRules[r])
        /\ recent \in SUBSET TraceForms /\ IsFiniteSet(recent)
    BY <1>1 DEF Typed
  <2>2. Evaluated[r] = Status(alertRules[r], recent)
    BY DEF Evaluated
  <2> QED  BY <2>1, <2>2, StatusMeans
<1> QED  BY <1>1, TypedInit, TypedStep, PTL DEF SpecAlerts
=============================================================================
