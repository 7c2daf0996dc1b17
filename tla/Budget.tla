------------------------------- MODULE Budget -------------------------------
(***************************************************************************)
(* Per-team budgets: internal/budget (Manager.CheckAndReserve and          *)
(* RecordTokens), the budgets table of internal/store, and the calls that  *)
(* internal/proxy makes around every request.                              *)
(*                                                                         *)
(* Each proxy worker builds its own Manager, hence its own mutex, over the *)
(* one SQLite file that it shares with the other workers of its process    *)
(* and with other mcpscope processes.  Every call to the store is a step   *)
(* of its own: the mutex only excludes the requests of the same worker.    *)
(***************************************************************************)
EXTENDS Naturals, FiniteSets, FiniteSetsExt

CONSTANTS
  Managers,    \* budget managers: one per proxy worker
  Stdio,       \* the workers that speak stdio; the others speak HTTP
  Requests,    \* the JSON-RPC requests of a run, each with its goroutine
  Teams,       \* the teams that have budgets
  Default,     \* the team "default"
  ManagerOf,   \* the worker each request is sent to
  TeamOf,      \* the team each request is resolved to
  TokensOf,    \* the token count its response carries (0: none)
  CallLimit,   \* calls_per_hour and calls_per_day of every team; 0 is no limit
  TokenLimit,  \* tokens_per_day of every team; 0 is no limit
  HoursPerDay, \* hours in a day
  MaxHour,     \* the clock stops at this hour
  MaxResets,   \* bound on the number of rows that are reset
  Faults,      \* the disturbances of a run: "store", "crash", "reset"
  None         \* no lock holder

WindowTypes == {"hour", "day"}
Hours == 0 .. MaxHour

ASSUME BudgetAssumption ==
  /\ IsFiniteSet(Managers) /\ Managers # {}
  /\ None \notin Requests
  /\ Default \in Teams
  /\ ManagerOf \in [Requests -> Managers]
  /\ TeamOf \in [Requests -> Teams]
  /\ TokensOf \in [Requests -> Nat]
  /\ CallLimit \in [Teams -> [WindowTypes -> Nat]]
  /\ TokenLimit \in [Teams -> Nat]
  /\ HoursPerDay \in Nat \ {0}
  /\ MaxHour \in Nat
  /\ MaxResets \in Nat

VARIABLES
  now,     \* the wall clock, in hours
  calls,   \* the call_count column of the budgets table
  tokens,  \* the token_count column
  lock,    \* the request that holds each manager's mutex, or None
  pc,      \* where each request is
  at,      \* receivedAt of each request
  bill,    \* TeamID and CreatedAt of the trace that each response has made
  charged, \* history: the columns each request has incremented
  failed,  \* history: requests that had a store error in CheckAndReserve
  cleared  \* history: the rows that were reset

table   == <<calls, tokens, cleared>>
history == <<charged, failed>>
clocks  == <<now, at, bill>>
vars == <<now, calls, tokens, lock, pc, at, bill, charged, failed, cleared>>

-----------------------------------------------------------------------------
(* Windows and rows of the budgets table.                                  *)

\* WindowStart truncates a time to the hour or to the day.
WindowStart(h, typ) == IF typ = "hour" THEN h ELSE h - (h % HoursPerDay)

\* A row of the table; a row that is absent reads as zero.
Slots == Teams \X WindowTypes \X Hours

Row(team, h, typ) == <<team, typ, WindowStart(h, typ)>>

\* The row of a call is that of its own team and time of reception, the row of
\* its tokens that of the trace they came in.
Slot(r, typ) == Row(TeamOf[r], at[r], typ)
TokenSlot(r, typ) == Row(bill[r].team, bill[r].at, typ)

LimitOf(s) == CallLimit[s[1]][s[2]]

-----------------------------------------------------------------------------
(* Where a request can be.  Critical: it holds the mutex of its manager.   *)

Checking == {"checkHour", "checkDay", "checkTokens"}
Charging == {"chargeHour", "chargeDay"}
Recording == {"tokensHour", "tokensDay"}
Critical == Checking \cup Charging \cup Recording
Ended == {"blocked", "done", "lost"}
Active == Critical \cup {"reading", "waiting", "admitted", "forwarded", "answered"}
Places == Active \cup Ended \cup {"idle"}

Init ==
  /\ now = 0
  /\ calls = [s \in Slots |-> 0]
  /\ tokens = [s \in Slots |-> 0]
  /\ lock = [m \in Managers |-> None]
  /\ pc = [r \in Requests |-> "idle"]
  /\ at = [r \in Requests |-> 0]
  /\ bill = [r \in Requests |-> [team |-> TeamOf[r], at |-> 0]]
  /\ charged = [r \in Requests |-> {}]
  /\ failed = {}
  /\ cleared = {}

Goto(r, from, to) == pc[r] = from /\ pc' = [pc EXCEPT ![r] = to]
Unlock(r) == lock' = [lock EXCEPT ![ManagerOf[r]] = None]

-----------------------------------------------------------------------------
(* Reception.  An HTTP request has a goroutine of its own, and its clock is *)
(* read when its body has come.  The stdio forwarder handles one request    *)
(* after the other, and reads the clock before it blocks in readFrame.      *)

AtForwarder == {"reading", "waiting", "admitted"} \cup Checking \cup Charging

ReadClock(r) ==
  /\ \/ /\ ManagerOf[r] \notin Stdio
        /\ Goto(r, "idle", "waiting")
     \/ /\ ManagerOf[r] \in Stdio
        /\ \A q \in Requests : ManagerOf[q] = ManagerOf[r] => pc[q] \notin AtForwarder
        /\ Goto(r, "idle", "reading")
  /\ at' = [at EXCEPT ![r] = now]
  /\ UNCHANGED <<now, bill, table, lock, history>>

ReadFrame(r) ==
  /\ Goto(r, "reading", "waiting")
  /\ UNCHANGED <<clocks, table, lock, history>>

-----------------------------------------------------------------------------
(* CheckAndReserve.                                                        *)

\* Mutant: the mutex is not taken.
LockMutant(r, from, to) ==
  /\ Goto(r, from, to)
  /\ UNCHANGED <<clocks, table, lock, history>>

Lock(r, from, to) ==
  /\ Goto(r, from, to)
  /\ lock[ManagerOf[r]] = None
  /\ lock' = [lock EXCEPT ![ManagerOf[r]] = r]
  /\ UNCHANGED <<clocks, table, history>>

\* Mutant: the call being checked is not counted.
ExhaustedMutant(r, typ) ==
  LET limit == CallLimit[TeamOf[r]][typ]
  IN  limit > 0 /\ calls[Slot(r, typ)] > limit

Exhausted(r, typ) ==
  LET limit == CallLimit[TeamOf[r]][typ]
  IN  limit > 0 /\ calls[Slot(r, typ)] + 1 > limit

TokensExhausted(r) ==
  LET limit == TokenLimit[TeamOf[r]]
  IN  limit > 0 /\ tokens[Slot(r, "day")] >= limit

CheckHour(r) ==
  /\ Goto(r, "checkHour", "checkDay")
  /\ ~Exhausted(r, "hour")
  /\ UNCHANGED <<clocks, table, lock, history>>

CheckDay(r) ==
  /\ Goto(r, "checkDay", "checkTokens")
  /\ ~Exhausted(r, "day")
  /\ UNCHANGED <<clocks, table, lock, history>>

CheckTokens(r) ==
  /\ Goto(r, "checkTokens", "chargeHour")
  /\ ~TokensExhausted(r)
  /\ UNCHANGED <<clocks, table, lock, history>>

\* Mutant: the early return of a blocked request keeps the mutex.
BlockMutant(r) ==
  /\ \/ Goto(r, "checkHour", "blocked") /\ Exhausted(r, "hour")
     \/ Goto(r, "checkDay", "blocked") /\ Exhausted(r, "day")
     \/ Goto(r, "checkTokens", "blocked") /\ TokensExhausted(r)
  /\ UNCHANGED <<clocks, table, lock, history>>

\* A window is full: the request is answered with an error, not forwarded.
Block(r) ==
  /\ \/ Goto(r, "checkHour", "blocked") /\ Exhausted(r, "hour")
     \/ Goto(r, "checkDay", "blocked") /\ Exhausted(r, "day")
     \/ Goto(r, "checkTokens", "blocked") /\ TokensExhausted(r)
  /\ Unlock(r)
  /\ UNCHANGED <<clocks, table, history>>

\* IncrementBudgetUsage adds one call to the row of the request's window.
AddCall(r, typ) ==
  /\ calls' = [calls EXCEPT ![Slot(r, typ)] = @ + 1]
  /\ charged' = [charged EXCEPT ![r] = @ \cup {<<"calls", typ>>}]

\* Mutant: the first increment already names the day.
ChargeHourMutant(r) ==
  /\ Goto(r, "chargeHour", "chargeDay")
  /\ AddCall(r, "day")
  /\ UNCHANGED <<clocks, tokens, cleared, lock, failed>>

ChargeHour(r) ==
  /\ Goto(r, "chargeHour", "chargeDay")
  /\ AddCall(r, "hour")
  /\ UNCHANGED <<clocks, tokens, cleared, lock, failed>>

ChargeDay(r) ==
  /\ Goto(r, "chargeDay", "admitted")
  /\ AddCall(r, "day")
  /\ Unlock(r)
  /\ UNCHANGED <<clocks, tokens, cleared, failed>>

\* The steps of CheckAndReserve that call the store.
AtStore(r) ==
  \/ pc[r] = "checkHour" /\ CallLimit[TeamOf[r]]["hour"] > 0
  \/ pc[r] = "checkDay" /\ CallLimit[TeamOf[r]]["day"] > 0
  \/ pc[r] = "checkTokens" /\ TokenLimit[TeamOf[r]] > 0
  \/ pc[r] \in Charging

\* A store call fails: what was charged stays, and since the callers of
\* maybeBlockBudgetedRequest look at its error only when the request was
\* handled, the request is forwarded.
StoreError(r) ==
  /\ "store" \in Faults
  /\ AtStore(r)
  /\ Goto(r, pc[r], "admitted")
  /\ Unlock(r)
  /\ failed' = failed \cup {r}
  /\ UNCHANGED <<clocks, table, charged>>

-----------------------------------------------------------------------------
(* The request goes to the server; its response is captured and its tokens *)
(* are charged to the team and time of the trace it makes.                 *)

Forward(r) ==
  /\ Goto(r, "admitted", "forwarded")
  /\ UNCHANGED <<clocks, table, lock, history>>

\* The trace of a matched response has the team and the time of the call it was
\* matched with: its own, or, when ids clash, another call that this worker
\* has forwarded.  (Which of them is the pairing's doing.)
Matched(r) ==
  {[team |-> TeamOf[q], at |-> at[q]] : q \in
     {p \in Requests : /\ ManagerOf[p] = ManagerOf[r]
                       /\ pc[p] \in {"forwarded", "answered", "done"} \cup Recording}}

\* That of an unmatched one has the time at which the response was received
\* and the handler's team; the stdio forwarder has none for a server's frame,
\* and reads the clock before it blocks in readFrame.
Unmatched(r) ==
  IF ManagerOf[r] \in Stdio
  THEN [team : {Default}, at : 0 .. now]
  ELSE [team : {TeamOf[r]}, at : at[r] .. now]

\* The response carries tokens: captureAndPersist calls RecordTokens.
Answer(r) ==
  /\ Goto(r, "forwarded", "answered")
  /\ TokensOf[r] > 0
  /\ \E b \in Matched(r) \cup Unmatched(r) : bill' = [bill EXCEPT ![r] = b]
  /\ UNCHANGED <<clocks, table, lock, history>>

\* captureAndPersist does not reach the budget: no tokens in the response, an
\* error while its trace is logged or persisted, or no response to capture.
AnswerUncounted(r) ==
  /\ Goto(r, "forwarded", "done")
  /\ UNCHANGED <<clocks, table, lock, history>>

\* Mutant: the row is that of the request, not that of the trace.
AddTokensMutant(r, typ) ==
  /\ tokens' = [tokens EXCEPT ![Slot(r, typ)] = @ + TokensOf[r]]
  /\ charged' = [charged EXCEPT ![r] = @ \cup {<<"tokens", typ>>}]

AddTokens(r, typ) ==
  /\ tokens' = [tokens EXCEPT ![TokenSlot(r, typ)] = @ + TokensOf[r]]
  /\ charged' = [charged EXCEPT ![r] = @ \cup {<<"tokens", typ>>}]

RecordHour(r) ==
  /\ Goto(r, "tokensHour", "tokensDay")
  /\ AddTokens(r, "hour")
  /\ UNCHANGED <<clocks, calls, cleared, lock, failed>>

RecordDay(r) ==
  /\ Goto(r, "tokensDay", "done")
  /\ AddTokens(r, "day")
  /\ Unlock(r)
  /\ UNCHANGED <<clocks, calls, cleared, failed>>

\* The error is logged and the tokens stay uncounted.
RecordError(r) ==
  /\ "store" \in Faults
  /\ pc[r] \in Recording
  /\ Goto(r, pc[r], "done")
  /\ Unlock(r)
  /\ UNCHANGED <<clocks, table, history>>

-----------------------------------------------------------------------------
(* The environment.                                                        *)

\* Mutant: a reset takes back one call.
ResetMutant(t, typ) ==
  LET s == Row(t, now, typ) IN
  /\ "reset" \in Faults
  /\ calls[s] > 0
  /\ calls' = [calls EXCEPT ![s] = @ - 1]
  /\ UNCHANGED <<clocks, tokens, cleared, lock, pc, history>>

\* `mcpscope budget reset` is another process with a mutex of its own: it
\* deletes the row of the current window whatever the workers are doing.
Reset(t, typ) ==
  LET s == Row(t, now, typ) IN
  /\ "reset" \in Faults
  /\ Cardinality(cleared \cup {s}) <= MaxResets
  /\ calls' = [calls EXCEPT ![s] = 0]
  /\ tokens' = [tokens EXCEPT ![s] = 0]
  /\ cleared' = cleared \cup {s}
  /\ UNCHANGED <<clocks, lock, pc, history>>

\* A worker dies: its requests are lost, the table is not.
Crash(m) ==
  LET dying == {r \in Requests : ManagerOf[r] = m /\ pc[r] \in Active} IN
  /\ "crash" \in Faults
  /\ dying # {}
  /\ pc' = [r \in Requests |-> IF r \in dying THEN "lost" ELSE pc[r]]
  /\ lock' = [lock EXCEPT ![m] = None]
  /\ UNCHANGED <<clocks, table, history>>

Tick ==
  /\ now < MaxHour
  /\ now' = now + 1
  /\ UNCHANGED <<table, lock, pc, at, bill, history>>

-----------------------------------------------------------------------------
(* What a request does while it holds the mutex.                           *)
Inside(r) ==
  \/ CheckHour(r) \/ CheckDay(r) \/ CheckTokens(r) \/ Block(r)
  \/ ChargeHour(r) \/ ChargeDay(r) \/ StoreError(r)
  \/ RecordHour(r) \/ RecordDay(r) \/ RecordError(r)

LockToCheck(r) == Lock(r, "waiting", "checkHour")
LockToRecord(r) == Lock(r, "answered", "tokensHour")

Step(r) ==
  \/ ReadClock(r) \/ ReadFrame(r) \/ LockToCheck(r) \/ LockToRecord(r)
  \/ Inside(r) \/ Forward(r) \/ Answer(r) \/ AnswerUncounted(r)

Next ==
  \/ \E r \in Requests : Step(r)
  \/ \E t \in Teams, typ \in WindowTypes : Reset(t, typ)
  \/ \E m \in Managers : Crash(m)
  \/ Tick

Spec == Init /\ [][Next]_vars

\* A goroutine that can run does run.  Weak fairness is enough for the mutex:
\* sync.Mutex never starves a waiter, and a run has finitely many requests.
\* Nothing obliges a client to send, a server to answer or the clock to move.
Fairness ==
  \A r \in Requests :
    /\ WF_vars(Inside(r))
    /\ WF_vars(LockToCheck(r))
    /\ WF_vars(LockToRecord(r))

FairSpec == Spec /\ Fairness

-----------------------------------------------------------------------------
(* Properties.                                                             *)

\* Every variable has its type.
TypeOK ==
  /\ now \in Hours
  /\ calls \in [Slots -> Nat]
  /\ tokens \in [Slots -> Nat]
  /\ lock \in [Managers -> Requests \cup {None}]
  /\ pc \in [Requests -> Places]
  /\ at \in [Requests -> Hours]
  /\ bill \in [Requests -> [team : Teams, at : Hours]]
  /\ charged \in [Requests -> SUBSET ({"calls", "tokens"} \X WindowTypes)]
  /\ failed \subseteq Requests
  /\ cleared \subseteq Slots

\* A mutex excludes: the requests inside CheckAndReserve or RecordTokens are
\* the ones that hold the mutex of their manager, whatever path they left by.
MutexHeld ==
  \A m \in Managers, r \in Requests :
    (lock[m] = r) <=> (ManagerOf[r] = m /\ pc[r] \in Critical)

\* The call count of a limited window never passes its limit, whatever store
\* errors, resets and crashes happen on the way: the docs' "enforce hourly and
\* daily limits before forwarding a request".
CallLimitHeld ==
  \A s \in Slots : LimitOf(s) > 0 => calls[s] <= LimitOf(s)

\* With several workers the check and the increment of one can be split by
\* those of another; a limit can be passed by at most one call per extra worker.
Overshoot == Cardinality(Managers) - 1
OvershootBounded ==
  \A s \in Slots : LimitOf(s) > 0 => calls[s] <= LimitOf(s) + Overshoot

\* r has found room in row s and has not yet incremented it.
Entitled(r, s) ==
  \/ s = Slot(r, "hour") /\ pc[r] \in {"checkDay", "checkTokens", "chargeHour"}
  \/ s = Slot(r, "day") /\ pc[r] \in {"checkTokens", "chargeHour", "chargeDay"}

EntitledManagers(s) ==
  {m \in Managers : \E r \in Requests : ManagerOf[r] = m /\ Entitled(r, s)}

\* Calls that were promised room count as if they were made: what makes
\* OvershootBounded inductive.
PromisesBounded ==
  \A s \in Slots : LimitOf(s) > 0 =>
    calls[s] + Cardinality(EntitledManagers(s)) <= LimitOf(s) + Overshoot

\* No update of the table is lost or misplaced: a row that was never reset
\* holds exactly the calls that were reserved in it, each in the windows in
\* which it was received, and the tokens of exactly the traces of its team and
\* window, which a clash of ids or a missed match can make those of another
\* call than the response's own.
RowOf(col, r, typ) == IF col = "calls" THEN Slot(r, typ) ELSE TokenSlot(r, typ)
Chargers(col, s) ==
  {r \in Requests : <<col, s[2]>> \in charged[r] /\ s = RowOf(col, r, s[2])}
LedgerExact ==
  \A s \in Slots \ cleared :
    /\ calls[s] = Cardinality(Chargers("calls", s))
    /\ tokens[s] = MapThenSumSet(LAMBDA r : TokensOf[r], Chargers("tokens", s))

\* The verdict on a request and its charges agree: one that was blocked has
\* charged nothing, one that went to the server without a store error has
\* charged both its windows, and tokens are charged by requests whose call was
\* (a day never without its hour), or whose reservation met a store error.
ChargeMatchesVerdict ==
  \A r \in Requests :
    LET charge == {c \in charged[r] : c[1] = "calls"}
        Reserved == r \in failed \/ charge = {"calls"} \X WindowTypes
    IN
    /\ pc[r] = "blocked" => charged[r] = {}
    /\ pc[r] \in {"admitted", "forwarded", "answered", "done"} => Reserved
    /\ charged[r] # charge => Reserved
    /\ \A col \in {"calls", "tokens"} :
         <<col, "day">> \in charged[r] => <<col, "hour">> \in charged[r]

\* The abstract quota, with the slack that several workers add.
Promise == INSTANCE Quota WITH
  used <- calls,
  Unlimited <- {s \in Slots : LimitOf(s) = 0},
  Capacity <- [s \in Slots |-> LimitOf(s) + Overshoot]

\* The call counts behave as that quota: they move up one call at a time, stop
\* at capacity, and go down only when an operator resets the window.
ImplementsQuota == Promise!Spec

\* Every request that reaches the budget gets a verdict, and every token count
\* that reaches it is dealt with: no path keeps the mutex.
Decided ==
  \A r \in Requests :
    /\ (pc[r] = "waiting") ~> (pc[r] \in Ended \cup {"admitted"})
    /\ (pc[r] = "answered") ~> (pc[r] \in Ended)
=============================================================================
