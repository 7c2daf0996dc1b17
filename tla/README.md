# A formal model of mcpscope

mcpscope is a proxy that sits between MCP clients and MCP servers. It forwards
JSON-RPC traffic over stdio or HTTP, pairs requests with their responses,
persists the pairs as traces in SQLite, enforces call and token budgets per
team, evaluates alert rules after every trace, streams traces to a dashboard,
and compares the tool schemas of servers for continuous integration. This
directory holds TLA+ models of it, the TLC runs that check them, and TLAPS
proofs about them. Paths below are relative to `src/`.

## 1. Inventory

| Component | State | Operations | Interacts with | What is hard | What makes it correct | Model |
|---|---|---|---|---|---|---|
| Budgets: `internal/budget`, the `budgets` table | one row of call and token counts per team, window type and window start; one mutex per Manager | CheckAndReserve, RecordTokens, Reset (the reset command does it straight on the store) | called by both proxies before and after a call; the table is shared by all workers and processes | one mutex per worker, one table for all; half-made charges; fail-open on store errors; resets and crashes in between; stale times | limits held (or overshot by a known amount), no charge lost or misplaced, verdict and charges agree, every request decided | `Budget` |
| Tracker: `traceTracker` in `internal/proxy/proxy.go` | pending requests by JSON-RPC id, one table per worker | Record, eviction after 15 minutes | called by captureAndPersist | ids chosen by independent parties; captures out of order; times that are not monotone | one trace per exchange, a call paired with its own answer, young calls never dropped | `TraceTracker` |
| Stdio proxy: runStdio, forwardStdio | two forwarders, four pipes, stdoutMu | read, check budget, forward or refuse, capture, end | client, server subprocess, budgets, tracker, store | capture after write; two writers on one stdout; nested requests of the server; full pipes and the death of either end | exchanges traced once and correctly, no mutual waiting, an end that loses nothing | `StdioProxy`, `StdioSession` |
| HTTP proxy: runHTTP | one goroutine per request, mutex `mu` around client.Do | receive, refuse, forward, capture call, reply, capture answer | clients, upstream, budgets, tracker, store | one table for all clients; failures and disconnects at every step; no timeout under `mu` | the same, the right team charged, `mu` always released | `HttpProxy` |
| Trace store: `internal/store`, persistTraceRecord | traces table | Insert, DeleteOlderThan, TrimToCount, ingestion of SDK records, paging | every capture, `/api/ingest`, `/api/traces` | four steps of which any may fail; cutoff taken from the record's own time; offsets into a list that moves | cap and age bounds hold when quiet, young traces survive, a reader skips nothing | `TraceStore`, `TraceReader` |
| Event hub and SSE feed | set of subscriber channels of 32 records, RWMutex | Subscribe, unsubscribe, Publish | every persisted record; `/events` | full buffers, leaving while others publish | publishing never blocks or panics, order kept per subscriber | `EventHub` |
| Built-in alerts: `alerts.go`, `notifier.go` | alert_rules, alert_events | processAlertEvaluations after every trace, delivery with retries, editing of rules | store, webhooks, Slack, PagerDuty | read-then-insert around seconds of delivery, concurrent evaluations, crash between delivery and event, percentiles and empty windows | statuses right, transitions recorded in order, the last evaluation has the last word | `AlertRules`, `Alerts` |
| Alerting engine: `internal/alerting` | lastFired per rule name | evaluateOnce every minute, dispatch with a 15 minute cooldown | store, Slack, PagerDuty | cooldown set before dispatch and keyed by name, lost on restart, channels that fail | at most one alert per name and cooldown, a lasting condition is heard | `AlertEngine` |
| Supervisor and router: `cmd/proxy.go` | workers, ports, server ids | start workers, route by server_id, 30 s client timeout, end | all workers | the first worker to return ends all; id collisions; ports held by others; a server that is a binary | distinct ids and ports, the right worker answers, nothing but the listed reasons ends the process | `Supervisor` |
| Schema snapshot and diff: `cmd/snapshot.go`, `cmd/diff.go` | two files | snapshot over stdio or HTTP, diff with an exit code | a server that may talk out of turn | frames taken in the order in which they come; nested required fields | a breaking change fails the check, an unchanged server passes it | `SchemaDiff`, `SchemaCheck` |
| Replay and mock, audit export | none that lasts | one-shot commands | servers, files, store | matching by parameter hash | - | - |
| Interceptor, redaction, telemetry, configuration, dashboard UI, SDKs | none of their own | parsing, hashing, formatting, I/O | everything | - | - | - |

How a call travels: the client's frame or POST is read and stamped with a time;
the budget is checked and reserved (`CheckAndReserve`); a refusal is answered
with a JSON-RPC error and persisted as a blocked trace; otherwise the message
goes to the server, is captured (`intercept.Capture`, `traceTracker.Record`)
and remembered; the answer goes back to the client, is captured, matched by id,
published to the event hub, inserted and swept (`persistTraceRecord`), alert
rules are evaluated, and its tokens are charged (`RecordTokens`) to the team and
the time of the trace: those of the matched call, or its own. With several servers, a router on the dashboard's port passes
each POST to the worker that serves the server it names.

The hazards this code is exposed to are listed in `PROJECT.json`, each at the
line where it bites, with the properties that would catch it going wrong.

## 2. Modules

| Module | Models | Uses |
|---|---|---|
| `Quota` | abstract: counters taken one unit at a time, never past capacity, cleared as a whole | |
| `Budget` | CheckAndReserve, RecordTokens, the budgets table, the reset command, and the calls the proxies make around a request | `Quota` (refinement) |
| `TraceTracker` | Record and evictStaleLocked as operators | |
| `Exchanges` | abstract: a call is opened once and closed at most once, by one message that becomes one trace with it | |
| `StdioProxy` | runStdio's two forwarders, refusals, captures | `TraceTracker`, `Exchanges` (refinement) |
| `StdioSession` | how a stdio session ends: end of input, errors, full pipes, deaths | |
| `HttpProxy` | the handler of runHTTP, refusals, captures | `TraceTracker`, `Exchanges` (refinement) |
| `EventHub` | Publish, Subscribe, unsubscribe, the SSE handler | |
| `TraceStore` | persistTraceRecord over the traces table: insert, expire, trim; SDK records | |
| `TraceReader` | paging through `/api/traces` while traces come and go | `TraceStore` |
| `AlertRules` | the status of one built-in rule over a window, and what it promises | |
| `Alerts` | processAlertEvaluations, the notifier, the rule editor | `AlertRules` |
| `AlertEngine` | Engine.Run of `internal/alerting`: conditions, cooldown, dispatch | |
| `Supervisor` | runMultiServerProxy: names, ports, workers, router, end of the process | |
| `SchemaDiff` | compareSnapshots and hasBreakingChanges, and what a schema means to a caller | |
| `SchemaCheck` | snapshot, snapshot, diff as a build runs them | `SchemaDiff` |
| `BudgetProofs`, `StdioProxyProofs` (also of `StdioSession`), `HttpProxyProofs`, `EventHubProofs`, `TraceStoreProofs` (also of `TraceReader`), `AlertEngineProofs` (also of `Alerts` and `AlertRules`), `SupervisorProofs`, `SchemaCheckProofs` (also of `SchemaDiff`) | TLAPS proofs about the module of that name | |
| `MCBudget`, `MCStdioProxy`, `MCHttpProxy`, `MCEventHub`, `MCTraceReader`, `MCAlerts`, `MCAlertEngine`, `MCSupervisor`, `MCSchemaCheck` | instances for TLC | |

### Budget

State: `calls` and `tokens` are the two columns of the table, as functions of
the row (a row that is absent reads as zero, which is what `GetBudgetUsage`
returns); `lock` is the mutex of each Manager, by its holder; `pc` and `at` are
where each request is and its `receivedAt`; `bill` is the team and the time of
the trace that its response made, to which captureAndPersist charges the
tokens. The tracker is not composed with the budget: `Answer` leaves open
whether the response matches its own call, that of another request of the same
worker (a clash of ids), or nothing, in which case the trace has the time of
the response and the team of the handler. `charged`, `failed` and `cleared` are
history that only properties read.

Every call to the store is a step of its own, because nothing but the Manager's
mutex stands between two of them: `CheckHour`, `CheckDay`, `CheckTokens`,
`Block`, `ChargeHour`, `ChargeDay`, and `RecordHour`, `RecordDay` for tokens.
`StoreError` is an error at any of the first group: what was charged stays and
the request is forwarded, since both callers of `maybeBlockBudgetedRequest`
look at its error only if the request was handled. `Reset` runs without the
mutex, because the command is another process. `Crash` ends a worker; the table
outlives it. On a stdio worker (`Stdio`) one request at a time is between
reading the clock and the forwarding. Times are hours; a day has `HoursPerDay`.

### TraceTracker, StdioProxy, HttpProxy

`Record` runs under the tracker's mutex, so `Remember`, `Match` and `Forget`
are applied in one step; each first drops the requests that are older than
`StaleAfter` at the time of the record.

`StdioProxy` has the four pipes as sequences. Frames to the client are two
chunks, header and payload, because they are two writes. A forwarder is at
`clock` (about to read the time), `read`, `budget`, a writing step, or
`capture`; a refusal holds `stdoutMu` from `refuse` until it is persisted. The
client and the server are environment: the client sends calls and answers the
server's requests, the server answers a call once the questions it asked while
working on it are answered.

`HttpProxy` has a program counter per handler, `mu` around `client.Do`, and
`gone` for the requests whose client hung up: the request's context is then
cancelled, `Do` and the reads may fail and nothing can be persisted. The call
is captured after `Do` returns, the answer after the reply. `Unreadable`
requests get an answer that is no JSON-RPC message (an event stream, an empty
body), which the tracker cannot match. The ids of a run are chosen in `Init`
among `IdChoices`, because clients number their requests as they like: `IdOf`
never changes afterwards.

A capture can meet two errors with everybody still there. `LogFails` is one of
EmitLog: the tracker never sees the message. An error of persistTraceRecord
comes when the tracker has already forgotten the match, so the trace is lost
for good (`Insert` of `StdioProxy`, `Persist` of `HttpProxy`). Both are logged
by the caller and nothing else happens; only a refusal whose trace cannot be
persisted ends its stdio forwarder (`RefusalFails`). `Unlogged` and `Unstored`
say which messages can meet them, and the history `lost` and `missed` which
calls did.

`Exchanges` is what both promise, without ids, table or clocks: a call is
opened by the capture of its request (`Open`, once in its life) and closed by
one message that becomes one trace with it (`Close`); or it is refused without
ever being open, missed by a capture that failed (`Miss`), or dropped for good;
other messages are traces of their own.
`OneTracePerExchange` of both proxies follows from it and is proved directly.

Left out of both proxies: payloads, hashes, what is logged, spans, and what happens
behind the persisting of a trace (`EventHub`, `TraceStore`, `Alerts`).
`StdioProxy` leaves out notifications, which only make traces of their own; a
message without an id also bypasses the budget
(`budgetRequestInfoFromPayload`), as `HttpProxy` shows.

### StdioSession

The same two forwarders as `StdioProxy`, seen only as carriers of frames, so
that everything that stops them fits: a frame is `whole`, or `cut` by the end of
its writer, and pipes hold `Capacity` frames. `End1` closes the input of the
server as the forwarder does on EOF, `End2` closes stdout; a cut frame, a write
to a server that is gone, a refusal that cannot be written or persisted makes a
forwarder `failed`. `Finish` needs both forwarders and then the server, in the
order of runStdio: two receives from the error channel, then `cmd.Wait`.
`Sigpipe` is the Go runtime's: a write to a stdout nobody reads kills the
process. `passed`, `answers` and `delivered` are history. `fromClient` and
`toClient` are the stdin and stdout of the proxy; the names differ from those of
`StdioProxy` because one module proves theorems about both. For the same reason
`Alerts` and `AlertRules` share no name with `AlertEngine`.

### EventHub, TraceStore, TraceReader

`EventHub` and `TraceStore` model persistTraceRecord, each its own half. In
`EventHub` a publisher is a goroutine at the start of it: it waits for
`mu.RLock`, serves the channels in `todo` one by one in any order, and unlocks.
A session is a connection to `/events`: `Claim` is the first half of `mu.Lock`,
after which new readers wait, and `Subscribe` or `Unsubscribe` the second, once
no publisher is inside; `Close` comes after the unlocking, as in the code.
`writing` is a record that the handler is writing to a client, which may take
for ever. `due` and `missed` are history.

In `TraceStore` every statement on the traces table is a step: `Insert`,
`Expire` (DeleteOlderThan) and `Trim` (TrimToCount) of different captures
interleave freely, and `InsertFails` and `SweepFails` end a capture early, by
an error of the store or the end of a request's context. Proxied traces carry
the time of their request, those of an SDK any time up to now, or with the
fault `"future"`, which the run has, any time at all, and an id of their own
choice, which a repeated POST repeats.

`TraceReader` adds a client that follows `next_offset`. One page is one
`SELECT ... ORDER BY created_at DESC LIMIT n+1 OFFSET k`; `First` leaves open
which of two traces of the same time comes first, as SQLite does. `kept` is
history: the wanted traces that were stored from the first page on.

### AlertRules, Alerts

`AlertRules` is pure: `Status` selects the samples of a window by the rule's
method and server name, groups them as the query of its type does (`RowKey`: by
server and method, and for latencies also by the server's name; the workspace
and the environment are those of the rule), takes the first row as
evaluateAlertRuleSQL does (`LeadingRow`: the highest error rate, or the first in
the order of the names), and compares an error rate or the 95th percentile
(`RowRank`, the ceiling of n * 95 / 100) with the threshold. `Promised` says
without ranks and first rows what a rule is for: it fires if the calls of some
method on some server breach it. For errors the first row decides that
(`Decisive`); for latencies only if the window has one row, and otherwise the
row looked at may be fine while another one breaches.

`Alerts` has one program counter per evaluation: `ListRules` and the reading of
the clock, `EvaluateRule`, `ReadLatest` (the most severe status first), the
attempts of `sendWithRetry` over `Targets`, and `InsertAlertEvent`. Nothing
holds them together, so evaluations of concurrent captures interleave, rules
are edited in between, and the client whose request is being captured may hang
up (`Cancel`), which fails every later statement. The first Slack or PagerDuty
target ends the delivery whatever it answers, and a webhook that accepts does,
too. An attempt that fails may have arrived all the same (`SendFailed`). `received` and `overlapped` are history.

### AlertEngine

`Capture` is any capture of the process, with the retention sweep that ends it
and may reach into the window. The engine is one goroutine: `Begin` takes the
tick, `Query` reads the window, `PassRule` or
`Fire` for each rule in order, `Send` for each of its channels. `slot` is the
ticker's channel, which holds one tick and drops the others. The cooldown is
set in `Fire`, before any `Send`. `Restart` is a crash and a new start at any
point; `lastFired` is lost. `Outage` and `Recover` are a channel that fails for
a while. `Valid` is Config.Validate, so a configuration without channels is
never run. `fired`, `told`, `shaken` and `steady` are history: when each rule
was dispatched, what reached each channel, which channels failed, since when
each condition has held and been looked at.

### Supervisor

`ServerId` is uniqueServerID over the names that serverIDBaseForTarget and
sanitizeServerID give; a name is a word and the numbers after it, so that a
number put behind a name can make another server's name. `Start` allocates the
ports and opens the dashboard, each worker then binds its port and serves
(`Listen`) or returns (`ListenFails`, `UpstreamPortInvalid`, `SpawnFails`,
`ServeFails`) into `errCh`; `Finish` is `return <-errCh`. A worker whose server
is a binary runs runStdio without a Stdin and panics (`ForwardFromNil`), which
ends the process. Requests go through `Accept`, `UnknownServer` or `BodyArrives` and `Forward`,
and end in the worker's answer, a 400 for a body that breaks off
(`BodyFails`), a 502, or the answer of another program (`StrangerAnswers`) that
holds the port.

### SchemaDiff, SchemaCheck

A field is its path; a schema maps fields to a type and to whether the parent
requires them. `Flatten`, `CompareSnapshots` and `HasBreakingChanges` are the
code; `Arguments`, `Accepts`, `NowMissing` and `NowMistyped` say what a change
means to a caller by JSON Schema, without the code. `SchemaCheck` is the
conversation of the snapshot command with a server that may send messages out
of turn (`chatty`), answer a notification (`acks`), refuse, fall silent, answer
with an empty body or, over stdio, exit with an error once it has answered,
once for each build, and then the diff. A stdio server that does not exit when
its stdin is closed keeps `cmd.Wait` and the check waiting; that is left out.

## 3. Runs

No run checks for deadlock: in every model the messages, requests or
evaluations are finite, so the system may stop. What must go on is stated as
liveness.

| Run | Shows |
|---|---|
| `BudgetOneWorker` | one stdio worker, two teams, with store errors, crashes and resets: `CallLimitHeld`, `LedgerExact`, `ChargeMatchesVerdict`, refinement of `Quota` (`ImplementsQuota`) |
| `BudgetWorkers` | two workers over one table: `OvershootBounded`, and under fairness `Decided` |
| `StdioTraffic` | three calls, one refused, and a question of the server with a clashing id, captures that fail: `UniqueIdsPaired`, `NothingLost`, refinement of `Exchanges` (`ImplementsExchanges`), and under fairness `CallsAnswered` |
| `StdioSession` | more frames than the pipes hold, both ends may die, the budget refuse and the store fail: `NothingCutOff`, and under fairness `SessionEnds` |
| `HttpTraffic` | overlapping handlers with distinct and with shared ids, a refusal, failures, disconnects and captures that fail, time passing: `PairedWithOwnAnswer`, `PromptCallsTraced`, refinement of `Exchanges` (`ImplementsExchanges`), and under fairness `CallsAnswered` |
| `EventHub` | two publishers, two sessions that come and go, full buffers: `NoSendOnClosed`, `FeedFaithful`, and under fairness `PublishEnds`, `SessionsServed` |
| `TraceReader` | concurrent captures with failing steps, a repeated POST, records dated ahead and a reader with pages of one: `CapHeld`, `NothingSkipped`, `OnlyOldDeleted` |
| `Alerts` | two evaluations that may overlap, two servers of one name, three forms of a rule, edits, failing targets, a client that hangs up: `EvaluationsCorrect`, `RepeatsOverlap`, `NotifiedIsRecorded`, `SettledWhenAlone`, and `AlertsTypeOK` |
| `AlertEngine` | two rules with two names or one, an outage, restarts, failing queries: `CooldownHeld`, `HealthyChannelTold`, `LastingAlertHeard` |
| `Supervisor` | URLs and a binary, names that coincide, ports held by others, a silent worker, failing listeners: `AnsweredByNamed`, `WorkersReachable`, `ServesOn`, and under fairness `WholeOrEnded`, `RequestsDecided` |
| `SchemaCheck` | every pair of schemas over both transports, with every fault of the server: `SnapshotFaithful`, `BreakingBlocked`, `UnchangedPasses`, and under fairness `HttpCheckEnds` |
| `SupervisorBinaries` | finding: `--server` with a binary among several servers crashes the process (`BinariesServed`) |

### The finding, and observations without a run

`SupervisorBinaries` quotes the help text of `--server`; see `PROJECT.json`.
While modelling, other places were found where the code surprises. The models
contain the behaviour, and the properties are stated so as not to promise the
contrary, but no run is spent on them:

* Two workers can pass the hourly limit by one call (`OvershootBounded` is what
  does hold). A stdio call after an idle time is charged to the window in which
  the forwarder began to wait.
* A refusal can land between the header and the payload of a frame of the
  server, because only refusals take `stdoutMu`. Refusals are persisted after
  they were written.
* The answer to a stdio call can be captured before the call, which then stays
  pending (`NothingLost` and `UniqueIdsPaired` allow it); a request of the
  server under the id of a pending call is recorded as its answer.
  `UniqueIdsPaired` says when this cannot happen.
* HTTP clients that use the same ids have tokens charged to one another's teams
  and calls paired with one another's answers. The tokens of a response that
  matches nothing are charged to the window of the response, and on a stdio
  worker to the team "default". A call whose upstream request fails leaves no
  trace, and neither does one whose answer the store cannot take: the tracker
  has forgotten it by then.
* A forwarder that fails while both ends live leaves runStdio waiting for the
  other one (`Failed` in `StdioSession`).
* An SDK trace dated in the future deletes traces that are still young: the
  cutoff is taken from the record's own time. `OnlyOldDeleted` says how far that
  goes: to what is too old at a date some stored record claimed. Traces of equal time may be skipped by
  paging, and an export without a limit gives 50 traces.
* `/events?status=` drops the records that the tracker matched, whose status is
  empty. In the dashboard the initial load overwrites records that the feed
  delivered meanwhile, and live records push the tail out of a list that was
  loaded to the end.
* A latency rule looks at the first row only: the first method of the first
  server, unless it names one and that has a single server. Only the
  first target that accepts is notified, although every one of
  `cmd/proxy.go:213-215` "receives alert state changes".
* Rules of `--alerts-config` that share a name share a cooldown, and a failed
  dispatch is not repeated before the cooldown is over.
* Servers named "a", "a" and "a-2" collide: requests for `a-2` all go to the
  later one. A URL server on port 65535 ends the process, since runHTTP wants
  the next port to be valid although it uses it only for servers it starts. The
  router waits for ever for a body that does not come: nothing limits the
  reading of it.
* A snapshot over stdio has no timeout. One over HTTP fails on a server that
  acknowledges the notification with an empty body. A field that becomes
  required inside an object that was already required is not reported as
  breaking (`diff.go:226`), which `BreakingBlocked` excepts.
* `--config` has no effect: Execute loads the file before flags are parsed.

### Bounds, and why they are enough

* Budget: four requests of two teams with one worker and one reset, three with
  two workers; limits of one call an hour and two (or any number) a
  day, one token a day, a day of two hours, a clock of two hours with one
  worker and of one hour with two. Two requests already race for the last
  unit of a row and a third one sees it full; with an hour limit below the day
  limit both kinds of refusal occur; two hours of one day show a request that
  is charged to a past hour of the current day.
* StdioProxy: three calls and one nested question: one call with an id of its
  own, one whose id clashes with the server's, one refused; the log line of the
  first, the trace of the second's answer and that of the refusal may fail. The
  queues need no
  bound because messages are finite. `MaxTime` 1 lets receivedAt lag.
* StdioSession: six frames and pipes of two: two pipes in a row, and the hand of
  the forwarder between them, fill up while frames remain to be written.
* HttpProxy: three requests of two teams, two clock instants with `StaleAfter`
  0, so that every pending request goes stale with the tick; all ids distinct
  and one a notification, or all the same; the log line of one request and the
  trace of another's answer may fail.
* EventHub: one publisher of two traces and one of one, two sessions of which
  one filters, a buffer of one record. Three publications fill a buffer of one
  and overflow it while the other publisher is inside, and a session can leave
  at each point of it.
* TraceReader: two captures and an SDK record posted twice, a cap of two, an
  age of one, three instants: three rows compete for two places, a trace
  can be exactly at and one past the retention age, also by a date ahead of
  the clock, and pages of one put a
  boundary between any two rows.
* Alerts: two evaluations, one rule in any of three forms (error rate, latency
  of one method and server name, a negative threshold that the editor refuses),
  samples of two methods and of two servers that share a name, thresholds that
  a rate of one in two and a latency meet exactly, two attempts at a webhook and at a Slack target. A second rule would only
  lengthen the loop: rules share nothing but the connection.
* AlertEngine: a cooldown of two ticks, a dispatch of at most two, a window of
  one and a horizon of six, which is longer than `Silence` (five), so that
  `LastingAlertHeard` bites.
* Supervisor: ports up to nine with the last ones in reach, base ports before,
  on and after the dashboard's, two or three servers, one request at a time
  (requests share nothing but the ports).
* SchemaCheck: one tool with an object, a field in it and a field beside it,
  each present or not, required or not, of two types; at most one frame that
  nobody asked for. Two snapshots of any two such schemas.

The proofs have none of these bounds.

### Fairness

`Budget`: a goroutine inside CheckAndReserve or RecordTokens goes on, and one
that can take the mutex eventually does. Weak fairness is enough: sync.Mutex
hands over to a starving waiter, and a run has finitely many requests. Nothing
obliges clients to send, servers to answer, the clock to move or faults to
occur. `StdioProxy`: the two goroutines run, the client answers what it is
asked, the server answers when it can. `CallsAnswered` is stated for behaviours
in which no refusal tears a frame or ends its forwarder, since the code does
both.
`StdioSession`: the goroutines run, the client reads its stdout and closes its
stdin once that ends, and the server works and exits with its input; without
the last two a pipe may stay full for ever.
`EventHub`: publishers and sessions that wait for the RWMutex get it (a waiting
writer holds off new readers, and readers that waited go before the next
writer); nothing is assumed of handlers that write to a client.
`HttpProxy`: handlers run and the server answers or fails. The last part is an
assumption about the server that the code does not enforce: `client.Do` has no
timeout and holds `mu`, so one silent server blocks every later call.
`Supervisor`: start-up, workers, main and the router run, and the client of the
router times out; no worker has to answer if it is silent, and no body has to
arrive, so `RequestsDecided` starts where the body has been read. `SchemaCheck`: the
commands run; the server has no obligation at all, and the 15 seconds of the
HTTP client are what ends the check.

## 4. Proofs

Every theorem holds for all values of the constants that satisfy the module's
assumption; the constants of a run are one of them.

| Module | Theorem | States |
|---|---|---|
| `BudgetProofs` | `TypeCorrect` | `Spec => []TypeOK` |
| | `MutexCorrect` | `Spec => []MutexHeld` |
| | `PromisesCorrect` | `Spec => []PromisesBounded` |
| | `OvershootCorrect` | `Spec => []OvershootBounded` |
| | `OneWorkerHoldsLimits` | with one manager, `Spec => []CallLimitHeld` |
| | `QuotaCorrect` | `Spec => ImplementsQuota` |
| | `VerdictCorrect` | `Spec => []ChargeMatchesVerdict` |
| | `LedgerCorrect` | `Spec => []LedgerExact` |
| `StdioProxyProofs` | `TypeCorrect` | `Spec => []TypeOK` |
| | `PairedCorrect` | `Spec => []UniqueIdsPaired` |
| | `OneTraceCorrect` | `Spec => []OneTracePerExchange` |
| | `ExchangesCorrect` | `Spec => ImplementsExchanges` |
| | `NothingLostCorrect` | with `Calm` (no request can grow stale, the client repeats no id), `Spec => []NothingLost` |
| | `SessionTypeCorrect` | `SpecSession => []SessionTypeOK` |
| | `NothingCutOffCorrect` | `SpecSession => []NothingCutOff` |
| `HttpProxyProofs` | `TypeCorrect` | `Spec => []TypeOK` |
| | `OneTraceCorrect` | `Spec => []OneTracePerExchange` |
| | `ExchangesCorrect` | `Spec => ImplementsExchanges` |
| | `PairedCorrect` | `Spec => []PairedWithOwnAnswer` |
| | `PromptCorrect` | `Spec => []PromptCallsTraced` |
| `EventHubProofs` | `TypeCorrect` | `Spec => []TypeOK` |
| | `NoSendOnClosedCorrect` | `Spec => []NoSendOnClosed` |
| | `FeedCorrect` | `Spec => []FeedFaithful` |
| `TraceStoreProofs` | `TypeCorrect` | `Spec => []TypeOK` |
| | `CapCorrect` | `Spec => []CapHeld` |
| | `RetentionCorrect` | `Spec => OnlyOldDeleted` |
| | `PagingCorrect` | `SpecReader => []NothingSkipped` |
| | `ReaderOnlyReads` | `SpecReader => Spec`, which carries the above over |
| `AlertEngineProofs` | `TypeCorrect` | `Spec => []TypeOK` |
| | `CooldownCorrect` | `Spec => CooldownHeld` |
| | `HealthyChannelToldCorrect` | `Spec => []HealthyChannelTold` |
| | `LastingAlertCorrect` | `Spec => []LastingAlertHeard` |
| | `AlertsTypeCorrect` | `SpecAlerts => []AlertsTypeOK` |
| | `NotifiedCorrect` | `SpecAlerts => []NotifiedIsRecorded` |
| | `RepeatsCorrect` | `SpecAlerts => []RepeatsOverlap` |
| | `SettledCorrect` | `SpecAlerts => SettledWhenAlone` |
| | `EvaluationsRight` | `SpecAlerts => []EvaluationsCorrect` |
| `SupervisorProofs` | `ReachableCorrect` | `Spec => []WorkersReachable` |
| | `TypeCorrect` | `Spec => []TypeOK` |
| | `ServesOnCorrect` | `Spec => []ServesOn` |
| | `AnsweredCorrect` | `Spec => []AnsweredByNamed` |
| `SchemaCheckProofs` | `TypeCorrect` | `Spec => []TypeOK` |
| | `SnapshotCorrect` | `Spec => []SnapshotFaithful` |
| | `UnchangedCorrect` | `Spec => []UnchangedPasses` |
| | `BreakingCorrect` | `Spec => []BreakingBlocked` |

**Budget.** `OvershootBounded` is not inductive: a request that has passed
its check may still add a call to a row that is by now full. `PromisesBounded`
counts such a request as if it had already made its call. A manager can have at
most one request that was promised room in a row, because a promise is held
only under its mutex (`MutexCorrect`); so promises are counted by managers, of
which there are finitely many. A check succeeds only if the row is below its
limit (`RoomSeen`); at that moment the other managers hold at most
`Cardinality(Managers) - 1` promises, so calls plus promises stay within the
limit plus that number. An increment turns a promise into a call and leaves the
sum alone (`PromiseKept`); every other step adds no promise (`NoNewPromise`),
and a reset or a crash only lowers the sum. With one manager the slack is zero,
which gives `CallLimitHeld`. The refinement needs, at an increment, that the
row has room left (`RoomForCharge`), and that follows from the promise.

`LedgerExact` says that the columns hold what the requests have charged, and its
token column is a sum over a set of requests. A sum over a finite set, taken by
a fold, does not depend on the order; that is an induction, and it is done by a
counterexample of least cardinality, which cannot exist. `Ledger` adds what the
sums need: a row has finitely many chargers, since it starts without and a step
adds one. The row of a request's tokens is that of its `bill`, which is fixed
before the first of them is charged. A request charges tokens to a window once (`TokensFresh`: one that is
about to has not done so), so each charge adds a new charger, and its amount, to
both sides.

**StdioProxy.** Pairing needs only that a call is pending under its own id
(`OwnIds`). That no exchange has two traces needs an inventory of messages
(`Transit`): each end writes at most one message about a request, so what it
has written is once in its queue, or in the hand of the forwarder that read it,
or behind that forwarder, and never comes back. `Settled` says that what is
pending or has a trace is behind, and that no call is pending and traced at
once, also when a capture forgot a call whose trace the store did not take; a capture therefore adds a trace of a message, and of a call, that has
none. The refinement of `Exchanges` maps `open` to the calls in the table and
`begun` to those the server can read and the forwarder is done with; `SentOn`
says that a call in hand has not got there before, so that it is opened only
once. `NothingLostCorrect` is inductive under `Calm`: eviction then changes
nothing (`FreshIsSame`), a capture can overwrite only the entry of the same call
(`OwnIds`), and whatever else leaves the table leaves it into a trace or, by an
error of the store, into `lost`.

**HttpProxy.** The same with program counters instead of queues: what is
pending is a call whose handler has captured its request and that has no trace
(`PendingOK`); what has a trace is behind its handler (`TracesOK`); a handler
never goes back (`NoWayBack`). Two handlers can take the same pending entry
only one after the other, and the first removes it, also if all ids are equal.
For the refinement of `Exchanges` the calls begun are those whose handlers are
past the capture; `Forks` keeps refused ones apart from them.
`PromptCorrect` rests on `Held`: between the captures of its two messages a call
with an id of its own that an error has not `missed` is in the table unless it
is stale by the clock. A capture
of another handler evicts only what is stale in that handler's own time, which
is never ahead of the clock (`Timely`, `TableTurn`).

**StdioSession.** `ClientAccounted` and `ServerAccounted` count: what was
passed on, what is in the pipe and what is in the forwarder's hand make up what
was written, unless a frame was broken off, in which case the broken frame is
the last of its pipe and the forwarder that reads it fails.

**EventHub.** `Sound` adds what makes the invariant inductive: a channel in the
set belongs to a handler that has not unsubscribed, and a Publish in progress
serves only channels that are still in the set, which holds because unsubscribe
waits until nobody publishes. `FeedCorrect` rests on `Loyal`: whatever a feed
(the frames written, the one in hand, the channel's records, in that order)
holds was sent (`WasSent`), a publisher's records come in ascending order, and
a record due to the session is in the feed, was dropped, or is still being sent
(`Accounted`). Every step appends one record to the feed, drops one record for
it, or leaves it as it is.

**TraceStore, TraceReader.** `CapHeld` is inductive: an insert adds a row and an
unswept trace, a completed trim leaves no more rows than the cap, no other step
adds a row or makes a trace swept. `OnlyOldDeleted` needs that no trace of
the proxy is dated later than the clock (`Dated`), so that an expiry goes by the
clock or by a date some SDK claimed (`ExpireDeserved`); for a trim, that the traces kept are as
many as the cap and all at least as young as one that goes. For paging, the
invariant `Ahead` says that a kept trace not yet shown has at least `offset`
traces before it (`Rank`): an insert can only raise that number, and a deletion
that lowered it would have deleted a younger trace than the one that stayed,
which neither Expire nor Trim does (`StoreAhead`); so the page that shows the
last rows shows it (`PageAhead`).

**AlertEngine.** `Remembered`: for every rule dispatched by this process,
`lastFired` knows its name with a time no earlier than that. `Dispatching` ties
the history to the dispatch under way, so that each `Send` to a channel that
works tells it of the current alert. `LastingAlertHeard` speaks of the share of
slow or failed calls, the engine of a percentile; `ConditionMeans` says they are
the same, for any finite set of traces: at most `Rank` calls out of n are fast
exactly if more than one in a hundred is slow (`PercentileMeans`, `RankRounds`).
The rest is about time. `Timely` bounds what an evaluation and its clock are
apart, `Lasting` says that a condition that is steady since before an
evaluation is there in what the evaluation saw, `Sole` that `lastFired` of a
name of its own is the last dispatch of its rule, and `ToldLast` that the last
dispatch reached the channel or is on its way. `AllHeard` then follows the
evaluation through rules and channels: where it has not yet been, the channel
was told at most a lag and a cooldown before it, where it has, at most a
cooldown before it; the next evaluation comes at most a lag later. So the
silence of a channel is at most the cooldown and two lags.

**Alerts.** `Typed` has a part for each evaluation (`Evaluation`), which every step
of it keeps and other steps leave alone (`OthersKeep`). `NotifiedIsRecorded` is
kept because an evaluation with a delivery, whether or not the attempt counts as
sent, goes to its insert, or fails.
For the table of events the invariant `Table` says: evaluations active together
have overlapped (`Serial`); events carry the time of their evaluation, which no
other has, and one of each rule (`Stamped`, `Distinct`); evaluations that did
not overlap are one before the other (`Sequential`); what an evaluation that
was never overlapped has read is still so (`Current`); and the event of such an
evaluation differs from the latest one before it (`Telling`). `RepeatsOverlap`
is `Telling` for neighbours, and `SettledWhenAlone` is `Current` at the end.
`EvaluationsRight` is about the operators of `AlertRules`, for any finite window:
the percentile of the latencies reaches a threshold exactly if fewer than 95
of 100 stay below it (`LatencyBreaches`); the first row of the error query is
one that no other outdoes (`WorstExists`, which finds the greatest of finitely
many fractions by cross products), so that it breaches exactly if some row does
(`WorstBreaches`); the first row of the latency query exists (`FirstExists`,
the least in the order of server, name and method) and is one of the window's.

**SchemaCheck.** `Honest` is the invariant, for servers that have not lied:
`Conversation` says who speaks next, that a message of the client waiting for its
answer is the last one, and that only frames nobody asked for are on the way
meanwhile, so that the answer the client takes is the one it waits for;
`Written`, that the files hold what was served; `Judged`, that the exit code is
the verdict on the two files. `Harmless` and `HarmlessToCallers` carry the verdict
over to the callers, through the comparison of two schemas tool by tool and
path by path.

**Supervisor.** `NamesUnique`: of two servers of one base the later has one more
before it, so that their numbers differ; of two bases, `NamesApart` keeps the
numbered forms apart. `WorkerNamedFacts` finds the last worker of a name by
well-founded minimum, for any number of workers. `WorkersOK` records why each
worker is where it is and who listens on what; `RoutesOK`, that a request that
was sent went to the port of the worker that has its name, which is listening,
or is a port held by another program, and then that worker could not bind it.

Type invariants, `MutexHeld` and `PromisesBounded` are proved and no run is
spent on them, but for `AlertsTypeOK`, which also bounds the retries.

What the theorems assume of constants is small: positive bounds and sizes; in
`AlertEngine` a cooldown and a lag of at least one unit, and latencies that are
integers; in `Alerts` at least one try per notification and thresholds and
latencies that are integers; in `SchemaCheck` that fields are paths. The sets of
requests, calls, sessions, evaluations and frames may be infinite; what is
finite at every moment (a window, the chargers of a row) is proved to be so.

Only model-checked: all liveness (`Decided`, `CallsAnswered` of both proxies,
`PublishEnds`, `SessionsServed`, `SessionEnds`, `HttpCheckEnds`,
`WholeOrEnded`, `RequestsDecided`), since fairness and ENABLED are out of
the prover's reach.

## 5. Plan

In the order of importance; 1 to 8 are in place.

1. `Budget` with `Quota` and its proofs.
2. `TraceTracker`, `Exchanges`, `StdioProxy`, `StdioSession` and their proofs.
3. `HttpProxy` and its proofs.
4. `EventHub`, `TraceStore`, `TraceReader` with their proofs.
5. `AlertRules`, `Alerts` and their proofs.
6. `AlertEngine` and its proofs.
7. `Supervisor` and its proofs.
8. `SchemaDiff`, `SchemaCheck` and their proofs.
9. Open: an abstract status history that `Alerts` with a single evaluation
   implements; replay's matching by parameter hash; a composition of a stdio
   worker with its budget, in place of the constant `Refused`.

## 6. Not modelled

Read-only queries and their presentation (statistics panels, health endpoints,
audit export, `Manager.Snapshot`, the React code), telemetry spans,
configuration and flags, migrations, redaction, hashing and framing of a
message, the SDKs: one-shot or pure I/O, without state that a step of another
actor could disturb. The replay and mock commands keep no state: replay sends
stored parameters again, mock answers from a table it reads at start-up. Of
the interceptor only the kind and the id of a message matter to the other
modules, and they are data of `StdioProxy` and `HttpProxy`.
