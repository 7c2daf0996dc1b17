----------------------------- MODULE HttpProxy ------------------------------
(***************************************************************************)
(* The HTTP proxy of one worker: the handler that runHTTP installs, one    *)
(* goroutine per request, and the capture of what it forwards.             *)
(*                                                                         *)
(* A handler may be refused by the budget (module Budget); otherwise it    *)
(* holds mu while the server works (client.Do), captures the request when  *)
(* Do returns, reads the body, replies, and captures the answer last.  All *)
(* of it runs under the request's own context, which ends when the client  *)
(* hangs up: from then on nothing can be persisted.  An error of a capture *)
(* is logged and never reaches the client.                                 *)
(***************************************************************************)
EXTENDS Naturals, TraceTracker

CONSTANTS
  Requests,   \* the messages that clients POST
  Teams,
  IdChoices,  \* the JSON-RPC ids they may have, None for a notification:
              \* clients number their requests independently of one another
  TeamOf,     \* the team its header resolves to
  Unreadable, \* requests whose answer is no JSON-RPC message: an event
              \* stream, an empty body, an error page
  Refused,    \* requests that the budget refuses
  Unlogged,   \* the messages at whose capture EmitLog may fail
  Unstored,   \* the messages whose trace the store may fail to take
  Faults,     \* the disturbances of a run: "upstream", "client"
  MaxTime     \* the clock stops here

Times == 0 .. MaxTime

ASSUME HttpAssumption ==
  /\ None \notin Requests \cup Ids /\ None \notin {"refusal", "result", "error"}
  /\ IdChoices \subseteq [Requests -> Ids \cup {None}]
  /\ TeamOf \in [Requests -> Teams]
  /\ Unreadable \subseteq Requests /\ Refused \subseteq Requests
  /\ MaxTime \in Nat /\ StaleAfter \in Nat
  /\ None \notin [call : Requests, team : Teams, at : Times]

VARIABLES
  IdOf,       \* the ids of this run
  now,        \* the clock
  mu,         \* the request whose handler holds mu, or None
  pc,         \* where each handler is
  at,         \* requestReceivedAt
  answeredAt, \* responseReceivedAt
  reply,      \* what the client got
  gone,       \* requests whose client has hung up
  pending,    \* the tracker's table
  traces,     \* what was persisted
  missed,     \* history: requests in whose captures the log or the store failed
  endedAt     \* history: when each handler returned

record == <<pending, traces, missed>>
clients == <<reply, gone>>
vars == <<IdOf, now, mu, pc, at, answeredAt, reply, gone, pending, traces,
          missed, endedAt>>

Running == {"received", "refused", "upstream", "served", "failed", "body",
            "reply", "capture"}

Init ==
  /\ IdOf \in IdChoices
  /\ now = 0
  /\ mu = None
  /\ pc = [r \in Requests |-> "idle"]
  /\ at = [r \in Requests |-> 0]
  /\ answeredAt = [r \in Requests |-> 0]
  /\ reply = [r \in Requests |-> None]
  /\ gone = {}
  /\ pending = NothingPending
  /\ traces = {}
  /\ missed = {}
  /\ endedAt = [r \in Requests |-> 0]

Goto(r, from, to) ==
  /\ pc[r] = from
  /\ pc' = [pc EXCEPT ![r] = to]
  /\ endedAt' = IF to = "done" THEN [endedAt EXCEPT ![r] = now] ELSE endedAt

\* http.Error and w.Write: the client gets the reply unless it hung up.
Send(r, what) ==
  reply' = IF r \in gone THEN reply ELSE [reply EXCEPT ![r] = what]

\* persistTraceRecord fails once the context of the request is cancelled, and
\* whenever the store does.  The error is logged; by then the tracker has
\* forgotten the call of the trace.
Persist(r, trace) ==
  \/ /\ r \notin gone
     /\ traces' = traces \cup {trace}
     /\ UNCHANGED missed
  \/ /\ r \in gone
     /\ UNCHANGED <<traces, missed>>
  \/ /\ r \notin gone /\ trace.message \in Unstored
     /\ missed' = missed \cup {r}
     /\ UNCHANGED traces

\* EmitLog fails: captureAndPersist returns before the tracker sees the message.
LogFails(r, message) ==
  /\ message \in Unlogged
  /\ missed' = missed \cup {r}
  /\ UNCHANGED <<pending, traces>>

\* A trace without a match carries the team of its own handler.
Standalone(r, message, t) ==
  [call |-> None, message |-> message, team |-> TeamOf[r], from |-> t]

-----------------------------------------------------------------------------
(* The handler.                                                            *)

\* The body is read, the time is taken, the team is resolved.  A request whose
\* body does not arrive gets a 400 and leaves nothing behind: it stays idle here.
Receive(r) ==
  /\ Goto(r, "idle", "received")
  /\ at' = [at EXCEPT ![r] = now]
  /\ UNCHANGED <<IdOf, now, mu, answeredAt, clients, record>>

\* The budget refuses: the error is written first and the blocked call is
\* persisted next.  A notification has no id and is never refused.
Refuse(r) ==
  /\ Goto(r, "received", "refused")
  /\ r \in Refused /\ IdOf[r] # None
  /\ Send(r, "refusal")
  /\ UNCHANGED <<IdOf, now, mu, at, answeredAt, gone, record>>

PersistRefusal(r) ==
  /\ Goto(r, "refused", "done")
  /\ Persist(r, [call |-> r, message |-> <<"refusal", r>>,
                 team |-> TeamOf[r], from |-> at[r]])
  /\ UNCHANGED <<IdOf, now, mu, at, answeredAt, clients, pending>>

LockUpstream(r) ==
  /\ Goto(r, "received", "upstream")
  /\ r \notin Refused \/ IdOf[r] = None
  /\ mu = None /\ mu' = r
  /\ UNCHANGED <<IdOf, now, at, answeredAt, clients, record>>

\* client.Do returns with the headers of the answer.
UpstreamAnswers(r) ==
  /\ Goto(r, "upstream", "served")
  /\ mu' = None
  /\ UNCHANGED <<IdOf, now, at, answeredAt, clients, record>>

\* Mutant: the error path keeps mu.
UpstreamFailsMutant(r) ==
  /\ Goto(r, "upstream", "failed")
  /\ "upstream" \in Faults \/ r \in gone
  /\ UNCHANGED <<IdOf, now, mu, at, answeredAt, clients, record>>

\* client.Do returns an error: the server is unreachable, or the client has
\* hung up.
UpstreamFails(r) ==
  /\ Goto(r, "upstream", "failed")
  /\ "upstream" \in Faults \/ r \in gone
  /\ mu' = None
  /\ UNCHANGED <<IdOf, now, at, answeredAt, clients, record>>

\* Only now is the request captured, in its own time: a call is remembered, a
\* notification persisted at once.
CaptureCall(r, from, to) ==
  /\ Goto(r, from, to)
  /\ \/ /\ IdOf[r] = None
        /\ pending' = Fresh(pending, at[r])
        /\ Persist(r, Standalone(r, <<"request", r>>, at[r]))
     \/ /\ IdOf[r] # None
        /\ pending' = Remember(pending, IdOf[r],
             [call |-> r, team |-> TeamOf[r], at |-> at[r]], at[r])
        /\ UNCHANGED <<traces, missed>>
     \/ LogFails(r, <<"request", r>>)

CaptureServed(r) ==
  /\ CaptureCall(r, "served", "body")
  /\ answeredAt' = [answeredAt EXCEPT ![r] = now]
  /\ UNCHANGED <<IdOf, now, mu, at, clients>>

CaptureFailed(r) ==
  /\ CaptureCall(r, "failed", "done")
  /\ Send(r, "error")
  /\ UNCHANGED <<IdOf, now, mu, at, answeredAt, gone>>

ReadBody(r) ==
  /\ Goto(r, "body", "reply")
  /\ UNCHANGED <<IdOf, now, mu, at, answeredAt, clients, record>>

ReadBodyFails(r) ==
  /\ Goto(r, "body", "done")
  /\ "upstream" \in Faults \/ r \in gone
  /\ Send(r, "error")
  /\ UNCHANGED <<IdOf, now, mu, at, answeredAt, gone, record>>

Reply(r) ==
  /\ Goto(r, "reply", "capture")
  /\ Send(r, "result")
  /\ UNCHANGED <<IdOf, now, mu, at, answeredAt, gone, record>>

\* w.Write may notice that nobody is there: the answer is not captured.
ReplyFails(r) ==
  /\ Goto(r, "reply", "done")
  /\ r \in gone
  /\ UNCHANGED <<IdOf, now, mu, at, answeredAt, clients, record>>

\* The answer is paired through its id with whatever is pending under it, and
\* its tokens are charged to the team of the trace.
AnswerId(r) == IF r \in Unreadable THEN None ELSE IdOf[r]

AnswerTrace(r) ==
  LET t == answeredAt[r]
      match == IF AnswerId(r) = None THEN None ELSE Match(pending, AnswerId(r), t)
      answer == <<"result", r>> IN
  IF match = None THEN Standalone(r, answer, t)
  ELSE [call |-> match.call, message |-> answer, team |-> match.team, from |-> match.at]

CaptureAnswer(r) ==
  LET id == AnswerId(r)
      t == answeredAt[r] IN
  /\ Goto(r, "capture", "done")
  /\ \/ /\ pending' = IF id = None THEN Fresh(pending, t) ELSE Forget(pending, id, t)
        /\ Persist(r, AnswerTrace(r))
     \/ LogFails(r, <<"result", r>>)
  /\ UNCHANGED <<IdOf, now, mu, at, answeredAt, clients>>

-----------------------------------------------------------------------------
ClientGone(r) ==
  /\ "client" \in Faults
  /\ pc[r] \in Running /\ r \notin gone
  /\ gone' = gone \cup {r}
  /\ UNCHANGED <<IdOf, now, mu, pc, at, answeredAt, reply, record, endedAt>>

Tick ==
  /\ now < MaxTime
  /\ now' = now + 1
  /\ UNCHANGED <<IdOf, mu, pc, at, answeredAt, clients, record, endedAt>>

Upstream(r) == UpstreamAnswers(r) \/ UpstreamFails(r)

Handler(r) ==
  \/ Refuse(r) \/ PersistRefusal(r) \/ LockUpstream(r)
  \/ CaptureServed(r) \/ CaptureFailed(r)
  \/ ReadBody(r) \/ ReadBodyFails(r) \/ Reply(r) \/ ReplyFails(r)
  \/ CaptureAnswer(r)

Next ==
  \/ \E r \in Requests :
       Receive(r) \/ Handler(r) \/ Upstream(r) \/ ClientGone(r)
  \/ Tick

Spec == Init /\ [][Next]_vars

\* Handlers run, and the server answers or fails: client.Do has no timeout, so
\* without that one silent call holds mu, and everybody else, for ever.  Weak
\* fairness is enough for mu because a run has finitely many requests.
Fairness == \A r \in Requests : WF_vars(Handler(r)) /\ WF_vars(Upstream(r))

FairSpec == Spec /\ Fairness

-----------------------------------------------------------------------------
(* Properties.                                                             *)

Trace == [call : Requests \cup {None},
          message : {"request", "result", "refusal"} \X Requests,
          team : Teams, from : Times]

\* Every variable has its type.
TypeOK ==
  /\ IdOf \in IdChoices /\ now \in Times
  /\ mu \in Requests \cup {None}
  /\ pc \in [Requests -> Running \cup {"idle", "done"}]
  /\ at \in [Requests -> Times]
  /\ answeredAt \in [Requests -> Times]
  /\ reply \in [Requests -> {"refusal", "result", "error", None}]
  /\ gone \subseteq Requests
  /\ pending \in [Ids -> [call : Requests, team : Teams, at : Times] \cup {None}]
  /\ traces \subseteq Trace
  /\ missed \subseteq Requests
  /\ endedAt \in [Requests -> Times]

\* No exchange is persisted twice, however the handlers interleave and even
\* when clients use the same ids: a message makes one trace, and a call is the
\* request of one trace.
OneTracePerExchange ==
  \A t, u \in traces :
    t # u => t.message # u.message /\ (t.call = None \/ t.call # u.call)

\* The calls that were captured, and those that wait in the table, under whatever
\* id.
Begun ==
  {r \in Requests :
     /\ IdOf[r] # None
     /\ pc[r] \in {"body", "reply", "capture"} \/ (pc[r] = "done" /\ r \notin Refused)}
Open == {pending[i].call : i \in {j \in Ids : pending[j] # None}}

Promise == INSTANCE Exchanges WITH
  Calls <- Requests, Entries <- Trace, begun <- Begun, open <- Open, log <- traces

\* Every capture is a step of an exchange: a call is opened once and closed at
\* most once, by one message, and a trace is never changed, however the handlers
\* interleave, even when clients use the same ids.
ImplementsExchanges == Promise!Spec

\* No other request has the id of r.
Unambiguous(r) == \A other \in Requests : IdOf[other] = IdOf[r] => other = r

\* Handlers overtake one another after Do, yet a trace pairs a call whose id is
\* its own with the answer to that call, and charges the answer's tokens to the
\* team that made it.
PairedWithOwnAnswer ==
  \A t \in traces :
    t.call # None /\ Unambiguous(t.call)
    => t.message[2] = t.call /\ t.team = TeamOf[t.call]

\* A call whose id is its own and whose client got a readable answer, and
\* stayed, within StaleAfter of sending it, is persisted as a call unless an error
\* met a capture of its own: no capture of another handler, early or late, failing
\* or not, drops it from the table.
PromptCallsTraced ==
  \A r \in Requests :
    /\ pc[r] = "done" /\ reply[r] = "result" /\ r \notin gone \cup Unreadable \cup missed
    /\ IdOf[r] # None /\ Unambiguous(r) /\ endedAt[r] <= at[r] + StaleAfter
    => \E t \in traces : t.call = r /\ t.from = at[r]

\* Every request is answered unless its client hangs up: no path keeps mu.
CallsAnswered ==
  \A r \in Requests :
    pc[r] = "received" ~> (reply[r] # None \/ r \in gone)
=============================================================================
