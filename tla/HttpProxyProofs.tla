--------------------------- MODULE HttpProxyProofs ---------------------------
(***************************************************************************)
(* Proofs about HttpProxy, for any requests, ids, faults and interleaving  *)
(* of the handlers.                                                        *)
(***************************************************************************)
EXTENDS HttpProxy, TLAPS

USE HttpAssumption

PendingCalls == [call : Requests, team : Teams, at : Times]

\* The states of a handler that has captured its request.
Captured == {"body", "reply", "capture", "done"}

-----------------------------------------------------------------------------
(* The tracker.                                                            *)

Table == [Ids -> PendingCalls \cup {None}]

\* Eviction only takes entries away.
LEMMA FreshFacts ==
  ASSUME NEW table \in Table, NEW t
  PROVE  /\ Fresh(table, t) \in Table
         /\ \A i \in Ids : Fresh(table, t)[i] # None => Fresh(table, t)[i] = table[i]
BY DEF Fresh, Table

LEMMA RememberFacts ==
  ASSUME NEW table \in Table, NEW t, NEW id \in Ids, NEW request \in PendingCalls
  PROVE  /\ Remember(table, id, request, t) \in Table
         /\ Remember(table, id, request, t)[id] = request
         /\ \A i \in Ids \ {id} : Remember(table, id, request, t)[i] # None
                                  => Remember(table, id, request, t)[i] = table[i]
<1>1. Fresh(table, t) \in Table
  BY FreshFacts
<1>2. Remember(table, id, request, t) = [Fresh(table, t) EXCEPT ![id] = request]
  BY DEF Remember
<1>3. \A i \in Ids \ {id} : Remember(table, id, request, t)[i] = Fresh(table, t)[i]
  BY <1>1, <1>2 DEF Table
<1> QED  BY <1>1, <1>2, <1>3, FreshFacts DEF Table

LEMMA ForgetFacts ==
  ASSUME NEW table \in Table, NEW t, NEW id \in Ids
  PROVE  /\ Forget(table, id, t) \in Table
         /\ Forget(table, id, t)[id] = None
         /\ \A i \in Ids : Forget(table, id, t)[i] # None
                           => i # id /\ Forget(table, id, t)[i] = table[i]
<1>1. Fresh(table, t) \in Table
  BY FreshFacts
<1>2. Forget(table, id, t) = [Fresh(table, t) EXCEPT ![id] = None]
  BY DEF Forget
<1> QED  BY <1>1, <1>2, FreshFacts DEF Table

LEMMA MatchFacts ==
  ASSUME NEW table \in Table, NEW t, NEW id \in Ids, Match(table, id, t) # None
  PROVE  Match(table, id, t) = table[id] /\ table[id] \in PendingCalls
BY FreshFacts DEF Match, Table

-----------------------------------------------------------------------------
(* Types.                                                                  *)

\* A capture adds its trace or adds none.
LEMMA PersistFacts ==
  ASSUME NEW r \in Requests, NEW trace, Persist(r, trace)
  PROVE  /\ traces' = traces \/ traces' = traces \cup {trace}
         /\ missed' = missed \/ missed' = missed \cup {r}
         /\ r \notin gone \cup missed' => traces' = traces \cup {trace}
BY DEF Persist

LEMMA TypeStep ==
  ASSUME TypeOK, [Next]_vars
  PROVE  TypeOK'
<1> DEFINE States == Running \cup {"idle", "done"}
           Replies == {"refusal", "result", "error", None}
<1>1. pending \in Table /\ pc \in [Requests -> States] /\ reply \in [Requests -> Replies]
      /\ now \in Nat
  BY DEF TypeOK, Table, PendingCalls, Times
<1>2. ASSUME NEW r \in Requests, NEW from, NEW to \in States, Goto(r, from, to)
      PROVE  pc' \in [Requests -> States] /\ endedAt' \in [Requests -> Times]
  BY <1>2 DEF Goto, TypeOK
<1>3. ASSUME NEW r \in Requests, NEW what \in Replies, Send(r, what)
      PROVE  reply' \in [Requests -> Replies]
  BY <1>1, <1>3 DEF Send
<1>4. ASSUME NEW r \in Requests, NEW trace \in Trace, Persist(r, trace)
      PROVE  traces' \subseteq Trace /\ missed' \subseteq Requests
  BY <1>4, PersistFacts DEF TypeOK
<1>5. TypeOK' <=> /\ IdOf' \in IdChoices /\ now' \in Times
                  /\ mu' \in Requests \cup {None}
                  /\ pc' \in [Requests -> States]
                  /\ at' \in [Requests -> Times]
                  /\ answeredAt' \in [Requests -> Times]
                  /\ reply' \in [Requests -> Replies]
                  /\ gone' \subseteq Requests
                  /\ pending' \in Table
                  /\ traces' \subseteq Trace
                  /\ missed' \subseteq Requests
                  /\ endedAt' \in [Requests -> Times]
  BY DEF TypeOK, Table, PendingCalls
<1>6. ASSUME NEW r \in Requests, NEW from, NEW to \in States, CaptureCall(r, from, to)
      PROVE  pending' \in Table /\ traces' \subseteq Trace /\ missed' \subseteq Requests
  <2>1. CASE IdOf[r] = None /\ pending' = Fresh(pending, at[r])
             /\ Persist(r, Standalone(r, <<"request", r>>, at[r]))
    <3>1. Standalone(r, <<"request", r>>, at[r]) \in Trace
      BY DEF Standalone, Trace, TypeOK
    <3> QED  BY <1>1, <1>4, <2>1, <3>1, FreshFacts
  <2>2. CASE IdOf[r] # None /\ UNCHANGED <<traces, missed>>
             /\ pending' = Remember(pending, IdOf[r],
                  [call |-> r, team |-> TeamOf[r], at |-> at[r]], at[r])
    <3>1. IdOf[r] \in Ids
      BY <2>2 DEF TypeOK
    <3>2. [call |-> r, team |-> TeamOf[r], at |-> at[r]] \in PendingCalls
      BY DEF TypeOK, PendingCalls
    <3>3. pending' \in Table
      BY <1>1, <2>2, <3>1, <3>2, RememberFacts
    <3> QED  BY <2>2, <3>3 DEF TypeOK
  <2>3. CASE LogFails(r, <<"request", r>>)
    BY <1>1, <2>3 DEF LogFails, TypeOK
  <2> QED  BY <1>6, <2>1, <2>2, <2>3 DEF CaptureCall
<1>7. ASSUME NEW r \in Requests, CaptureAnswer(r) PROVE TypeOK'
  <2> DEFINE id == AnswerId(r)
             t == answeredAt[r]
             match == IF id = None THEN None ELSE Match(pending, id, t)
  <2>1. id \in Ids \cup {None} /\ t \in Times
    BY DEF TypeOK, AnswerId
  <2>2. AnswerTrace(r) \in Trace
    <3>1. CASE match = None
      <4>1. AnswerTrace(r) = Standalone(r, <<"result", r>>, t)
        BY <3>1 DEF AnswerTrace
      <4> QED  BY <2>1, <4>1 DEF Standalone, Trace
    <3>2. CASE match # None
      <4>1. AnswerTrace(r) = [call |-> match.call, message |-> <<"result", r>>,
                              team |-> match.team, from |-> match.at]
        BY <3>2 DEF AnswerTrace
      <4>2. match \in PendingCalls
        BY <1>1, <2>1, <3>2, MatchFacts
      <4> QED  BY <4>1, <4>2 DEF PendingCalls, Trace
    <3> QED  BY <3>1, <3>2
  <2>3. pending' \in Table /\ traces' \subseteq Trace /\ missed' \subseteq Requests
    <3>1. CASE Persist(r, AnswerTrace(r))
               /\ pending' = IF id = None THEN Fresh(pending, t) ELSE Forget(pending, id, t)
      BY <1>1, <1>4, <2>1, <2>2, <3>1, FreshFacts, ForgetFacts
    <3>2. CASE LogFails(r, <<"result", r>>)
      BY <1>1, <3>2 DEF LogFails, TypeOK
    <3> QED  BY <1>7, <3>1, <3>2 DEF CaptureAnswer
  <2>4. pc' \in [Requests -> States] /\ endedAt' \in [Requests -> Times]
    BY <1>2, <1>7 DEF CaptureAnswer
  <2> QED  BY <1>5, <1>7, <2>3, <2>4 DEF CaptureAnswer, TypeOK, clients
<1>8. ASSUME NEW r \in Requests, PersistRefusal(r) PROVE TypeOK'
  <2>1. [call |-> r, message |-> <<"refusal", r>>, team |-> TeamOf[r], from |-> at[r]] \in Trace
    BY DEF Trace, TypeOK
  <2>2. traces' \subseteq Trace /\ missed' \subseteq Requests
    BY <1>4, <1>8, <2>1 DEF PersistRefusal
  <2>3. pc' \in [Requests -> States] /\ endedAt' \in [Requests -> Times]
    BY <1>2, <1>8 DEF PersistRefusal
  <2> QED  BY <1>1, <1>5, <1>8, <2>2, <2>3 DEF PersistRefusal, TypeOK, clients
<1>9. ASSUME NEW r \in Requests, CaptureServed(r) PROVE TypeOK'
  <2>1. pc' \in [Requests -> States] /\ endedAt' \in [Requests -> Times]
    BY <1>2, <1>9 DEF CaptureServed, CaptureCall, Running
  <2>2. pending' \in Table /\ traces' \subseteq Trace /\ missed' \subseteq Requests
    BY <1>6, <1>9 DEF CaptureServed, Running
  <2>3. answeredAt' \in [Requests -> Times]
    BY <1>9 DEF CaptureServed, TypeOK
  <2> QED  BY <1>5, <1>9, <2>1, <2>2, <2>3 DEF CaptureServed, TypeOK, clients
<1>10. ASSUME NEW r \in Requests, CaptureFailed(r) PROVE TypeOK'
  <2>1. pc' \in [Requests -> States] /\ endedAt' \in [Requests -> Times]
    BY <1>2, <1>10 DEF CaptureFailed, CaptureCall
  <2>2. pending' \in Table /\ traces' \subseteq Trace /\ missed' \subseteq Requests
    BY <1>6, <1>10 DEF CaptureFailed
  <2>3. reply' \in [Requests -> Replies]
    BY <1>3, <1>10 DEF CaptureFailed
  <2> QED  BY <1>5, <1>10, <2>1, <2>2, <2>3 DEF CaptureFailed, TypeOK
<1>11. ASSUME NEW r \in Requests, Receive(r) PROVE TypeOK'
  <2>1. pc' \in [Requests -> States] /\ endedAt' \in [Requests -> Times]
    BY <1>2, <1>11 DEF Receive, Running
  <2>2. at' \in [Requests -> Times]
    BY <1>11 DEF Receive, TypeOK
  <2> QED  BY <1>1, <1>5, <1>11, <2>1, <2>2 DEF Receive, TypeOK, clients, record
<1>12. ASSUME NEW r \in Requests, \/ LockUpstream(r) \/ Upstream(r) \/ ReadBody(r) \/ ReplyFails(r)
       PROVE  TypeOK'
  <2>1. pc' \in [Requests -> States] /\ endedAt' \in [Requests -> Times]
    BY <1>2, <1>12
       DEF LockUpstream, Upstream, UpstreamAnswers, UpstreamFails, ReadBody, ReplyFails, Running
  <2>2. mu' \in Requests \cup {None}
    BY <1>12 DEF LockUpstream, Upstream, UpstreamAnswers, UpstreamFails, ReadBody, ReplyFails,
       TypeOK
  <2>3. UNCHANGED <<IdOf, now, at, answeredAt, reply, gone, pending, traces, missed>>
    BY <1>12 DEF LockUpstream, Upstream, UpstreamAnswers, UpstreamFails, ReadBody, ReplyFails,
       clients, record
  <2> QED  BY <1>1, <1>5, <2>1, <2>2, <2>3 DEF TypeOK
<1>13. ASSUME NEW r \in Requests, Refuse(r) \/ ReadBodyFails(r) \/ Reply(r) PROVE TypeOK'
  <2>1. pc' \in [Requests -> States] /\ endedAt' \in [Requests -> Times]
    BY <1>2, <1>13 DEF Refuse, ReadBodyFails, Reply, Running
  <2>2. reply' \in [Requests -> Replies]
    BY <1>3, <1>13 DEF Refuse, ReadBodyFails, Reply
  <2>3. UNCHANGED <<IdOf, now, mu, at, answeredAt, gone, pending, traces, missed>>
    BY <1>13 DEF Refuse, ReadBodyFails, Reply, record
  <2> QED  BY <1>1, <1>5, <2>1, <2>2, <2>3 DEF TypeOK
<1>14. ASSUME NEW r \in Requests, ClientGone(r) PROVE TypeOK'
  BY <1>1, <1>5, <1>14 DEF ClientGone, TypeOK, record
<1>15. CASE Tick
  <2>1. now' \in Times
    BY <1>1, <1>15 DEF Tick, Times
  <2> QED  BY <1>1, <1>5, <1>15, <2>1 DEF Tick, TypeOK, clients, record
<1>16. CASE UNCHANGED vars
  BY <1>1, <1>5, <1>16 DEF vars, TypeOK
<1> QED
  BY <1>7, <1>8, <1>9, <1>10, <1>11, <1>12, <1>13, <1>14, <1>15, <1>16 DEF Next, Handler

LEMMA TypeInit == Init => TypeOK
BY DEF Init, TypeOK, Times, NothingPending

\* Every variable keeps its type: what the tracker hands out and what is
\* persisted are the records of requests and teams.
THEOREM TypeCorrect == Spec => []TypeOK
BY TypeInit, TypeStep, PTL DEF Spec

-----------------------------------------------------------------------------
(* One trace for an exchange.                                              *)

\* What is pending is a call that was captured and has no trace, and is kept
\* under its own id and for its own team.
PendingOK ==
  \A i \in Ids : pending[i] # None =>
    /\ IdOf[pending[i].call] = i
    /\ pending[i].team = TeamOf[pending[i].call]
    /\ pc[pending[i].call] \in Captured
    /\ \A t \in traces : t.call # pending[i].call

\* What has a trace is behind its handler.
TracesOK ==
  \A t \in traces :
    /\ t.call # None => pc[t.call] \in Captured
    /\ t.message[1] = "request" => pc[t.message[2]] \in Captured
    /\ t.message[1] # "request" => pc[t.message[2]] = "done"

Accounted == PendingOK /\ TracesOK /\ OneTracePerExchange /\ PairedWithOwnAnswer

\* A handler that has captured its request stays behind that point, and one
\* that has returned does nothing more.
OnlyForward ==
  \A q \in Requests : /\ pc[q] \in Captured => pc'[q] \in Captured
                      /\ pc[q] = "done" => pc'[q] = "done"

LEMMA NoWayBack ==
  ASSUME TypeOK, [Next]_vars
  PROVE  IdOf' = IdOf /\ OnlyForward
<1>1. ASSUME NEW r \in Requests, NEW from, NEW to, Goto(r, from, to),
             from # "done", from \in Captured => to \in Captured
      PROVE  OnlyForward
  BY <1>1 DEF Goto, TypeOK, OnlyForward
<1>2. ASSUME NEW r \in Requests,
             \/ Receive(r) \/ Refuse(r) \/ PersistRefusal(r) \/ LockUpstream(r) \/ Upstream(r)
             \/ CaptureServed(r) \/ CaptureFailed(r) \/ ReadBody(r) \/ ReadBodyFails(r)
             \/ Reply(r) \/ ReplyFails(r) \/ CaptureAnswer(r)
      PROVE  OnlyForward
  BY <1>1, <1>2
     DEF Receive, Refuse, PersistRefusal, LockUpstream, Upstream, UpstreamAnswers, UpstreamFails,
         CaptureServed, CaptureFailed, CaptureCall, ReadBody, ReadBodyFails, Reply, ReplyFails,
         CaptureAnswer, Captured, OnlyForward
<1>3. IdOf' = IdOf
  BY DEF Next, Handler, Receive, Refuse, PersistRefusal, LockUpstream, Upstream, UpstreamAnswers,
         UpstreamFails, CaptureServed, CaptureFailed, ReadBody, ReadBodyFails, Reply, ReplyFails,
         CaptureAnswer, ClientGone, Tick, vars
<1>4. CASE UNCHANGED pc
  BY <1>3, <1>4 DEF OnlyForward
<1> QED  BY <1>2, <1>3, <1>4 DEF Next, Handler, ClientGone, Tick, vars

\* Nothing is persisted and entries only leave the table.
LEMMA QuietStep ==
  ASSUME TypeOK, TypeOK', Accounted, [Next]_vars, traces' = traces,
         \A i \in Ids : pending'[i] # None => pending'[i] = pending[i]
  PROVE  Accounted'
<1>1. IdOf' = IdOf /\ OnlyForward
  BY NoWayBack
<1>2. PendingOK'
  <2>1. \A i \in Ids : pending[i] # None => pending[i].call \in Requests
    BY DEF TypeOK
  <2> QED  BY <1>1, <2>1 DEF OnlyForward, Accounted, PendingOK
<1>3. TracesOK'
  <2>1. \A t \in traces : t.call \in Requests \cup {None} /\ t.message[2] \in Requests
    BY DEF TypeOK, Trace
  <2> QED  BY <1>1, <2>1 DEF OnlyForward, Accounted, TracesOK
<1>4. OneTracePerExchange' /\ PairedWithOwnAnswer'
  BY <1>1 DEF Accounted, OneTracePerExchange, PairedWithOwnAnswer, Unambiguous
<1> QED  BY <1>2, <1>3, <1>4 DEF Accounted

\* One trace is added, of a message that has none and of a call that has none and
\* is not pending any more.
LEMMA PersistStep ==
  ASSUME TypeOK, TypeOK', Accounted, [Next]_vars, NEW trace \in Trace,
         traces' = traces \cup {trace},
         \A i \in Ids : pending'[i] # None =>
           pending'[i] = pending[i] /\ trace.call # pending[i].call,
         \A t \in traces : t.message # trace.message /\ (t.call = None \/ t.call # trace.call),
         trace.call # None => pc'[trace.call] \in Captured,
         trace.message[1] = "request" => pc'[trace.message[2]] \in Captured,
         trace.message[1] # "request" => pc'[trace.message[2]] = "done",
         trace.call # None /\ Unambiguous(trace.call)
         => trace.message[2] = trace.call /\ trace.team = TeamOf[trace.call]
  PROVE  Accounted'
<1>1. IdOf' = IdOf /\ OnlyForward
  BY NoWayBack
<1>2. PendingOK'
  <2>1. \A i \in Ids : pending[i] # None => pending[i].call \in Requests
    BY DEF TypeOK
  <2> QED  BY <1>1, <2>1 DEF OnlyForward, Accounted, PendingOK
<1>3. TracesOK'
  <2>1. \A t \in traces : t.call \in Requests \cup {None} /\ t.message[2] \in Requests
    BY DEF TypeOK, Trace
  <2> QED  BY <1>1, <2>1 DEF OnlyForward, Accounted, TracesOK
<1>4. OneTracePerExchange'
  BY DEF Accounted, OneTracePerExchange
<1>5. PairedWithOwnAnswer'
  BY <1>1 DEF Accounted, PairedWithOwnAnswer, Unambiguous
<1> QED  BY <1>2, <1>3, <1>4, <1>5 DEF Accounted

LEMMA RefusalStep ==
  ASSUME TypeOK, TypeOK', Accounted, [Next]_vars, NEW r \in Requests, PersistRefusal(r)
  PROVE  Accounted'
<1> DEFINE trace == [call |-> r, message |-> <<"refusal", r>>, team |-> TeamOf[r],
                     from |-> at[r]]
<1>1. pc[r] = "refused" /\ pc'[r] = "done" /\ pending' = pending /\ Persist(r, trace)
  BY DEF PersistRefusal, Goto, TypeOK
<1>2. CASE traces' = traces
  BY <1>1, <1>2, QuietStep
<1>3. CASE traces' = traces \cup {trace}
  <2>1. trace \in Trace /\ traces' = traces \cup {trace}
    BY <1>3 DEF Trace, TypeOK
  <2>2. \A i \in Ids : pending[i] # None => pending[i].call # r
    BY <1>1 DEF Accounted, PendingOK, Captured
  <2>3. \A t \in traces : t.message # <<"refusal", r>> /\ t.call # r
    BY <1>1 DEF Accounted, TracesOK, Captured, TypeOK, Trace
  <2> HIDE DEF trace
  <2>4. trace.call = r /\ trace.message = <<"refusal", r>> /\ trace.team = TeamOf[r]
    BY DEF trace
  <2>5. trace.message[1] = "refusal" /\ trace.message[2] = r
    BY <2>4
  <2> QED  BY <1>1, <2>1, <2>2, <2>3, <2>4, <2>5, PersistStep DEF Captured
<1> HIDE DEF trace
<1> QED  BY <1>1, <1>2, <1>3, PersistFacts

LEMMA CaptureCallStep ==
  ASSUME TypeOK, TypeOK', Accounted, [Next]_vars, NEW r \in Requests, NEW from, NEW to,
         CaptureCall(r, from, to), from \notin Captured, to \in Captured
  PROVE  Accounted'
<1>1. pc[r] = from /\ pc'[r] = to
  BY DEF CaptureCall, Goto, TypeOK
<1>2. \A i \in Ids : pending[i] # None => pending[i].call # r
  BY <1>1 DEF Accounted, PendingOK
<1>3. \A t \in traces : t.call # r /\ t.message # <<"request", r>>
  BY <1>1 DEF Accounted, TracesOK
<1>4. pending \in Table
  BY DEF TypeOK, Table, PendingCalls
<1>5. CASE IdOf[r] = None /\ ~LogFails(r, <<"request", r>>)
  <2> DEFINE trace == Standalone(r, <<"request", r>>, at[r])
  <2>1. pending' = Fresh(pending, at[r]) /\ Persist(r, trace)
    BY <1>5 DEF CaptureCall
  <2>2. \A i \in Ids : pending'[i] # None => pending'[i] = pending[i]
    BY <1>4, <2>1, FreshFacts
  <2>3. CASE traces' = traces
    BY <2>2, <2>3, QuietStep
  <2>4. CASE traces' = traces \cup {trace}
    <3>1. trace \in Trace /\ traces' = traces \cup {trace}
      BY <2>4 DEF Standalone, Trace, TypeOK
    <3>2. trace.call = None /\ trace.message = <<"request", r>>
      BY DEF Standalone
    <3>3. trace.message[1] = "request" /\ trace.message[2] = r
      BY <3>2
    <3>4. \A i \in Ids : pending[i] # None => pending[i].call # None
      BY DEF TypeOK
    <3> HIDE DEF trace
    <3>5. \A t \in traces : t.call = None \/ t.call # trace.call
      BY <3>2
    <3> QED  BY <1>1, <1>3, <2>2, <3>1, <3>2, <3>3, <3>4, <3>5, PersistStep
  <2> HIDE DEF trace
  <2> QED  BY <2>1, <2>3, <2>4, PersistFacts
<1>6. CASE IdOf[r] # None /\ ~LogFails(r, <<"request", r>>)
  <2> DEFINE call == [call |-> r, team |-> TeamOf[r], at |-> at[r]]
  <2>1. pending' = Remember(pending, IdOf[r], call, at[r]) /\ traces' = traces
    BY <1>6 DEF CaptureCall
  <2>2. IdOf[r] \in Ids /\ call \in PendingCalls
    BY <1>6 DEF TypeOK, PendingCalls
  <2>3. /\ pending'[IdOf[r]] = call
        /\ \A i \in Ids \ {IdOf[r]} : pending'[i] # None => pending'[i] = pending[i]
    BY <1>4, <2>1, <2>2, RememberFacts
  <2>4. IdOf' = IdOf /\ OnlyForward
    BY NoWayBack
  <2>5. PendingOK'
    <3> SUFFICES ASSUME NEW i \in Ids, pending'[i] # None
                 PROVE  /\ IdOf'[pending'[i].call] = i
                        /\ pending'[i].team = TeamOf[pending'[i].call]
                        /\ pc'[pending'[i].call] \in Captured
                        /\ \A t \in traces' : t.call # pending'[i].call
      BY DEF PendingOK
    <3>1. CASE i = IdOf[r]
      BY <1>1, <1>3, <2>1, <2>3, <2>4, <3>1
    <3>2. CASE i # IdOf[r]
      <4>1. pending'[i] = pending[i] /\ pending[i].call \in Requests
        BY <2>3, <3>2 DEF TypeOK
      <4> QED  BY <2>1, <2>4, <4>1 DEF OnlyForward, Accounted, PendingOK
    <3> QED  BY <3>1, <3>2
  <2>6. TracesOK'
    <3>1. \A t \in traces : t.call \in Requests \cup {None} /\ t.message[2] \in Requests
      BY DEF TypeOK, Trace
    <3> QED  BY <2>1, <2>4, <3>1 DEF OnlyForward, Accounted, TracesOK
  <2>7. OneTracePerExchange' /\ PairedWithOwnAnswer'
    BY <2>1, <2>4 DEF Accounted, OneTracePerExchange, PairedWithOwnAnswer, Unambiguous
  <2> QED  BY <2>5, <2>6, <2>7 DEF Accounted
<1>7. CASE LogFails(r, <<"request", r>>)
  BY <1>7, QuietStep DEF LogFails
<1> QED  BY <1>5, <1>6, <1>7

\* The call that is matched leaves the table in the step that gives it a trace;
\* it has the id of the answer, and so is its own call if nobody shares the id.
LEMMA CaptureAnswerStep ==
  ASSUME TypeOK, TypeOK', Accounted, [Next]_vars, NEW r \in Requests, CaptureAnswer(r)
  PROVE  Accounted'
<1> DEFINE id == AnswerId(r)
           t0 == answeredAt[r]
           match == IF id = None THEN None ELSE Match(pending, id, t0)
           answer == <<"result", r>>
           trace == AnswerTrace(r)
<1>1. pc[r] = "capture" /\ pc'[r] = "done"
  BY DEF CaptureAnswer, Goto, TypeOK
<1>2. CASE LogFails(r, answer)
  BY <1>2, QuietStep DEF LogFails
<1> SUFFICES ASSUME /\ pending' = IF id = None THEN Fresh(pending, t0) ELSE Forget(pending, id, t0)
                    /\ Persist(r, trace)
             PROVE  Accounted'
  BY <1>2 DEF CaptureAnswer
<1>3. pending \in Table /\ id \in Ids \cup {None} /\ t0 \in Times
  BY DEF TypeOK, Table, PendingCalls, AnswerId
<1>4. \A i \in Ids : pending'[i] # None => pending'[i] = pending[i] /\ i # id
  BY <1>3, FreshFacts, ForgetFacts
<1>5. match # None => id # None /\ match = pending[id] /\ match \in PendingCalls
  BY <1>3, MatchFacts
<1>6. trace.message = answer /\ trace.call = IF match = None THEN None ELSE match.call
  BY DEF Standalone, AnswerTrace
<1>7. match # None => /\ trace.team = match.team /\ IdOf[match.call] = id
                      /\ match.team = TeamOf[match.call] /\ match.call \in Requests
                      /\ pc[match.call] \in Captured
                      /\ \A t \in traces : t.call # match.call
  BY <1>3, <1>5 DEF Accounted, PendingOK, PendingCalls, AnswerTrace
<1>8. CASE traces' = traces
  BY <1>4, <1>8, QuietStep
<1>9. CASE traces' = traces \cup {trace}
  <2>1. traces' = traces \cup {trace}
    BY <1>9
  <2>2. trace \in Trace
    BY <2>1 DEF TypeOK
  <2>3. \A i \in Ids : pending'[i] # None =>
          pending'[i] = pending[i] /\ trace.call # pending[i].call
    <3> SUFFICES ASSUME NEW i \in Ids, pending'[i] # None
                 PROVE  pending'[i] = pending[i] /\ trace.call # pending[i].call
      OBVIOUS
    <3>1. pending'[i] = pending[i] /\ i # id /\ pending[i].call \in Requests
          /\ IdOf[pending[i].call] = i
      BY <1>4 DEF TypeOK, Accounted, PendingOK
    <3>2. CASE match = None
      BY <1>6, <3>1, <3>2
    <3>3. CASE match # None
      BY <1>6, <1>7, <3>1, <3>3
    <3> QED  BY <3>2, <3>3
  <2>4. \A t \in traces : t.message # answer
    BY <1>1 DEF Accounted, TracesOK
  <2>5. \A t \in traces : t.call = None \/ t.call # trace.call
    BY <1>6, <1>7
  <2>6. trace.call # None => pc'[trace.call] \in Captured
    BY <1>6, <1>7, NoWayBack DEF OnlyForward
  <2>7. trace.message[1] = "result" /\ trace.message[2] = r
    BY <1>6
  <2>8. trace.call # None /\ Unambiguous(trace.call)
        => trace.message[2] = trace.call /\ trace.team = TeamOf[trace.call]
    BY <1>5, <1>6, <1>7, <2>7 DEF Unambiguous, AnswerId
  <2> HIDE DEF trace, match, id, t0
  <2> QED  BY <1>1, <1>6, <2>1, <2>2, <2>3, <2>4, <2>5, <2>6, <2>7, <2>8, PersistStep
<1> HIDE DEF trace, match, id, t0
<1> QED  BY <1>8, <1>9, PersistFacts

LEMMA AccountedStep ==
  ASSUME TypeOK, Accounted, [Next]_vars
  PROVE  Accounted'
<1>1. TypeOK'
  BY TypeStep
<1>2. ASSUME NEW r \in Requests, PersistRefusal(r) PROVE Accounted'
  BY <1>1, <1>2, RefusalStep
<1>3. ASSUME NEW r \in Requests, CaptureServed(r) PROVE Accounted'
  BY <1>1, <1>3, CaptureCallStep DEF CaptureServed, Captured
<1>4. ASSUME NEW r \in Requests, CaptureFailed(r) PROVE Accounted'
  BY <1>1, <1>4, CaptureCallStep DEF CaptureFailed, Captured
<1>5. ASSUME NEW r \in Requests, CaptureAnswer(r) PROVE Accounted'
  BY <1>1, <1>5, CaptureAnswerStep
<1>6. CASE UNCHANGED <<pending, traces>>
  BY <1>1, <1>6, QuietStep
<1>7. \/ \E r \in Requests : \/ PersistRefusal(r) \/ CaptureServed(r) \/ CaptureFailed(r)
                             \/ CaptureAnswer(r)
      \/ UNCHANGED <<pending, traces>>
  BY DEF Next, Handler, Receive, Refuse, LockUpstream, Upstream, UpstreamAnswers, UpstreamFails,
         ReadBody, ReadBodyFails, Reply, ReplyFails, ClientGone, Tick, vars, record
<1> QED  BY <1>2, <1>3, <1>4, <1>5, <1>6, <1>7

LEMMA AccountedInit == Init => Accounted
BY DEF Init, Accounted, PendingOK, TracesOK, OneTracePerExchange, PairedWithOwnAnswer,
       NothingPending

\* Handlers interleave in any way, fail anywhere and share ids: a message makes
\* one trace and a call is the request of one.
THEOREM OneTraceCorrect == Spec => []OneTracePerExchange
<1>1. TypeOK /\ Accounted /\ [Next]_vars => (TypeOK /\ Accounted)'
  BY TypeStep, AccountedStep
<1> QED  BY <1>1, TypeInit, AccountedInit, PTL DEF Spec, Accounted

\* Whatever ids other requests share, the call that has one to itself is paired
\* with its own answer, and that is charged to its own team.
THEOREM PairedCorrect == Spec => []PairedWithOwnAnswer
<1>1. TypeOK /\ Accounted /\ [Next]_vars => (TypeOK /\ Accounted)'
  BY TypeStep, AccountedStep
<1> QED  BY <1>1, TypeInit, AccountedInit, PTL DEF Spec, Accounted
-----------------------------------------------------------------------------
(* Prompt calls.                                                           *)

\* The steps of the handler of r.
Turn(r) == Receive(r) \/ Handler(r) \/ Upstream(r)

\* Nobody's clock is ahead of the clock.
Timely == \A r \in Requests : at[r] <= now /\ answeredAt[r] <= now

\* A result is written just before its capture.
Replied == \A r \in Requests : reply[r] = "result" => pc[r] \in {"capture", "done"}

\* Between the captures of its two messages a call with an id of its own stays in
\* the table for as long as it is not stale, unless its own capture failed.
Awaiting(r) == pc[r] \in {"body", "reply", "capture"} /\ IdOf[r] # None /\ Unambiguous(r)
Entry(r) == [call |-> r, team |-> TeamOf[r], at |-> at[r]]
Held ==
  \A r \in Requests :
    Awaiting(r) /\ r \notin missed /\ now <= at[r] + StaleAfter => pending[IdOf[r]] = Entry(r)

Prompt == Timely /\ Replied /\ Held /\ PromptCallsTraced

\* A handler touches only what is its own.
LEMMA OwnTurn ==
  ASSUME TypeOK, NEW r \in Requests, Turn(r), NEW q \in Requests, q # r
  PROVE  /\ pc'[q] = pc[q] /\ at'[q] = at[q] /\ answeredAt'[q] = answeredAt[q]
         /\ reply'[q] = reply[q] /\ endedAt'[q] = endedAt[q]
<1>1. ASSUME NEW from, NEW to, Goto(r, from, to)
      PROVE  pc'[q] = pc[q] /\ endedAt'[q] = endedAt[q]
  BY <1>1 DEF Goto, TypeOK
<1>2. pc'[q] = pc[q] /\ endedAt'[q] = endedAt[q]
  BY <1>1 DEF Turn, Handler, Receive, Refuse, PersistRefusal, LockUpstream, Upstream,
       UpstreamAnswers, UpstreamFails, CaptureServed, CaptureFailed, CaptureCall, ReadBody,
       ReadBodyFails, Reply, ReplyFails, CaptureAnswer
<1>3. ASSUME NEW what, Send(r, what) PROVE reply'[q] = reply[q]
  BY <1>3 DEF Send, TypeOK
<1>4. reply'[q] = reply[q]
  BY <1>3 DEF Turn, Handler, Receive, Refuse, PersistRefusal, LockUpstream, Upstream,
       UpstreamAnswers, UpstreamFails, CaptureServed, CaptureFailed, ReadBody,
       ReadBodyFails, Reply, ReplyFails, CaptureAnswer, clients
<1>5. at'[q] = at[q] /\ answeredAt'[q] = answeredAt[q]
  BY DEF Turn, Handler, Receive, Refuse, PersistRefusal, LockUpstream, Upstream,
       UpstreamAnswers, UpstreamFails, CaptureServed, CaptureFailed, ReadBody,
       ReadBodyFails, Reply, ReplyFails, CaptureAnswer, TypeOK
<1> QED  BY <1>2, <1>4, <1>5

\* Where a handler goes, and with what clocks and reply.
LEMMA TurnFacts ==
  ASSUME TypeOK, NEW r \in Requests, Turn(r)
  PROVE  /\ UNCHANGED <<IdOf, now, gone>> /\ traces \subseteq traces' /\ missed \subseteq missed'
         /\ pc[r] # "done" /\ pc'[r] # pc[r]
         /\ at'[r] \in {at[r], now} /\ answeredAt'[r] \in {answeredAt[r], now}
         /\ pc[r] # "idle" => at'[r] = at[r]
         /\ pc'[r] = "done" => endedAt'[r] = now
         /\ pc'[r] \in {"body", "reply", "capture"} =>
              CaptureServed(r) \/ pc[r] \in {"body", "reply"}
         /\ pc'[r] = "done" => \/ PersistRefusal(r) \/ CaptureFailed(r) \/ ReadBodyFails(r)
                               \/ ReplyFails(r) \/ CaptureAnswer(r)
<1>1. \A from, to : Goto(r, from, to) =>
        pc[r] = from /\ pc'[r] = to /\ (to = "done" => endedAt'[r] = now)
  BY DEF Goto, TypeOK
<1>2. UNCHANGED <<IdOf, now, gone>>
  BY DEF Turn, Handler, Receive, Refuse, PersistRefusal, LockUpstream, Upstream,
       UpstreamAnswers, UpstreamFails, CaptureServed, CaptureFailed, ReadBody,
       ReadBodyFails, Reply, ReplyFails, CaptureAnswer, clients
<1>3. traces \subseteq traces' /\ missed \subseteq missed'
  BY DEF Turn, Handler, Receive, Refuse, PersistRefusal, LockUpstream, Upstream,
       UpstreamAnswers, UpstreamFails, CaptureServed, CaptureFailed, CaptureCall, ReadBody,
       ReadBodyFails, Reply, ReplyFails, CaptureAnswer, Persist, LogFails, record
<1>4. at'[r] \in {at[r], now} /\ answeredAt'[r] \in {answeredAt[r], now}
  BY DEF Turn, Handler, Receive, Refuse, PersistRefusal, LockUpstream, Upstream,
       UpstreamAnswers, UpstreamFails, CaptureServed, CaptureFailed, ReadBody,
       ReadBodyFails, Reply, ReplyFails, CaptureAnswer, TypeOK
<1>5. pc[r] # "idle" => at'[r] = at[r]
  BY <1>1 DEF Turn, Handler, Receive, Refuse, PersistRefusal, LockUpstream, Upstream,
       UpstreamAnswers, UpstreamFails, CaptureServed, CaptureFailed, ReadBody,
       ReadBodyFails, Reply, ReplyFails, CaptureAnswer
<1>6. /\ pc[r] # "done" /\ pc'[r] # pc[r] /\ (pc'[r] = "done" => endedAt'[r] = now)
      /\ pc'[r] \in {"body", "reply", "capture"} =>
           CaptureServed(r) \/ pc[r] \in {"body", "reply"}
      /\ pc'[r] = "done" => \/ PersistRefusal(r) \/ CaptureFailed(r) \/ ReadBodyFails(r)
                            \/ ReplyFails(r) \/ CaptureAnswer(r)
  <2>1. CASE \/ Receive(r) \/ Refuse(r) \/ LockUpstream(r) \/ UpstreamAnswers(r)
             \/ UpstreamFails(r)
    BY <1>1, <2>1 DEF Receive, Refuse, LockUpstream, UpstreamAnswers, UpstreamFails
  <2>2. CASE PersistRefusal(r) \/ CaptureFailed(r) \/ ReadBodyFails(r) \/ ReplyFails(r)
             \/ CaptureAnswer(r)
    BY <1>1, <2>2 DEF PersistRefusal, CaptureFailed, CaptureCall, ReadBodyFails, ReplyFails,
                      CaptureAnswer
  <2>3. CASE CaptureServed(r) \/ ReadBody(r) \/ Reply(r)
    BY <1>1, <2>3 DEF CaptureServed, CaptureCall, ReadBody, Reply
  <2> QED  BY <2>1, <2>2, <2>3 DEF Turn, Handler, Upstream
<1> QED  BY <1>2, <1>3, <1>4, <1>5, <1>6

\* A handler drops what is stale in its own time, and what has its own id.
LEMMA TableTurn ==
  ASSUME TypeOK, NEW r \in Requests, Turn(r), Timely,
         NEW i \in Ids, pending[i] # None, IdOf[r] # i
  PROVE  pending'[i] = pending[i] \/ pending[i].at + StaleAfter < now
<1>1. /\ at[r] \in Nat /\ answeredAt[r] \in Nat /\ now \in Nat
      /\ at[r] <= now /\ answeredAt[r] <= now
      /\ pending[i].at \in Nat /\ StaleAfter \in Nat
  BY DEF Timely, TypeOK, Times
<1>2. pending \in Table
  BY DEF TypeOK, Table, PendingCalls
<1>3. ASSUME NEW t \in Nat, t <= now
      PROVE  Fresh(pending, t)[i] = pending[i] \/ pending[i].at + StaleAfter < now
  BY <1>1, <1>3 DEF Fresh
<1>4. ASSUME NEW from, NEW to, CaptureCall(r, from, to)
      PROVE  pending'[i] \in {pending[i], Fresh(pending, at[r])[i]}
  <2>1. CASE pending' = Fresh(pending, at[r])
    BY <2>1
  <2>2. CASE pending' = Remember(pending, IdOf[r], Entry(r), at[r]) /\ IdOf[r] # None
    <3>1. pending' = [Fresh(pending, at[r]) EXCEPT ![IdOf[r]] = Entry(r)]
      BY <2>2 DEF Remember, Entry
    <3> QED  BY <1>2, <3>1, FreshFacts DEF Table
  <2>3. CASE LogFails(r, <<"request", r>>)
    BY <2>3 DEF LogFails
  <2> QED  BY <1>4, <2>1, <2>2, <2>3 DEF CaptureCall, Entry
<1>5. CaptureAnswer(r) => pending'[i] \in {pending[i], Fresh(pending, answeredAt[r])[i]}
  <2> SUFFICES ASSUME CaptureAnswer(r)
               PROVE  pending'[i] \in {pending[i], Fresh(pending, answeredAt[r])[i]}
    OBVIOUS
  <2>1. CASE pending' = Fresh(pending, answeredAt[r])
    BY <2>1
  <2>2. CASE pending' = Forget(pending, AnswerId(r), answeredAt[r]) /\ AnswerId(r) # None
    <3>1. pending' = [Fresh(pending, answeredAt[r]) EXCEPT ![IdOf[r]] = None]
      BY <2>2 DEF Forget, AnswerId
    <3> QED  BY <1>2, <3>1, FreshFacts DEF Table
  <2>3. CASE LogFails(r, <<"result", r>>)
    BY <2>3 DEF LogFails
  <2> QED  BY <2>1, <2>2, <2>3 DEF CaptureAnswer
<1>6. \/ CaptureAnswer(r) \/ CaptureCall(r, "served", "body") \/ CaptureCall(r, "failed", "done")
      \/ pending' = pending
  BY DEF Turn, Handler, Receive, Refuse, PersistRefusal, LockUpstream, Upstream,
       UpstreamAnswers, UpstreamFails, CaptureServed, CaptureFailed, ReadBody,
       ReadBodyFails, Reply, ReplyFails, record
<1> QED  BY <1>1, <1>3, <1>4, <1>5, <1>6

LEMMA TimelyTurn ==
  ASSUME TypeOK, Timely, NEW r \in Requests, Turn(r)
  PROVE  Timely'
<1>1. ASSUME NEW q \in Requests PROVE at'[q] <= now' /\ answeredAt'[q] <= now'
  <2>1. at'[q] \in {at[q], now} /\ answeredAt'[q] \in {answeredAt[q], now} /\ now' = now
    BY OwnTurn, TurnFacts
  <2>2. at[q] <= now /\ answeredAt[q] <= now /\ now <= now
    BY DEF Timely, TypeOK, Times
  <2> QED  BY <2>1, <2>2
<1> QED  BY <1>1 DEF Timely

LEMMA RepliedTurn ==
  ASSUME TypeOK, Replied, NEW r \in Requests, Turn(r)
  PROVE  Replied'
<1>1. reply'[r] = "result" => pc'[r] \in {"capture", "done"}
  <2>1. \A from, to : Goto(r, from, to) => pc[r] = from /\ pc'[r] = to
    BY DEF Goto, TypeOK
  <2>2. \A what : Send(r, what) => reply'[r] \in {reply[r], what}
    BY DEF Send, TypeOK
  <2>3. pc[r] \notin {"capture", "done"} => reply[r] # "result"
    BY DEF Replied
  <2>4. CASE Reply(r)
    BY <2>1, <2>4 DEF Reply
  <2>5. CASE CaptureAnswer(r)
    BY <2>1, <2>5 DEF CaptureAnswer
  <2>6. CASE Refuse(r) \/ CaptureFailed(r) \/ ReadBodyFails(r)
    <3>1. pc[r] \notin {"capture", "done"}
      BY <2>1, <2>6 DEF Refuse, CaptureFailed, CaptureCall, ReadBodyFails
    <3>2. reply'[r] \in {reply[r], "refusal", "error"}
      BY <2>2, <2>6 DEF Refuse, CaptureFailed, ReadBodyFails
    <3> QED  BY <2>3, <3>1, <3>2
  <2>7. CASE \/ Receive(r) \/ PersistRefusal(r) \/ LockUpstream(r) \/ UpstreamAnswers(r)
             \/ UpstreamFails(r) \/ CaptureServed(r) \/ ReadBody(r) \/ ReplyFails(r)
    <3>1. pc[r] \notin {"capture", "done"}
      BY <2>1, <2>7 DEF Receive, PersistRefusal, LockUpstream, UpstreamAnswers, UpstreamFails,
                        CaptureServed, CaptureCall, ReadBody, ReplyFails
    <3>2. reply' = reply
      BY <2>7 DEF Receive, PersistRefusal, LockUpstream, UpstreamAnswers, UpstreamFails,
                  CaptureServed, ReadBody, ReplyFails, clients
    <3> QED  BY <2>3, <3>1, <3>2
  <2> QED  BY <2>4, <2>5, <2>6, <2>7 DEF Turn, Handler, Upstream
<1>2. ASSUME NEW q \in Requests, q # r PROVE reply'[q] = "result" => pc'[q] \in {"capture", "done"}
  BY <1>2, OwnTurn DEF Replied
<1>3. \A q \in Requests : reply'[q] = "result" => pc'[q] \in {"capture", "done"}
  BY <1>1, <1>2
<1> QED  BY <1>3 DEF Replied

LEMMA HeldTurn ==
  ASSUME TypeOK, Timely, Held, NEW r \in Requests, Turn(r)
  PROVE  Held'
<1> SUFFICES ASSUME NEW q \in Requests, Awaiting(q)', q \notin missed', now' <= at'[q] + StaleAfter
             PROVE  pending'[IdOf'[q]] = Entry(q)'
  BY DEF Held
<1>1. q \notin missed /\ IdOf' = IdOf /\ now' = now /\ IdOf[q] # None /\ Unambiguous(q) /\ IdOf[q] \in Ids
  BY TurnFacts DEF Awaiting, Unambiguous, TypeOK
<1>2. CASE q # r
  <2>1. pc'[q] = pc[q] /\ at'[q] = at[q]
    BY <1>2, OwnTurn
  <2>2. pending[IdOf[q]] = Entry(q)
    BY <1>1, <2>1 DEF Held, Awaiting
  <2>3. /\ IdOf[r] # IdOf[q]
        /\ Entry(q) # None /\ Entry(q).at = at[q]
    BY <1>1, <1>2 DEF Unambiguous, Entry, TypeOK
  <2>4. at[q] \in Nat /\ now \in Nat /\ StaleAfter \in Nat
    BY DEF TypeOK, Times
  <2>5. pending'[IdOf[q]] = pending[IdOf[q]]
    BY <1>1, <2>1, <2>2, <2>3, <2>4, TableTurn
  <2> QED  BY <1>1, <2>1, <2>2, <2>5 DEF Entry
<1>3. CASE q = r /\ ~CaptureServed(r)
  <2>1. pc[q] \in {"body", "reply"}
    BY <1>3, TurnFacts DEF Awaiting
  <2>2. at'[q] = at[q]
    BY <1>3, <2>1, TurnFacts
  <2>3. pending[IdOf[q]] = Entry(q)
    BY <1>1, <2>1, <2>2 DEF Held, Awaiting
  <2>4. pending' = pending
    <3>1. \A from, to : Goto(q, from, to) => pc[q] = from /\ pc'[q] = to
      BY DEF Goto, TypeOK
    <3> QED
      BY <1>3, <2>1, <3>1 DEF Turn, Handler, Receive, Refuse, PersistRefusal, LockUpstream,
         Upstream, UpstreamAnswers, UpstreamFails, CaptureFailed, CaptureCall, ReadBody,
         ReadBodyFails, Reply, ReplyFails, CaptureAnswer, record
  <2> QED  BY <1>1, <2>2, <2>3, <2>4 DEF Entry
<1>4. CASE q = r /\ CaptureServed(r)
  <2>1. pending' = Remember(pending, IdOf[q], Entry(q), at[q]) /\ at' = at
    BY <1>1, <1>4 DEF CaptureServed, CaptureCall, Entry, LogFails
  <2>2. pending \in Table /\ Entry(q) \in PendingCalls
    BY DEF TypeOK, Table, PendingCalls, Entry
  <2>3. pending'[IdOf[q]] = Entry(q)
    BY <1>1, <2>1, <2>2, RememberFacts
  <2> QED  BY <1>1, <2>1, <2>3 DEF Entry
<1> QED  BY <1>2, <1>3, <1>4

\* The step that makes the trace of a prompt call.
LEMMA AnswerTraced ==
  ASSUME TypeOK, Timely, Held, NEW r \in Requests, CaptureAnswer(r),
         r \notin gone \cup Unreadable \cup missed', IdOf[r] # None, Unambiguous(r),
         now <= at[r] + StaleAfter
  PROVE  \E t \in traces' : t.call = r /\ t.from = at[r]
<1> DEFINE t0 == answeredAt[r]
           match == Match(pending, IdOf[r], t0)
<1>1. pc[r] = "capture" /\ IdOf[r] \in Ids
  BY DEF CaptureAnswer, Goto, TypeOK
<1>2. pending[IdOf[r]] = Entry(r)
  BY <1>1, TurnFacts DEF Held, Awaiting, Turn, Handler
<1>3. Entry(r) # None /\ Entry(r).at = at[r] /\ Entry(r).call = r
  BY DEF Entry, TypeOK
<1>4. ~(at[r] + StaleAfter < t0)
  BY DEF Timely, TypeOK, Times
<1>5. match = Entry(r)
  BY <1>1, <1>2, <1>3, <1>4 DEF Match, Fresh
<1> DEFINE trace == [call |-> match.call, message |-> <<"result", r>>,
                     team |-> match.team, from |-> match.at]
<1>6. trace \in traces'
  <2>1. AnswerId(r) = IdOf[r] /\ AnswerTrace(r) = trace
    BY <1>3, <1>5 DEF AnswerId, AnswerTrace
  <2>2. Persist(r, AnswerTrace(r))
    BY DEF CaptureAnswer, LogFails
  <2> HIDE DEF trace, match
  <2> QED  BY <2>1, <2>2, PersistFacts
<1>7. trace.call = match.call /\ trace.from = match.at
  OBVIOUS
<1> HIDE DEF trace, match
<1>8. trace.call = r /\ trace.from = at[r]
  BY <1>3, <1>5, <1>7
<1> QED  BY <1>6, <1>8

LEMMA PromptTurn ==
  ASSUME TypeOK, Prompt, NEW r \in Requests, Turn(r)
  PROVE  PromptCallsTraced'
<1> SUFFICES ASSUME NEW q \in Requests, pc'[q] = "done", reply'[q] = "result",
                    q \notin gone' \cup Unreadable \cup missed', IdOf'[q] # None, Unambiguous(q)',
                    endedAt'[q] <= at'[q] + StaleAfter
             PROVE  \E t \in traces' : t.call = q /\ t.from = at'[q]
  BY DEF PromptCallsTraced
<1>1. /\ IdOf' = IdOf /\ now' = now /\ gone' = gone /\ traces \subseteq traces'
      /\ missed \subseteq missed'
      /\ Unambiguous(q)
  BY TurnFacts DEF Unambiguous
<1>2. CASE q # r
  <2>1. pc'[q] = pc[q] /\ at'[q] = at[q] /\ reply'[q] = reply[q] /\ endedAt'[q] = endedAt[q]
    BY <1>2, OwnTurn
  <2> QED  BY <1>1, <2>1 DEF Prompt, PromptCallsTraced
<1>3. CASE q = r
  <2>1. endedAt'[q] = now
    BY <1>3, TurnFacts
  <2>2. \A from, to : Goto(q, from, to) => pc[q] = from /\ pc'[q] = to
    BY DEF Goto, TypeOK
  <2>3. CASE CaptureAnswer(q)
    <3>1. at' = at
      BY <2>3 DEF CaptureAnswer
    <3> QED  BY <1>1, <2>1, <2>3, <3>1, AnswerTraced DEF Prompt
  <2>4. ~PersistRefusal(q)
    BY <2>2 DEF PersistRefusal, clients, Prompt, Replied
  <2>5. ~(CaptureFailed(q) \/ ReadBodyFails(q))
    BY <1>1 DEF CaptureFailed, ReadBodyFails, Send, TypeOK
  <2>6. ~ReplyFails(q)
    BY <1>1 DEF ReplyFails
  <2> QED  BY <1>3, <2>3, <2>4, <2>5, <2>6, TurnFacts
<1> QED  BY <1>2, <1>3

LEMMA PromptStep ==
  ASSUME TypeOK, Prompt, [Next]_vars
  PROVE  Prompt'
<1>1. ASSUME NEW r \in Requests, Turn(r) PROVE Prompt'
  BY <1>1, TimelyTurn, RepliedTurn, HeldTurn, PromptTurn DEF Prompt
<1>2. CASE Tick
  <2>1. now' = now + 1 /\ now \in Nat
        /\ UNCHANGED <<IdOf, pc, at, answeredAt, reply, gone, pending, traces, missed, endedAt>>
    BY <1>2 DEF Tick, clients, record, TypeOK, Times
  <2>2. Timely'
    BY <2>1 DEF Prompt, Timely, TypeOK, Times
  <2>3. Held'
    <3> SUFFICES ASSUME NEW q \in Requests, Awaiting(q)', q \notin missed', now' <= at'[q] + StaleAfter
                 PROVE  pending'[IdOf'[q]] = Entry(q)'
      BY DEF Held
    <3>1. now <= at[q] + StaleAfter
      BY <2>1 DEF TypeOK, Times
    <3> QED  BY <2>1, <3>1 DEF Prompt, Held, Awaiting, Unambiguous, Entry
  <2>4. Replied' /\ PromptCallsTraced'
    BY <2>1 DEF Prompt, Replied, PromptCallsTraced, Unambiguous
  <2> QED  BY <2>2, <2>3, <2>4 DEF Prompt
<1>3. CASE \/ UNCHANGED vars \/ \E r \in Requests : ClientGone(r)
  <2>1. gone \subseteq gone'
        /\ UNCHANGED <<IdOf, now, pc, at, answeredAt, reply, pending, traces, missed, endedAt>>
    BY <1>3 DEF ClientGone, vars, record
  <2> QED
    BY <2>1 DEF Prompt, Timely, Replied, Held, PromptCallsTraced, Awaiting, Unambiguous, Entry
<1> QED  BY <1>1, <1>2, <1>3 DEF Next, Turn

LEMMA PromptInit == Init => Prompt
BY TypeInit DEF TypeOK, Times, Init, Prompt, Timely, Replied, Held, Awaiting, PromptCallsTraced

\* However late or early other handlers capture, a call with an id of its own
\* that was answered before it was stale is persisted as a call.
THEOREM PromptCorrect == Spec => []PromptCallsTraced
<1>1. TypeOK /\ Prompt /\ [Next]_vars => TypeOK' /\ Prompt'
  BY TypeStep, PromptStep
<1> QED  BY <1>1, TypeInit, PromptInit, PTL DEF Spec, Prompt
-----------------------------------------------------------------------------
(* What the proxy implements.                                              *)

\* Which way a handler went: the budget refuses or the server is asked.
Forks ==
  \A r \in Requests :
    /\ pc[r] = "refused" => r \in Refused /\ IdOf[r] # None
    /\ pc[r] \in Running \ {"received", "refused"} => r \notin Refused \/ IdOf[r] = None

Captures(r) == CaptureServed(r) \/ CaptureFailed(r)

LEMMA ForksTurn ==
  ASSUME TypeOK, Forks, NEW r \in Requests, Turn(r)
  PROVE  /\ Forks'
         /\ Begun' = IF Captures(r) /\ IdOf[r] # None THEN Begun \cup {r} ELSE Begun
         /\ Captures(r) => r \notin Begun
<1>1. \A from, to : Goto(r, from, to) => pc[r] = from /\ pc'[r] = to
  BY DEF Goto, TypeOK
<1>2. IdOf' = IdOf /\ \A q \in Requests : q # r => pc'[q] = pc[q]
  BY OwnTurn, TurnFacts
<1>3. /\ pc'[r] = "refused" => r \in Refused /\ IdOf[r] # None
      /\ pc'[r] \in Running \ {"received", "refused"} => r \notin Refused \/ IdOf[r] = None
      /\ Captures(r) => r \notin Begun
      /\ r \in Begun' <=> r \in Begun \/ (Captures(r) /\ IdOf[r] # None)
  <2>1. CASE Receive(r) \/ Refuse(r) \/ LockUpstream(r)
    <3>1. pc[r] \in {"idle", "received"} /\ pc'[r] \in {"received", "refused", "upstream"}
      BY <1>1, <2>1 DEF Receive, Refuse, LockUpstream
    <3>2. ~Captures(r)
      BY <1>1, <3>1 DEF Captures, CaptureServed, CaptureFailed, CaptureCall
    <3> QED  BY <1>1, <1>2, <2>1, <3>1, <3>2
             DEF Receive, Refuse, LockUpstream, Begun, Running
  <2>2. CASE PersistRefusal(r)
    BY <1>1, <1>2, <2>2
       DEF PersistRefusal, Captures, CaptureServed, CaptureFailed, CaptureCall, Forks, Begun, Running
  <2>3. CASE Upstream(r)
    BY <1>1, <1>2, <2>3
       DEF Upstream, UpstreamAnswers, UpstreamFails, Captures, CaptureServed, CaptureFailed,
           CaptureCall, Forks, Begun, Running
  <2>4. CASE Captures(r)
    BY <1>1, <1>2, <2>4
       DEF Captures, CaptureServed, CaptureFailed, CaptureCall, Forks, Begun, Running
  <2>5. CASE ReadBody(r) \/ ReadBodyFails(r) \/ Reply(r) \/ ReplyFails(r) \/ CaptureAnswer(r)
    <3>1. pc[r] \in {"body", "reply", "capture"} /\ pc'[r] \in {"reply", "capture", "done"}
      BY <1>1, <2>5 DEF ReadBody, ReadBodyFails, Reply, ReplyFails, CaptureAnswer
    <3>2. ~Captures(r)
      BY <1>1, <3>1 DEF Captures, CaptureServed, CaptureFailed, CaptureCall
    <3> QED  BY <1>2, <3>1, <3>2 DEF Forks, Begun, Running
  <2> QED  BY <2>1, <2>2, <2>3, <2>4, <2>5 DEF Turn, Handler, Captures
<1>4. Forks'
  BY <1>2, <1>3 DEF Forks
<1>5. \A q \in Requests : q # r => (q \in Begun' <=> q \in Begun)
  BY <1>2 DEF Begun
<1>6. Begun \subseteq Requests /\ Begun' \subseteq Requests
  BY DEF Begun
<1>7. CASE Captures(r) /\ IdOf[r] # None
  BY <1>3, <1>4, <1>5, <1>6, <1>7
<1>8. CASE ~(Captures(r) /\ IdOf[r] # None)
  <2>1. Begun' = Begun
    BY <1>3, <1>5, <1>6, <1>8
  <2> QED  BY <1>3, <1>4, <1>8, <2>1
<1> QED  BY <1>7, <1>8

\* Entries only leave the table: calls are given up.
LEMMA GivenUp ==
  ASSUME \A i \in Ids : pending'[i] # None => pending'[i] = pending[i]
  PROVE  Open' \subseteq Open
BY DEF Open

LEMMA DropTurn ==
  ASSUME Open' \subseteq Open, Begun' = Begun, traces' = traces
  PROVE  Promise!Next
BY DEF Promise!Next, Promise!Drop

LEMMA CaptureCallExchange ==
  ASSUME TypeOK, Accounted, NEW r \in Requests, NEW from, NEW to,
         CaptureCall(r, from, to), from \notin Captured, r \notin Begun,
         Begun' = IF IdOf[r] # None THEN Begun \cup {r} ELSE Begun
  PROVE  Promise!Next
<1>1. pc[r] = from
  BY DEF CaptureCall, Goto, TypeOK
<1>2. \A t \in traces : t.call # r /\ t.message # <<"request", r>>
  BY <1>1 DEF Accounted, TracesOK
<1>3. pending \in Table
  BY DEF TypeOK, Table, PendingCalls
<1>4. CASE IdOf[r] = None /\ ~LogFails(r, <<"request", r>>)
  <2> DEFINE trace == Standalone(r, <<"request", r>>, at[r])
  <2>1. pending' = Fresh(pending, at[r]) /\ Persist(r, trace)
    BY <1>4 DEF CaptureCall
  <2>2. Open' \subseteq Open
    BY <1>3, <2>1, FreshFacts, GivenUp
  <2>3. CASE traces' = traces
    BY <1>4, <2>2, <2>3, DropTurn
  <2>4. CASE traces' = traces \cup {trace}
    <3>1. trace \in Trace /\ traces' = traces \cup {trace}
      BY <2>4 DEF Standalone, Trace, TypeOK
    <3>2. trace.call = None /\ trace.message = <<"request", r>>
      BY DEF Standalone
    <3> HIDE DEF trace
    <3>3. Promise!Alone(trace)
      BY <1>2, <1>4, <2>2, <3>1, <3>2 DEF Promise!Alone, Promise!Enter
    <3> QED  BY <3>1, <3>3 DEF Promise!Next
  <2> HIDE DEF trace
  <2> QED  BY <2>1, <2>3, <2>4, PersistFacts
<1>5. CASE IdOf[r] # None /\ ~LogFails(r, <<"request", r>>)
  <2> DEFINE call == [call |-> r, team |-> TeamOf[r], at |-> at[r]]
  <2>1. pending' = Remember(pending, IdOf[r], call, at[r]) /\ traces' = traces
    BY <1>5 DEF CaptureCall
  <2>2. IdOf[r] \in Ids /\ call \in PendingCalls
    BY <1>5 DEF TypeOK, PendingCalls
  <2>3. /\ pending'[IdOf[r]] = call
        /\ \A i \in Ids \ {IdOf[r]} : pending'[i] # None => pending'[i] = pending[i]
    BY <1>3, <2>1, <2>2, RememberFacts
  <2>4. call # None /\ call.call = r
    BY <2>2 DEF PendingCalls
  <2> HIDE DEF call
  <2>5. r \in Open' /\ Open' \subseteq Open \cup {r}
    BY <2>2, <2>3, <2>4 DEF Open
  <2>6. Promise!Open(r)
    BY <1>2, <1>5, <2>1, <2>5 DEF Promise!Open, Promise!NoTrace
  <2> QED  BY <2>6 DEF Promise!Next
<1>6. CASE LogFails(r, <<"request", r>>)
  <2>1. Open' = Open /\ traces' = traces
    BY <1>6 DEF LogFails, Open
  <2>2. CASE IdOf[r] # None
    <3>1. r \notin Open
      BY <1>1 DEF Open, Accounted, PendingOK
    <3>2. Promise!Miss(r)
      BY <2>1, <2>2, <3>1 DEF Promise!Miss
    <3> QED  BY <3>2 DEF Promise!Next
  <2>3. CASE IdOf[r] = None
    BY <2>1, <2>3, DropTurn
  <2> QED  BY <2>2, <2>3
<1> QED  BY <1>4, <1>5, <1>6

LEMMA RefusalExchange ==
  ASSUME TypeOK, Accounted, NEW r \in Requests, PersistRefusal(r), Begun' = Begun
  PROVE  Promise!Next
<1> DEFINE trace == [call |-> r, message |-> <<"refusal", r>>, team |-> TeamOf[r],
                     from |-> at[r]]
<1>1. pc[r] = "refused" /\ pending' = pending /\ Persist(r, trace)
  BY DEF PersistRefusal, Goto, TypeOK
<1>2. Open' \subseteq Open
  BY <1>1, GivenUp
<1>3. CASE traces' = traces
  BY <1>2, <1>3, DropTurn
<1>4. CASE traces' = traces \cup {trace}
  <2>1. trace \in Trace /\ traces' = traces \cup {trace}
    BY <1>4 DEF Trace, TypeOK
  <2>2. trace.call = r /\ trace.message = <<"refusal", r>> /\ trace.message[1] = "refusal"
    OBVIOUS
  <2>3. \A t \in traces : t.message # <<"refusal", r>> /\ t.call # r
    BY <1>1 DEF Accounted, TracesOK, Captured, TypeOK, Trace
  <2>4. r \notin Begun
    BY <1>1 DEF Begun
  <2> HIDE DEF trace
  <2>5. Promise!Refuse(trace)
    BY <1>2, <2>1, <2>2, <2>3, <2>4 DEF Promise!Refuse, Promise!Enter, Promise!NoTrace
  <2> QED  BY <2>1, <2>5 DEF Promise!Next
<1> HIDE DEF trace
<1> QED  BY <1>1, <1>3, <1>4, PersistFacts

LEMMA AnswerExchange ==
  ASSUME TypeOK, Accounted, NEW r \in Requests, CaptureAnswer(r), Begun' = Begun
  PROVE  Promise!Next
<1> DEFINE id == AnswerId(r)
           t0 == answeredAt[r]
           match == IF id = None THEN None ELSE Match(pending, id, t0)
           answer == <<"result", r>>
           trace == AnswerTrace(r)
<1>1. pc[r] = "capture"
  BY DEF CaptureAnswer, Goto, TypeOK
<1>2. CASE LogFails(r, answer)
  BY <1>2, GivenUp, DropTurn DEF LogFails
<1> SUFFICES ASSUME /\ pending' = IF id = None THEN Fresh(pending, t0) ELSE Forget(pending, id, t0)
                    /\ Persist(r, trace)
             PROVE  Promise!Next
  BY <1>2 DEF CaptureAnswer
<1>3. pending \in Table /\ id \in Ids \cup {None} /\ t0 \in Times
  BY DEF TypeOK, Table, PendingCalls, AnswerId
<1>4. \A i \in Ids : pending'[i] # None => pending'[i] = pending[i] /\ i # id
  BY <1>3, FreshFacts, ForgetFacts
<1>5. match # None => id \in Ids /\ match = pending[id] /\ match \in PendingCalls
  BY <1>3, MatchFacts
<1>6. trace.message = answer /\ trace.call = IF match = None THEN None ELSE match.call
  BY DEF Standalone, AnswerTrace
<1>7. Open' \subseteq Open
  BY <1>4, GivenUp
<1>8. CASE traces' = traces
  BY <1>7, <1>8, DropTurn
<1>9. CASE traces' = traces \cup {trace}
  <2>1. traces' = traces \cup {trace}
    BY <1>9
  <2>2. trace \in Trace
    <3>1. CASE match = None
      <4>1. trace = Standalone(r, answer, t0)
        BY <3>1 DEF AnswerTrace
      <4> QED  BY <1>3, <4>1 DEF Standalone, Trace
    <3>2. CASE match # None
      <4>1. trace = [call |-> match.call, message |-> answer, team |-> match.team,
                     from |-> match.at]
        BY <3>2 DEF AnswerTrace
      <4> QED  BY <1>5, <3>2, <4>1 DEF Trace, PendingCalls
    <3> QED  BY <3>1, <3>2
  <2>3. \A t \in traces : t.message # answer
    BY <1>1 DEF Accounted, TracesOK
  <2>4. match # None => /\ match.call \in Open /\ IdOf[match.call] = id
                        /\ \A t \in traces : t.call # match.call
    BY <1>5 DEF Accounted, PendingOK, Open
  <2>5. match # None => match.call \notin Open'
    <3> SUFFICES ASSUME match # None, NEW i \in Ids, pending'[i] # None
                 PROVE  pending'[i].call # match.call
      BY DEF Open
    <3> QED  BY <1>4, <2>4 DEF Accounted, PendingOK
  <2> HIDE DEF trace, match, id, t0
  <2>6. Promise!Enter(trace)
    BY <1>6, <2>1, <2>3 DEF Promise!Enter
  <2>7. Promise!Alone(trace) \/ Promise!Close(trace)
    BY <1>6, <1>7, <2>4, <2>5, <2>6 DEF Promise!Alone, Promise!Close, Promise!NoTrace
  <2> QED  BY <2>2, <2>7 DEF Promise!Next
<1> HIDE DEF trace, match, id, t0
<1> QED  BY <1>8, <1>9, PersistFacts

LEMMA ExchangesTurn ==
  ASSUME TypeOK, Accounted, Forks, NEW r \in Requests, Turn(r)
  PROVE  Promise!Next
<1>1. /\ Begun' = IF Captures(r) /\ IdOf[r] # None THEN Begun \cup {r} ELSE Begun
      /\ Captures(r) => r \notin Begun
  BY ForksTurn
<1>2. \A from, to : Goto(r, from, to) => pc[r] = from
  BY DEF Goto, TypeOK
<1>3. Captures(r) => pc[r] \in {"served", "failed"}
  BY <1>2 DEF Captures, CaptureServed, CaptureFailed, CaptureCall
<1>4. CASE Captures(r)
  BY <1>1, <1>4, CaptureCallExchange DEF Captures, CaptureServed, CaptureFailed, Captured
<1>5. CASE PersistRefusal(r)
  <2>1. ~Captures(r)
    BY <1>2, <1>3, <1>5 DEF PersistRefusal
  <2> QED  BY <1>1, <1>5, <2>1, RefusalExchange
<1>6. CASE CaptureAnswer(r)
  <2>1. ~Captures(r)
    BY <1>2, <1>3, <1>6 DEF CaptureAnswer
  <2> QED  BY <1>1, <1>6, <2>1, AnswerExchange
<1>7. CASE /\ ~Captures(r) /\ UNCHANGED record
  BY <1>1, <1>7, GivenUp, DropTurn DEF record
<1>8. Captures(r) \/ PersistRefusal(r) \/ CaptureAnswer(r) \/ UNCHANGED record
  BY DEF Turn, Handler, Receive, Refuse, LockUpstream, Upstream, UpstreamAnswers, UpstreamFails,
         ReadBody, ReadBodyFails, Reply, ReplyFails, Captures
<1> QED  BY <1>4, <1>5, <1>6, <1>7, <1>8

\* Whatever the handlers, the clients and the server do, the proxy only opens a
\* call, closes one with a message of its own, drops some, or records a message
\* that closes nothing.
THEOREM ExchangesCorrect == Spec => ImplementsExchanges
<1>1. Init => Promise!Init /\ Forks
  BY DEF Init, NothingPending, Promise!Init, Begun, Open, Forks, Running
<1>2. TypeOK /\ Accounted /\ Forks /\ [Next]_vars
      => [Promise!Next]_<<Begun, Open, traces>> /\ Forks'
  <2> SUFFICES ASSUME TypeOK, Accounted, Forks, [Next]_vars
               PROVE  [Promise!Next]_<<Begun, Open, traces>> /\ Forks'
    OBVIOUS
  <2>1. ASSUME NEW r \in Requests, Turn(r) PROVE Promise!Next /\ Forks'
    BY <2>1, ForksTurn, ExchangesTurn
  <2>2. CASE UNCHANGED <<IdOf, pc, record>>
    BY <2>2 DEF record, Begun, Open, Forks
  <2> QED  BY <2>1, <2>2 DEF Next, Turn, ClientGone, Tick, vars, record
<1>3. TypeOK /\ Accounted /\ [Next]_vars => (TypeOK /\ Accounted)'
  BY TypeStep, AccountedStep
<1> QED
  BY <1>1, <1>2, <1>3, TypeInit, AccountedInit, PTL DEF Spec, ImplementsExchanges, Promise!Spec
=============================================================================
