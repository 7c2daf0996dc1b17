-------------------------- MODULE StdioProxyProofs ---------------------------
(***************************************************************************)
(* Proofs about StdioProxy, for any calls, ids and interleaving of the two *)
(* forwarders and the two ends; and, in the last section, about            *)
(* StdioSession.                                                           *)
(***************************************************************************)
EXTENDS StdioProxy, StdioSession, TLAPS

USE StdioAssumption

Everything == Calls \cup ServerCalls

\* What the client writes and what the server writes.
FromClient == ({"request"} \X Calls) \cup ({"result"} \X ServerCalls)
FromServer == ({"request"} \X ServerCalls) \cup ({"result"} \X Calls)

LEMMA MessageFacts ==
  /\ FromClient \subseteq Message /\ FromServer \subseteq Message
  /\ \A m \in Message : m[1] \in {"request", "result", "refusal"} /\ m[2] \in Everything
                        /\ m = <<m[1], m[2]>>
BY DEF FromClient, FromServer, Message, Everything

\* A forwarder has a frame from reading it until it is captured or refused.
InHand(d) == pc[d] \notin {"clock", "read", "failed"}

\* TypeOK, and who may have written what is in a queue or in a forwarder's hand.
Typed ==
  /\ TypeOK
  /\ stdin \in Seq(FromClient) /\ serverOut \in Seq(FromServer)
  /\ InHand("client_to_server") => frame["client_to_server"] \in FromClient
  /\ InHand("server_to_client") => frame["server_to_client"] \in FromServer

-----------------------------------------------------------------------------
(* The tracker.                                                            *)

PendingCalls == [call : Calls, at : Times]
Table == [Ids -> PendingCalls \cup {None}]

\* Eviction only takes entries away.
LEMMA FreshFacts ==
  ASSUME NEW table \in Table, NEW t
  PROVE  /\ Fresh(table, t) \in Table
         /\ \A i \in Ids : Fresh(table, t)[i] # None => Fresh(table, t)[i] = table[i]
BY DEF Fresh, Table

LEMMA RememberFacts ==
  ASSUME NEW table \in Table, NEW t, NEW id \in Ids, NEW request \in PendingCalls
  PROVE  /\ Remember(table, id, request, t) \in Table
         /\ Remember(table, id, request, t)[id] = request
         /\ \A i \in Ids \ {id} : Remember(table, id, request, t)[i] # None
                                  => Remember(table, id, request, t)[i] = table[i]
<1>1. Fresh(table, t) \in Table
  BY FreshFacts
<1>2. Remember(table, id, request, t) = [Fresh(table, t) EXCEPT ![id] = request]
  BY DEF Remember
<1>3. \A i \in Ids \ {id} : Remember(table, id, request, t)[i] = Fresh(table, t)[i]
  BY <1>1, <1>2 DEF Table
<1> QED  BY <1>1, <1>2, <1>3, FreshFacts DEF Table

LEMMA ForgetFacts ==
  ASSUME NEW table \in Table, NEW t, NEW id \in Ids
  PROVE  /\ Forget(table, id, t) \in Table
         /\ \A i \in Ids : Forget(table, id, t)[i] # None
                           => i # id /\ Forget(table, id, t)[i] = table[i]
<1>1. Fresh(table, t) \in Table
  BY FreshFacts
<1>2. Forget(table, id, t) = [Fresh(table, t) EXCEPT ![id] = None]
  BY DEF Forget
<1> QED  BY <1>1, <1>2, FreshFacts DEF Table

LEMMA MatchFacts ==
  ASSUME NEW table \in Table, NEW t, NEW id \in Ids, Match(table, id, t) # None
  PROVE  Match(table, id, t) = table[id] /\ table[id] \in PendingCalls
BY FreshFacts DEF Match, Table

-----------------------------------------------------------------------------
(* Types.                                                                  *)

LEMMA AppendType ==
  ASSUME NEW S, NEW q \in Seq(S), NEW e \in S
  PROVE  Append(q, e) \in Seq(S)
OBVIOUS

\* One forwarder moves and keeps its frame; the other is not touched.
LEMMA GotoFacts ==
  ASSUME TypeOK, NEW d \in Dirs, NEW from, NEW to, Goto(d, from, to)
  PROVE  /\ pc[d] = from /\ pc'[d] = to
         /\ \A e \in Dirs : e # d => pc'[e] = pc[e]
BY DEF Goto, TypeOK

LEMMA TypedStep ==
  ASSUME Typed, [Next]_vars
  PROVE  Typed'
<1> DEFINE c == "client_to_server"
           s == "server_to_client"
           Chunks == {"header", "payload"} \X Message
           States == {"clock", "read", "budget", "refuse", "refusing", "refused",
                      "failed", "header", "payload", "capture"}
<1>1. c \in Dirs /\ s \in Dirs /\ now \in Nat
  BY DEF Dirs, Typed, TypeOK, Times
<1>2. pending \in Table /\ Table = [Ids -> [call : Calls, at : Times] \cup {None}]
  BY DEF Typed, TypeOK, Table, PendingCalls
<1>3. InHand(c) => /\ frame[c] \in FromClient /\ frame[c] \in Message
                   /\ frame[c][2] \in Everything
  BY MessageFacts DEF Typed
<1>4. InHand(s) => /\ frame[s] \in FromServer /\ frame[s] \in Message
                   /\ frame[s][2] \in Everything /\ IdOfMessage(frame[s]) \in Ids
  BY MessageFacts DEF Typed, IdOfMessage, Everything
<1> HIDE DEF c, s
<1>5. ASSUME NEW m \in FromClient, stdin' = Append(stdin, m), written' = written \cup {m},
             UNCHANGED <<now, serverIn, serverOut, stdout, forwarders, record>>
      PROVE  Typed'
  BY <1>5, MessageFacts DEF Typed, TypeOK, InHand, forwarders, record
<1>6. ASSUME NEW m \in FromServer, ServerWrites(m) PROVE Typed'
  BY <1>6, MessageFacts DEF ServerWrites, Typed, TypeOK, InHand, forwarders, record
<1>7. CASE Tick
  <2>1. now' \in Times
    BY <1>1, <1>7 DEF Tick, Times
  <2> QED  BY <1>7, <2>1 DEF Tick, Typed, TypeOK, InHand, pipes, forwarders, record
<1>8. ASSUME NEW d \in Dirs, ReadClock(d) PROVE Typed'
  <2>1. at' \in [Dirs -> Times] /\ pc' \in [Dirs -> States]
    BY <1>8 DEF ReadClock, Goto, Typed, TypeOK
  <2>2. \A e \in Dirs : InHand(e)' => InHand(e)
    BY <1>8, GotoFacts DEF ReadClock, InHand, Typed
  <2>3. \A e \in Dirs : frame'[e] = frame[e]
    BY <1>8 DEF ReadClock
  <2> QED  BY <1>1, <1>8, <2>1, <2>2, <2>3 DEF ReadClock, Typed, TypeOK, pipes, record, c, s
<1>9. CASE ReadFrame(c)
  <2>1. stdin # <<>> /\ frame' = [frame EXCEPT ![c] = Head(stdin)] /\ Goto(c, "read", "budget")
        /\ stdin' = Tail(stdin) /\ serverOut' = serverOut
    BY <1>9 DEF ReadFrame, c
  <2>2. Head(stdin) \in FromClient /\ stdin' \in Seq(FromClient) /\ stdin' \in Seq(Message)
    BY <2>1, MessageFacts DEF Typed, TypeOK
  <2>3. pc' \in [Dirs -> States] /\ frame' \in [Dirs -> Message \cup {None}]
        /\ frame'[c] \in FromClient /\ frame'[s] = frame[s] /\ pc'[s] = pc[s]
    BY <1>1, <2>1, <2>2, MessageFacts DEF Goto, Typed, TypeOK, c, s
  <2> QED  BY <1>9, <2>1, <2>2, <2>3 DEF ReadFrame, Typed, TypeOK, InHand, record, c, s
<1>10. CASE ReadFrame(s)
  <2>1. serverOut # <<>> /\ frame' = [frame EXCEPT ![s] = Head(serverOut)]
        /\ Goto(s, "read", "header") /\ serverOut' = Tail(serverOut) /\ stdin' = stdin
    BY <1>10 DEF ReadFrame, s
  <2>2. Head(serverOut) \in FromServer /\ serverOut' \in Seq(FromServer)
        /\ serverOut' \in Seq(Message)
    BY <2>1, MessageFacts DEF Typed, TypeOK
  <2>3. pc' \in [Dirs -> States] /\ frame' \in [Dirs -> Message \cup {None}]
        /\ frame'[s] \in FromServer /\ frame'[c] = frame[c] /\ pc'[c] = pc[c]
    BY <1>1, <2>1, <2>2, MessageFacts DEF Goto, Typed, TypeOK, c, s
  <2> QED  BY <1>10, <2>1, <2>2, <2>3 DEF ReadFrame, Typed, TypeOK, InHand, record, c, s
<1>11. CASE Forward \/ Refuse \/ RefusalHeader \/ RefusalPayload \/ Header \/ Payload
  <2>1. InHand(c) \/ ~(Forward \/ Refuse \/ RefusalHeader \/ RefusalPayload)
    BY DEF Forward, Refuse, RefusalHeader, RefusalPayload, Goto, InHand, c
  <2>2. InHand(s) \/ ~(Header \/ Payload)
    BY DEF Header, Payload, Goto, InHand, s
  <2>3. pc' \in [Dirs -> States] /\ \A e \in Dirs : InHand(e)' => InHand(e)
    BY <1>11 DEF Forward, Refuse, RefusalHeader, RefusalPayload, Header, Payload, Goto, InHand,
                 Typed, TypeOK, Dirs
  <2>4. serverIn' \in Seq(Message)
    <3>1. CASE Forward
      BY <1>3, <2>1, <3>1 DEF Forward, Typed, TypeOK, c
    <3>2. CASE Refuse \/ RefusalHeader \/ RefusalPayload \/ Header \/ Payload
      BY <3>2 DEF Refuse, RefusalHeader, RefusalPayload, Header, Payload, pipes, Typed, TypeOK
    <3> QED  BY <1>11, <3>1, <3>2
  <2>5. stdout' \in Seq(Chunks)
    <3>0. \A chunk \in Chunks : Append(stdout, chunk) \in Seq(Chunks)
      <4>1. stdout \in Seq(Chunks)
        BY DEF Typed, TypeOK
      <4> QED  BY <4>1, AppendType
    <3>1. Refusal \in Message \/ ~InHand(c)
      BY <1>3 DEF Refusal, Message, Everything, c
    <3>2. CASE RefusalHeader \/ RefusalPayload
      <4>1. <<"header", Refusal>> \in Chunks /\ <<"payload", Refusal>> \in Chunks
        BY <2>1, <3>1, <3>2
      <4>2. stdout' = Append(stdout, <<"header", Refusal>>)
            \/ stdout' = Append(stdout, <<"payload", Refusal>>)
        BY <3>2 DEF RefusalHeader, RefusalPayload
      <4> HIDE DEF Chunks
      <4> QED  BY <3>0, <4>1, <4>2
    <3>3. CASE Header \/ Payload
      <4>1. <<"header", frame[s]>> \in Chunks /\ <<"payload", frame[s]>> \in Chunks
        BY <1>4, <2>2, <3>3
      <4>2. stdout' = Append(stdout, <<"header", frame[s]>>)
            \/ stdout' = Append(stdout, <<"payload", frame[s]>>)
        BY <3>3 DEF Header, Payload, s
      <4> HIDE DEF Chunks
      <4> QED  BY <3>0, <4>1, <4>2
    <3>4. CASE Forward \/ Refuse
      BY <3>4 DEF Forward, Refuse, pipes, Typed, TypeOK
    <3> QED  BY <1>11, <3>2, <3>3, <3>4
  <2>6. stdoutMu' \in BOOLEAN
    BY <1>11 DEF Forward, Refuse, RefusalHeader, RefusalPayload, Header, Payload, Typed, TypeOK
  <2>7. UNCHANGED <<now, stdin, serverOut, frame, at, record, written>>
    BY <1>11 DEF Forward, Refuse, RefusalHeader, RefusalPayload, Header, Payload, pipes
  <2> QED  BY <1>1, <2>3, <2>4, <2>5, <2>6, <2>7 DEF Typed, TypeOK, record, c, s
<1>12. ASSUME NEW d \in Dirs, NEW from, NEW to \in {"clock", "failed"}, Goto(d, from, to),
              pending' \in Table, traces' \subseteq Trace, lost' \subseteq Calls,
              stdoutMu' \in BOOLEAN,
              UNCHANGED <<now, pipes, frame, at, written>>
       PROVE  Typed'
  <2>1. pc' \in [Dirs -> States] /\ \A e \in Dirs : InHand(e)' => InHand(e)
    BY <1>12 DEF Goto, InHand, Typed, TypeOK
  <2> QED  BY <1>1, <1>2, <1>12, <2>1 DEF Typed, TypeOK, pipes, c, s
<1>13. CASE RefusalPersisted \/ RefusalFails
  <2>1. InHand(c) /\ at[c] \in Times
    BY <1>1, <1>13 DEF RefusalPersisted, RefusalFails, Goto, InHand, Typed, TypeOK, c
  <2>2. RefusedTrace \in Trace
    BY <1>3, <2>1 DEF RefusedTrace, Trace, Refusal, Message, Everything, c
  <2>3. traces' \subseteq Trace
    BY <1>13, <2>2 DEF RefusalPersisted, RefusalFails, Typed, TypeOK
  <2>4. Goto(c, "refused", "clock") \/ Goto(c, "refused", "failed")
    BY <1>13 DEF RefusalPersisted, RefusalFails, c
  <2>5. pending' \in Table /\ lost' \subseteq Calls /\ stdoutMu' \in BOOLEAN
        /\ UNCHANGED <<now, pipes, frame, at, written>>
    BY <1>2, <1>13 DEF RefusalPersisted, RefusalFails, Typed, TypeOK
  <2> QED  BY <1>1, <1>12, <2>3, <2>4, <2>5
<1>14. CASE CaptureCall
  <2>1. InHand(c) /\ at[c] \in Times
    BY <1>1, <1>14 DEF CaptureCall, Goto, InHand, Typed, TypeOK, c
  <2>2. frame[c][2] \in Calls
    BY <1>3, <1>14, <2>1 DEF CaptureCall, IsRequest, FromClient, c
  <2>3. [call |-> frame[c][2], at |-> at[c]] \in PendingCalls /\ IdOf[frame[c][2]] \in Ids
    BY <2>1, <2>2 DEF PendingCalls
  <2>4. pending' \in Table
    BY <1>2, <1>14, <2>3, RememberFacts DEF CaptureCall, c
  <2> QED  BY <1>1, <1>12, <1>14, <2>4 DEF CaptureCall, Typed, TypeOK, c
<1>15. CASE CaptureResult
  <2>1. InHand(c) /\ at[c] \in Times
    BY <1>1, <1>15 DEF CaptureResult, Goto, InHand, Typed, TypeOK, c
  <2>2. Standalone(c) \in Trace
    BY <1>3, <2>1 DEF Standalone, Trace
  <2>3. pending' \in Table
    BY <1>2, <1>15, FreshFacts DEF CaptureResult
  <2>4. traces' \subseteq Trace /\ lost' \subseteq Calls
    <3>1. Standalone(c).call = None
      BY DEF Standalone
    <3> QED  BY <1>15, <2>2, <3>1 DEF CaptureResult, Insert, Typed, TypeOK, c
  <2> QED  BY <1>1, <1>12, <1>15, <2>3, <2>4 DEF CaptureResult, Typed, TypeOK, c
<1>16. CASE CaptureFromServer
  <2> DEFINE match == Match(pending, IdOfMessage(frame[s]), at[s])
  <2>1. InHand(s) /\ at[s] \in Times
    BY <1>1, <1>16 DEF CaptureFromServer, Goto, InHand, Typed, TypeOK, s
  <2>2. pending' = Forget(pending, IdOfMessage(frame[s]), at[s]) /\ Insert(ServerTrace)
    BY <1>16 DEF CaptureFromServer, s
  <2>3. ServerTrace \in Trace /\ ServerTrace.call \in Calls \cup {None}
    <3>1. CASE match = None
      <4>1. ServerTrace = Standalone(s)
        BY <3>1 DEF ServerTrace, s
      <4> QED  BY <1>4, <2>1, <4>1 DEF Standalone, Trace
    <3>2. CASE match # None
      <4>1. match \in PendingCalls
        BY <1>2, <1>4, <2>1, <3>2, MatchFacts
      <4>2. ServerTrace = [call |-> match.call, message |-> frame[s], from |-> match.at]
        BY <3>2 DEF ServerTrace, s
      <4> QED  BY <1>4, <2>1, <4>1, <4>2 DEF Trace, PendingCalls
    <3> QED  BY <3>1, <3>2
  <2>4. pending' \in Table
    BY <1>2, <1>4, <2>1, <2>2, ForgetFacts
  <2>5. traces' \subseteq Trace /\ lost' \subseteq Calls
    BY <2>2, <2>3 DEF Insert, Typed, TypeOK
  <2> QED  BY <1>1, <1>12, <1>16, <2>4, <2>5 DEF CaptureFromServer, Typed, TypeOK, s
<1>22. ASSUME NEW d \in Dirs, LogFails(d) PROVE Typed'
  <2>1. lost' \subseteq Calls
    <3>1. CASE frame[d] \in {"request"} \X Calls
      BY <1>22, <3>1 DEF LogFails, Typed, TypeOK
    <3>2. CASE frame[d] \notin {"request"} \X Calls
      BY <1>22, <3>2 DEF LogFails, Typed, TypeOK
    <3> QED  BY <3>1, <3>2
  <2> QED  BY <1>2, <1>12, <1>22, <2>1 DEF LogFails, Typed, TypeOK
<1>17. CASE UNCHANGED vars
  BY <1>17 DEF vars, Typed, TypeOK, InHand
<1>18. ASSUME NEW k \in Calls, SendCall(k) PROVE Typed'
  BY <1>5, <1>18 DEF SendCall, FromClient
<1>19. ASSUME NEW k \in Calls, ServerAnswers(k) PROVE Typed'
  BY <1>6, <1>19 DEF ServerAnswers, FromServer
<1>20. ASSUME NEW k \in ServerCalls, SendResult(k) PROVE Typed'
  BY <1>5, <1>20 DEF SendResult, FromClient
<1>21. ASSUME NEW k \in ServerCalls, ServerAsks(k) PROVE Typed'
  BY <1>6, <1>21 DEF ServerAsks, FromServer
<1> QED
  BY <1>1, <1>7, <1>8, <1>9, <1>10, <1>11, <1>13, <1>14, <1>15, <1>16, <1>17, <1>18, <1>19,
     <1>20, <1>21, <1>22 DEF Next, ClientToServer, ServerToClient, c, s

LEMMA TypedInit == Init => Typed
<1> SUFFICES ASSUME Init PROVE Typed
  OBVIOUS
<1>1. /\ stdin = <<>> /\ serverIn = <<>> /\ serverOut = <<>> /\ stdout = <<>>
      /\ \A d \in Dirs : pc[d] = "clock"
  BY DEF Init
<1>2. ~InHand("client_to_server") /\ ~InHand("server_to_client")
  BY <1>1 DEF InHand, Dirs
<1>3. pending \in [Ids -> [call : Calls, at : Times] \cup {None}]
  BY DEF Init, NothingPending
<1>4. TypeOK
  <2>1. \A S : <<>> \in Seq(S)
    OBVIOUS
  <2>2. /\ stdin \in Seq(Message) /\ serverIn \in Seq(Message) /\ serverOut \in Seq(Message)
        /\ stdout \in Seq({"header", "payload"} \X Message)
    BY <1>1, <2>1
  <2>3. /\ now \in Times /\ at \in [Dirs -> Times] /\ frame \in [Dirs -> Message \cup {None}]
        /\ pc \in [Dirs -> {"clock", "read"}] /\ stdoutMu \in BOOLEAN
    <3>1. now \in Times /\ 0 \in Times
      BY DEF Init, Times
    <3>2. at = [d \in Dirs |-> 0] /\ frame = [d \in Dirs |-> None]
          /\ pc = [d \in Dirs |-> "clock"] /\ stdoutMu = FALSE
      BY DEF Init
    <3> QED  BY <3>1, <3>2
  <2>4. traces = {} /\ written = {} /\ lost = {}
    BY DEF Init
  <2>5. pc \in [Dirs -> {"clock", "read", "budget", "refuse", "refusing", "refused",
                         "failed", "header", "payload", "capture"}]
    BY <2>3
  <2> QED  BY <1>3, <2>2, <2>3, <2>4, <2>5 DEF TypeOK
<1> QED  BY <1>1, <1>2, <1>4 DEF Typed

\* Every variable keeps its type: queues hold messages, the tracker calls of the
\* client, and a trace the call and the message it was made of.
THEOREM TypeCorrect == Spec => []TypeOK
<1>1. Typed => TypeOK
  BY DEF Typed
<1> QED  BY <1>1, TypedInit, TypedStep, PTL DEF Spec

-----------------------------------------------------------------------------
(* Pairing.                                                                *)

\* A call is pending under its own id.
OwnIds == \A i \in Ids : pending[i] # None => IdOf[pending[i].call] = i

LEMMA OwnIdsStep ==
  ASSUME Typed, OwnIds, [Next]_vars
  PROVE  OwnIds'
<1>1. pending \in Table
  BY DEF Typed, TypeOK, Table, PendingCalls
<1>2. ASSUME \A i \in Ids : pending'[i] # None => pending'[i] = pending[i]
      PROVE  OwnIds'
  BY <1>2 DEF OwnIds
<1>3. CASE CaptureCall
  <2> DEFINE d == "client_to_server"
             c == frame[d][2]
             call == [call |-> c, at |-> at[d]]
  <2>1. InHand(d) /\ at[d] \in Times
    BY <1>3 DEF CaptureCall, Goto, InHand, Typed, TypeOK, Dirs
  <2>2. c \in Calls
    BY <1>3, <2>1 DEF CaptureCall, IsRequest, Typed, FromClient
  <2>3. call \in PendingCalls /\ IdOf[c] \in Ids
    BY <2>1, <2>2 DEF PendingCalls
  <2>4. pending' = Remember(pending, IdOf[c], call, at[d])
    BY <1>3 DEF CaptureCall
  <2>5. call.call = c
    OBVIOUS
  <2> HIDE DEF call, c
  <2> QED  BY <1>1, <2>3, <2>4, <2>5, RememberFacts DEF OwnIds
<1>4. CASE CaptureResult
  BY <1>1, <1>2, <1>4, FreshFacts DEF CaptureResult
<1>5. CASE CaptureFromServer
  <2>1. IdOfMessage(frame["server_to_client"]) \in Ids
    BY <1>5, MessageFacts
       DEF CaptureFromServer, Goto, InHand, Typed, IdOfMessage, Everything
  <2> QED  BY <1>1, <1>2, <1>5, <2>1, ForgetFacts DEF CaptureFromServer
<1>6. CASE pending' = pending
  BY <1>6 DEF OwnIds
<1>7. CaptureCall \/ CaptureResult \/ CaptureFromServer \/ pending' = pending
  BY DEF Next, ClientToServer, ServerToClient, SendCall, SendResult, ServerAsks, ServerAnswers,
         ServerWrites, Tick, ReadClock, ReadFrame, Forward, Refuse, RefusalHeader, RefusalPayload,
         RefusalPersisted, RefusalFails, Header, Payload, LogFails, vars, record
<1> QED  BY <1>3, <1>4, <1>5, <1>6, <1>7

LEMMA PairedStep ==
  ASSUME Typed, OwnIds, UniqueIdsPaired, [Next]_vars
  PROVE  UniqueIdsPaired'
<1>1. ASSUME NEW trace, traces' \subseteq traces \cup {trace},
             trace.call \in Calls /\ Unambiguous(trace.call) => Paired(trace)
      PROVE  UniqueIdsPaired'
  BY <1>1 DEF UniqueIdsPaired
<1>2. CASE RefusalPersisted \/ RefusalFails
  <2>1. traces' \subseteq traces \cup {RefusedTrace}
    BY <1>2 DEF RefusalPersisted, RefusalFails
  <2>2. Paired(RefusedTrace)
    BY DEF Paired, Refusal, RefusedTrace
  <2> QED  BY <1>1, <2>1, <2>2
<1>3. CASE CaptureResult
  <2> DEFINE trace == Standalone("client_to_server")
  <2>1. trace.call = None
    BY DEF Standalone
  <2>2. Paired(trace)
    BY <2>1 DEF Paired
  <2>3. traces' \subseteq traces \cup {trace}
    BY <1>3 DEF CaptureResult, Insert
  <2> QED  BY <1>1, <2>2, <2>3
<1>4. CASE CaptureFromServer
  <2> DEFINE d == "server_to_client"
             id == IdOfMessage(frame[d])
             match == Match(pending, id, at[d])
             trace == ServerTrace
  <2>1. traces' \subseteq traces \cup {trace}
    BY <1>4 DEF CaptureFromServer, Insert
  <2>2. frame[d] \in FromServer
    BY <1>4 DEF CaptureFromServer, Goto, InHand, Typed
  <2>3. id \in Ids /\ pending \in Table /\ frame[d][2] \in Everything
    BY <2>2, MessageFacts DEF IdOfMessage, Everything, Typed, TypeOK, Table, PendingCalls
  <2>4. CASE match = None
    <3>1. Paired(trace)
      BY <2>4 DEF Paired, Standalone, ServerTrace
    <3> QED  BY <1>1, <2>1, <3>1
  <2>5. CASE match # None
    <3>1. match = pending[id] /\ pending[id] \in PendingCalls
      BY <2>3, <2>5, MatchFacts
    <3>2. IdOf[match.call] = IdOf[frame[d][2]]
      BY <2>3, <2>5, <3>1 DEF OwnIds, IdOfMessage
    <3>3. trace.call = match.call /\ trace.message = frame[d]
      BY <2>5 DEF ServerTrace
    <3>4. ASSUME match.call \in Calls, Unambiguous(match.call)
          PROVE  frame[d] = <<"result", match.call>>
      <4>1. frame[d][2] = match.call
        BY <2>3, <3>2, <3>4 DEF Unambiguous, Everything
      <4> QED  BY <2>2, <3>4, <4>1 DEF FromServer
    <3> HIDE DEF match, trace
    <3>5. trace.call \in Calls /\ Unambiguous(trace.call) => Paired(trace)
      BY <3>3, <3>4 DEF Paired, Unambiguous
    <3> QED  BY <1>1, <2>1, <3>5
  <2> QED  BY <2>4, <2>5
<1>5. CASE traces' = traces
  BY <1>5 DEF UniqueIdsPaired
<1>6. RefusalPersisted \/ RefusalFails \/ CaptureResult \/ CaptureFromServer
      \/ traces' = traces
  BY DEF Next, ClientToServer, ServerToClient, SendCall, SendResult, ServerAsks, ServerAnswers,
         ServerWrites, Tick, ReadClock, ReadFrame, Forward, Refuse, RefusalHeader, RefusalPayload,
         CaptureCall, Header, Payload, LogFails, vars, record
<1> QED  BY <1>2, <1>3, <1>4, <1>5, <1>6

\* Whatever ids the requests of both ends share, the call that has one to itself
\* is paired with its own answer: nothing else the server sends can take it.
THEOREM PairedCorrect == Spec => []UniqueIdsPaired
<1>1. Init => OwnIds /\ UniqueIdsPaired
  BY DEF Init, OwnIds, UniqueIdsPaired, NothingPending
<1> QED  BY <1>1, TypedInit, TypedStep, OwnIdsStep, PairedStep, PTL DEF Spec

-----------------------------------------------------------------------------
(* Messages on their way.  Each end writes at most one message about a      *)
(* request, so that the request names the message.                         *)

Keys(q) == {q[i][2] : i \in DOMAIN q}

\* No two messages of a queue, and of a hand, are about one request.
Once(q, hand) ==
  /\ \A i, j \in DOMAIN q : q[i][2] = q[j][2] => i = j
  /\ \A i \in DOMAIN q : q[i][2] \notin hand

LEMMA AppendOnce ==
  ASSUME NEW q \in Seq(Message), NEW hand, NEW m \in Message, Once(q, hand),
         m[2] \notin Keys(q) \cup hand
  PROVE  Once(Append(q, m), hand) /\ Keys(Append(q, m)) = Keys(q) \cup {m[2]}
<1>1. /\ DOMAIN q = 1 .. Len(q) /\ Len(q) \in Nat
      /\ DOMAIN Append(q, m) = 1 .. Len(q) + 1
      /\ \A i \in 1 .. Len(q) : Append(q, m)[i] = q[i]
      /\ Append(q, m)[Len(q) + 1] = m
  OBVIOUS
<1>2. Keys(Append(q, m)) = Keys(q) \cup {m[2]}
  BY <1>1 DEF Keys
<1>3. \A i \in DOMAIN q : q[i][2] # m[2]
  BY DEF Keys
<1>4. \A i \in DOMAIN Append(q, m) : i \in DOMAIN q \/ i = Len(q) + 1
  BY <1>1
<1>5. \A i, j \in DOMAIN Append(q, m) : Append(q, m)[i][2] = Append(q, m)[j][2] => i = j
  BY <1>1, <1>3, <1>4 DEF Once
<1>6. \A i \in DOMAIN Append(q, m) : Append(q, m)[i][2] \notin hand
  BY <1>1, <1>4 DEF Once
<1> QED  BY <1>2, <1>5, <1>6 DEF Once

LEMMA TakeOnce ==
  ASSUME NEW q \in Seq(Message), q # <<>>, Once(q, {})
  PROVE  Once(Tail(q), {Head(q)[2]}) /\ Keys(q) = Keys(Tail(q)) \cup {Head(q)[2]}
<1>1. /\ DOMAIN q = 1 .. Len(q) /\ Len(q) \in Nat \ {0} /\ Head(q) = q[1]
      /\ DOMAIN Tail(q) = 1 .. Len(q) - 1
      /\ \A i \in 1 .. Len(q) - 1 : Tail(q)[i] = q[i + 1]
  OBVIOUS
<1>2. \A i \in DOMAIN Tail(q) : i + 1 \in DOMAIN q /\ i + 1 # 1
  BY <1>1
<1>3. Once(Tail(q), {Head(q)[2]})
  <2>1. \A i, j \in DOMAIN Tail(q) : Tail(q)[i][2] = Tail(q)[j][2] => i = j
    BY <1>1, <1>2 DEF Once
  <2>2. \A i \in DOMAIN Tail(q) : Tail(q)[i][2] # q[1][2]
    BY <1>1, <1>2 DEF Once
  <2> QED  BY <1>1, <2>1, <2>2 DEF Once
<1>4. Keys(Tail(q)) \subseteq Keys(q) /\ Head(q)[2] \in Keys(q)
  BY <1>1, <1>2 DEF Keys
<1>5. ASSUME NEW i \in DOMAIN q PROVE q[i][2] \in Keys(Tail(q)) \cup {Head(q)[2]}
  <2>1. CASE i = 1
    BY <1>1, <2>1
  <2>2. CASE i # 1
    <3>1. i - 1 \in DOMAIN Tail(q) /\ Tail(q)[i - 1] = q[i]
      BY <1>1, <2>2
    <3> QED  BY <3>1 DEF Keys
  <2> QED  BY <2>1, <2>2
<1> QED  BY <1>3, <1>4, <1>5 DEF Keys

Hand(d) == IF InHand(d) THEN {frame[d][2]} ELSE {}

ClientAhead == Keys(stdin) \cup Hand("client_to_server")
ServerAhead == Keys(serverOut) \cup Hand("server_to_client")
ClientSent == {m[2] : m \in written \cap FromClient}
ServerSent == {m[2] : m \in written \cap FromServer}

\* What was written has been dealt with or is on its way, once.
Transit ==
  /\ Once(stdin, Hand("client_to_server")) /\ ClientAhead \subseteq ClientSent
  /\ Once(serverOut, Hand("server_to_client")) /\ ServerAhead \subseteq ServerSent

ClientPast == ClientSent \ ClientAhead
ServerPast == ServerSent \ ServerAhead

\* The messages that were dealt with stay so.
Onward == ClientPast \subseteq ClientPast' /\ ServerPast \subseteq ServerPast'

LEMMA ClientWrites ==
  ASSUME Typed, Transit, NEW m \in FromClient, m \notin written,
         stdin' = Append(stdin, m), written' = written \cup {m},
         UNCHANGED <<serverOut, pc, frame>>
  PROVE  Transit' /\ Onward
<1>1. m \in Message /\ stdin \in Seq(Message)
  BY MessageFacts DEF Typed, TypeOK
<1>2. m[2] \notin ClientSent
  BY DEF ClientSent, FromClient
<1>3. ClientSent' = ClientSent \cup {m[2]}
  BY DEF ClientSent
<1>4. m \notin FromServer
  BY DEF FromServer, FromClient
<1>5. ServerSent' = ServerSent
  BY <1>4 DEF ServerSent
<1>6. \A d \in Dirs : Hand(d)' = Hand(d)
  BY DEF Hand, InHand
<1>7. "client_to_server" \in Dirs /\ "server_to_client" \in Dirs
  BY DEF Dirs
<1>8. Once(stdin, Hand("client_to_server")) /\ m[2] \notin ClientAhead
  BY <1>2 DEF Transit
<1>9. /\ Once(Append(stdin, m), Hand("client_to_server"))
      /\ Keys(Append(stdin, m)) = Keys(stdin) \cup {m[2]}
  BY <1>1, <1>8, AppendOnce DEF ClientAhead
<1>10. Once(stdin', Hand("client_to_server")') /\ ClientAhead' = ClientAhead \cup {m[2]}
  BY <1>6, <1>7, <1>9 DEF ClientAhead
<1>11. Once(serverOut', Hand("server_to_client")') /\ ServerAhead' = ServerAhead
  BY <1>6, <1>7 DEF Transit, ServerAhead
<1> QED  BY <1>2, <1>3, <1>5, <1>10, <1>11 DEF Transit, Onward, ClientPast, ServerPast

LEMMA ServerWritesOnce ==
  ASSUME Typed, Transit, NEW m \in FromServer, ServerWrites(m)
  PROVE  Transit' /\ Onward
<1>0. /\ m \notin written /\ serverOut' = Append(serverOut, m) /\ written' = written \cup {m}
      /\ UNCHANGED <<stdin, pc, frame>>
  BY DEF ServerWrites, forwarders
<1>1. m \in Message /\ serverOut \in Seq(Message)
  BY MessageFacts DEF Typed, TypeOK
<1>2. m[2] \notin ServerSent
  BY <1>0 DEF ServerSent, FromServer
<1>3. ServerSent' = ServerSent \cup {m[2]}
  BY <1>0 DEF ServerSent
<1>4. m \notin FromClient
  BY DEF FromServer, FromClient
<1>5. ClientSent' = ClientSent
  BY <1>0, <1>4 DEF ClientSent
<1>6. \A d \in Dirs : Hand(d)' = Hand(d)
  BY <1>0 DEF Hand, InHand
<1>7. "client_to_server" \in Dirs /\ "server_to_client" \in Dirs
  BY DEF Dirs
<1>8. Once(serverOut, Hand("server_to_client")) /\ m[2] \notin ServerAhead
  BY <1>2 DEF Transit
<1>9. /\ Once(Append(serverOut, m), Hand("server_to_client"))
      /\ Keys(Append(serverOut, m)) = Keys(serverOut) \cup {m[2]}
  BY <1>1, <1>8, AppendOnce DEF ServerAhead
<1>10. Once(serverOut', Hand("server_to_client")') /\ ServerAhead' = ServerAhead \cup {m[2]}
  BY <1>0, <1>6, <1>7, <1>9 DEF ServerAhead
<1>11. Once(stdin', Hand("client_to_server")') /\ ClientAhead' = ClientAhead
  BY <1>0, <1>6, <1>7 DEF Transit, ClientAhead
<1> QED  BY <1>2, <1>3, <1>5, <1>10, <1>11 DEF Transit, Onward, ClientPast, ServerPast

\* Forwarders take frames in their hand and put them down, nothing else.
LEMMA ForwarderMoves ==
  ASSUME Transit, written' = written,
         Once(stdin', Hand("client_to_server")'), ClientAhead' \subseteq ClientAhead,
         Once(serverOut', Hand("server_to_client")'), ServerAhead' \subseteq ServerAhead
  PROVE  Transit' /\ Onward
<1>1. ClientSent' = ClientSent /\ ServerSent' = ServerSent
  BY DEF ClientSent, ServerSent
<1> QED  BY <1>1 DEF Transit, Onward, ClientPast, ServerPast

LEMMA ReadOnce ==
  ASSUME Typed, Transit, NEW d \in Dirs, ReadFrame(d)
  PROVE  Transit' /\ Onward
<1> DEFINE c == "client_to_server"
           s == "server_to_client"
<1>1. c \in Dirs /\ s \in Dirs /\ stdin \in Seq(Message) /\ serverOut \in Seq(Message)
      /\ written' = written
  BY DEF Dirs, Typed, TypeOK, ReadFrame
<1>2. CASE d = c
  <2>1. /\ stdin # <<>> /\ stdin' = Tail(stdin) /\ serverOut' = serverOut
        /\ pc[c] = "read" /\ pc'[c] = "budget" /\ pc'[s] = pc[s]
        /\ frame'[c] = Head(stdin) /\ frame'[s] = frame[s]
    BY <1>1, <1>2, GotoFacts DEF ReadFrame, Typed, TypeOK
  <2>2. Hand(c) = {} /\ Hand(c)' = {Head(stdin)[2]} /\ Hand(s)' = Hand(s)
    BY <2>1 DEF Hand, InHand
  <2>3. Once(stdin, {})
    BY <2>2 DEF Transit
  <2>4. Once(stdin', Hand(c)') /\ ClientAhead' = ClientAhead
    BY <1>1, <2>1, <2>2, <2>3, TakeOnce DEF ClientAhead
  <2>5. Once(serverOut', Hand(s)') /\ ServerAhead' = ServerAhead
    BY <2>1, <2>2 DEF Transit, ServerAhead
  <2> QED  BY <1>1, <2>4, <2>5, ForwarderMoves
<1>3. CASE d = s
  <2>1. /\ serverOut # <<>> /\ serverOut' = Tail(serverOut) /\ stdin' = stdin
        /\ pc[s] = "read" /\ pc'[s] = "header" /\ pc'[c] = pc[c]
        /\ frame'[s] = Head(serverOut) /\ frame'[c] = frame[c]
    BY <1>1, <1>3, GotoFacts DEF ReadFrame, Typed, TypeOK
  <2>2. Hand(s) = {} /\ Hand(s)' = {Head(serverOut)[2]} /\ Hand(c)' = Hand(c)
    BY <2>1 DEF Hand, InHand
  <2>3. Once(serverOut, {})
    BY <2>2 DEF Transit
  <2>4. Once(serverOut', Hand(s)') /\ ServerAhead' = ServerAhead
    BY <1>1, <2>1, <2>2, <2>3, TakeOnce DEF ServerAhead
  <2>5. Once(stdin', Hand(c)') /\ ClientAhead' = ClientAhead
    BY <2>1, <2>2 DEF Transit, ClientAhead
  <2> QED  BY <1>1, <2>4, <2>5, ForwarderMoves
<1> QED  BY <1>2, <1>3 DEF Dirs

\* The steps that deal with the frame in a hand.
Capturing ==
  \/ RefusalPersisted \/ RefusalFails \/ CaptureCall \/ CaptureResult \/ CaptureFromServer
  \/ \E d \in Dirs : LogFails(d)

LEMMA HandStep ==
  ASSUME Typed, Transit, UNCHANGED <<stdin, serverOut, written>>,
         \A d \in Dirs : Hand(d)' = Hand(d) \/ Hand(d)' = {}
  PROVE  Transit' /\ Onward
<1> DEFINE c == "client_to_server"
           s == "server_to_client"
<1>1. c \in Dirs /\ s \in Dirs
  BY DEF Dirs
<1>2. Once(stdin', Hand(c)') /\ ClientAhead' \subseteq ClientAhead
  BY <1>1 DEF Transit, ClientAhead, Once
<1>3. Once(serverOut', Hand(s)') /\ ServerAhead' \subseteq ServerAhead
  BY <1>1 DEF Transit, ServerAhead, Once
<1> QED  BY <1>2, <1>3, ForwarderMoves

LEMMA TransitStep ==
  ASSUME Typed, Transit, [Next]_vars
  PROVE  Transit' /\ Onward
<1>1. ASSUME NEW k \in Calls, SendCall(k) PROVE Transit' /\ Onward
  BY <1>1, ClientWrites DEF SendCall, FromClient, forwarders
<1>2. ASSUME NEW k \in ServerCalls, SendResult(k) PROVE Transit' /\ Onward
  BY <1>2, ClientWrites DEF SendResult, FromClient, forwarders
<1>3. ASSUME NEW k \in Calls, ServerAnswers(k) PROVE Transit' /\ Onward
  BY <1>3, ServerWritesOnce DEF ServerAnswers, FromServer
<1>4. ASSUME NEW k \in ServerCalls, ServerAsks(k) PROVE Transit' /\ Onward
  BY <1>4, ServerWritesOnce DEF ServerAsks, FromServer
<1>5. CASE \E d \in Dirs : ReadFrame(d)
  BY <1>5, ReadOnce
<1>6. CASE \/ Tick \/ UNCHANGED vars \/ Forward \/ Refuse \/ RefusalHeader \/ RefusalPayload
           \/ Header \/ Payload \/ Capturing \/ \E d \in Dirs : ReadClock(d)
  <2>1. UNCHANGED <<stdin, serverOut, written, frame>>
    BY <1>6 DEF Tick, vars, Forward, Refuse, RefusalHeader, RefusalPayload, Header, Payload,
         Capturing, RefusalPersisted, RefusalFails, CaptureCall, CaptureResult,
         CaptureFromServer, LogFails, ReadClock, pipes, forwarders
  <2>2. \A d \in Dirs : InHand(d)' => InHand(d)
    BY <1>6 DEF Tick, vars, Forward, Refuse, RefusalHeader, RefusalPayload, Header, Payload,
         Capturing, RefusalPersisted, RefusalFails, CaptureCall, CaptureResult,
         CaptureFromServer, LogFails, ReadClock, forwarders, Goto, InHand, Typed, TypeOK
  <2>3. \A d \in Dirs : Hand(d)' = Hand(d) \/ Hand(d)' = {}
    BY <2>1, <2>2 DEF Hand
  <2> QED  BY <2>1, <2>3, HandStep
<1> QED
  BY <1>1, <1>2, <1>3, <1>4, <1>5, <1>6
     DEF Next, ClientToServer, ServerToClient, Capturing, Dirs

-----------------------------------------------------------------------------
(* One trace for an exchange.                                              *)

\* What is pending or has a trace was dealt with, and not both.
Settled ==
  /\ \A i \in Ids : pending[i] # None =>
       pending[i].call \in ClientPast /\ \A t \in traces : t.call # pending[i].call
  /\ \A t \in traces :
       /\ t.call # None => t.call \in ClientPast
       /\ t.message \in FromClient \/ t.message[1] = "refusal" => t.message[2] \in ClientPast
       /\ t.message \in FromServer => t.message[2] \in ServerPast

Inventory == Typed /\ OwnIds /\ Transit /\ Settled /\ OneTracePerExchange

LEMMA QuietStep ==
  ASSUME Inventory, Onward, traces' = traces,
         \A i \in Ids : pending'[i] # None => pending'[i] = pending[i]
  PROVE  Settled' /\ OneTracePerExchange'
BY DEF Inventory, Onward, Settled, OneTracePerExchange

\* At most one trace is added, of a message and of a call that have none and that are
\* not pending any more.
LEMMA PersistStep ==
  ASSUME Inventory, Onward, NEW trace, traces' = traces \cup {trace} \/ traces' = traces,
         \A i \in Ids : pending'[i] # None =>
           pending'[i] = pending[i] /\ trace.call # pending[i].call,
         \A t \in traces : t.message # trace.message /\ (t.call = None \/ t.call # trace.call),
         trace.call # None => trace.call \in ClientPast',
         trace.message \in FromClient \/ trace.message[1] = "refusal"
         => trace.message[2] \in ClientPast',
         trace.message \in FromServer => trace.message[2] \in ServerPast'
  PROVE  Settled' /\ OneTracePerExchange'
<1>1. CASE traces' = traces
  BY <1>1, QuietStep
<1>2. CASE traces' = traces \cup {trace}
  BY <1>2 DEF Inventory, Onward, Settled, OneTracePerExchange
<1> QED  BY <1>1, <1>2

\* The frame that a step deals with was on its way before it and is past after it.
LEMMA PutDown ==
  ASSUME Typed, Transit, NEW d \in Dirs, NEW from, from \notin {"clock", "read", "failed"},
         NEW to \in {"clock", "failed"}, Goto(d, from, to), UNCHANGED <<stdin, serverOut, frame, written>>
  PROVE  /\ InHand(d)
         /\ d = "client_to_server" => /\ frame[d] \in FromClient /\ frame[d][2] \in Everything
                                      /\ frame[d][2] \in ClientPast' \ ClientPast
         /\ d = "server_to_client" => /\ frame[d] \in FromServer /\ frame[d][2] \in Everything
                                      /\ frame[d][2] \in ServerPast' \ ServerPast
<1>1. pc[d] = from /\ pc'[d] = to
  BY GotoFacts DEF Typed
<1>2. InHand(d) /\ Hand(d) = {frame[d][2]} /\ Hand(d)' = {}
  BY <1>1 DEF InHand, Hand
<1>3. ClientSent' = ClientSent /\ ServerSent' = ServerSent
  BY DEF ClientSent, ServerSent
<1>4. CASE d = "client_to_server"
  <2>1. frame[d][2] \in ClientAhead /\ frame[d][2] \notin Keys(stdin)
    BY <1>2, <1>4 DEF ClientAhead, Transit, Once, Keys
  <2>2. frame[d][2] \in ClientSent /\ ClientAhead' = Keys(stdin)
    BY <1>2, <1>4, <2>1 DEF Transit, ClientAhead
  <2> QED  BY <1>2, <1>3, <1>4, <2>1, <2>2, MessageFacts DEF ClientPast, Typed
<1>5. CASE d = "server_to_client"
  <2>1. frame[d][2] \in ServerAhead /\ frame[d][2] \notin Keys(serverOut)
    BY <1>2, <1>5 DEF ServerAhead, Transit, Once, Keys
  <2>2. frame[d][2] \in ServerSent /\ ServerAhead' = Keys(serverOut)
    BY <1>2, <1>5, <2>1 DEF Transit, ServerAhead
  <2> QED  BY <1>2, <1>3, <1>5, <2>1, <2>2, MessageFacts DEF ServerPast, Typed
<1> QED  BY <1>2, <1>4, <1>5

LEMMA RefusalSettled ==
  ASSUME Inventory, Onward, RefusalPersisted \/ RefusalFails
  PROVE  Settled' /\ OneTracePerExchange'
<1> DEFINE d == "client_to_server"
           k == frame[d][2]
           trace == RefusedTrace
<1>1. k \in ClientPast' \ ClientPast
  BY PutDown DEF RefusalPersisted, RefusalFails, Inventory, pipes, Dirs
<1>2. (traces' = traces \cup {trace} \/ traces' = traces) /\ pending' = pending
  BY DEF RefusalPersisted, RefusalFails
<1>3. trace.call = k /\ trace.message = <<"refusal", k>>
  BY DEF Refusal, RefusedTrace
<1>4. trace.message[1] = "refusal" /\ trace.message[2] = k /\ trace.message \notin FromServer
  BY <1>3 DEF FromServer
<1>5. \A i \in Ids : pending[i] # None => pending[i].call # k
  BY <1>1 DEF Inventory, Settled
<1>6. \A t \in traces : t.message # <<"refusal", k>> /\ (t.call = None \/ t.call # k)
  BY <1>1 DEF Inventory, Settled
<1> HIDE DEF trace, k
<1> QED  BY <1>1, <1>2, <1>3, <1>4, <1>5, <1>6, PersistStep

LEMMA CaptureCallSettled ==
  ASSUME Inventory, Onward, CaptureCall
  PROVE  Settled' /\ OneTracePerExchange'
<1> DEFINE d == "client_to_server"
           k == frame[d][2]
           call == [call |-> k, at |-> at[d]]
<1>1. k \in ClientPast' \ ClientPast /\ frame[d] \in FromClient
  BY PutDown DEF CaptureCall, Inventory, pipes, Dirs
<1>2. k \in Calls /\ at[d] \in Times
  BY <1>1 DEF CaptureCall, IsRequest, FromClient, Inventory, Typed, TypeOK, Dirs
<1>3. call \in PendingCalls /\ IdOf[k] \in Ids /\ pending \in Table
  BY <1>2 DEF PendingCalls, Table, Inventory, Typed, TypeOK
<1>4. pending' = Remember(pending, IdOf[k], call, at[d]) /\ traces' = traces
  BY DEF CaptureCall
<1>5. call.call = k
  OBVIOUS
<1> HIDE DEF call, k
<1>6. /\ pending'[IdOf[k]] = call
      /\ \A i \in Ids \ {IdOf[k]} : pending'[i] # None => pending'[i] = pending[i]
  BY <1>3, <1>4, RememberFacts
<1>7. \A t \in traces : t.call = None \/ t.call # k
  BY <1>1 DEF Inventory, Settled
<1>8. k # None
  BY <1>2
<1> QED  BY <1>1, <1>4, <1>5, <1>6, <1>7, <1>8 DEF Inventory, Onward, Settled, OneTracePerExchange

LEMMA CaptureResultSettled ==
  ASSUME Inventory, Onward, CaptureResult
  PROVE  Settled' /\ OneTracePerExchange'
<1> DEFINE d == "client_to_server"
           k == frame[d][2]
           trace == Standalone(d)
<1>1. k \in ClientPast' \ ClientPast /\ frame[d] \in FromClient
  BY PutDown DEF CaptureResult, Inventory, pipes, Dirs
<1>2. (traces' = traces \cup {trace} \/ traces' = traces) /\ pending' = Fresh(pending, at[d])
  BY DEF CaptureResult, Insert
<1>3. trace.call = None /\ trace.message = frame[d] /\ frame[d] \notin FromServer
  BY <1>1 DEF Standalone, FromServer, FromClient
<1>4. \A i \in Ids : pending'[i] # None => pending'[i] = pending[i] /\ pending[i].call # None
  BY <1>2, FreshFacts DEF Inventory, Typed, TypeOK, Table, PendingCalls
<1>5. \A t \in traces : t.message # frame[d]
  BY <1>1 DEF Inventory, Settled
<1> HIDE DEF trace
<1> QED  BY <1>1, <1>2, <1>3, <1>4, <1>5, PersistStep

LEMMA CaptureFromServerSettled ==
  ASSUME Inventory, Onward, CaptureFromServer
  PROVE  Settled' /\ OneTracePerExchange'
<1> DEFINE d == "server_to_client"
           k == frame[d][2]
           id == IdOfMessage(frame[d])
           match == Match(pending, id, at[d])
           trace == ServerTrace
<1>1. k \in ServerPast' \ ServerPast /\ frame[d] \in FromServer /\ k \in Everything
  BY PutDown DEF CaptureFromServer, Inventory, pipes, Dirs
<1>2. (traces' = traces \cup {trace} \/ traces' = traces)
      /\ pending' = Forget(pending, id, at[d])
  BY DEF CaptureFromServer, Insert
<1>3. id \in Ids /\ pending \in Table
  BY <1>1 DEF IdOfMessage, Everything, Inventory, Typed, TypeOK, Table, PendingCalls
<1>4. \A i \in Ids : pending'[i] # None => pending'[i] = pending[i] /\ i # id
  BY <1>2, <1>3, ForgetFacts
<1>5. trace.message = frame[d] /\ trace.call = IF match = None THEN None ELSE match.call
  BY DEF Standalone, ServerTrace
<1>6. match # None => /\ match.call \in ClientPast /\ IdOf[match.call] = id
                      /\ \A t \in traces : t.call # match.call
  BY <1>3, MatchFacts DEF Inventory, Settled, OwnIds
<1>7. frame[d] \notin FromClient /\ frame[d][1] # "refusal"
  BY <1>1 DEF FromServer, FromClient
<1>8. \A t \in traces : t.message # frame[d]
  BY <1>1 DEF Inventory, Settled
<1>9. ASSUME NEW i \in Ids, pending'[i] # None PROVE trace.call # pending[i].call
  <2>1. /\ pending[i].call \in Calls /\ IdOf[pending[i].call] = i /\ i # id
    BY <1>4, <1>9 DEF Inventory, OwnIds, Typed, TypeOK
  <2> QED  BY <1>5, <1>6, <2>1
<1>10. \A t \in traces : t.call = None \/ t.call # trace.call
  BY <1>5, <1>6
<1>11. trace.call # None => trace.call \in ClientPast'
  BY <1>5, <1>6 DEF Onward
<1> HIDE DEF trace, match, id
<1> QED  BY <1>1, <1>2, <1>4, <1>5, <1>7, <1>8, <1>9, <1>10, <1>11, PersistStep

LEMMA InventoryStep ==
  ASSUME Inventory, [Next]_vars
  PROVE  Inventory'
<1>1. Typed' /\ OwnIds' /\ Transit' /\ Onward
  BY TypedStep, OwnIdsStep, TransitStep DEF Inventory
<1>2. ASSUME UNCHANGED <<pending, traces>> PROVE Settled' /\ OneTracePerExchange'
  BY <1>1, <1>2, QuietStep
<1>3. Capturing \/ UNCHANGED <<pending, traces>>
  BY DEF Capturing, Next, ClientToServer, ServerToClient, SendCall, SendResult, ServerAsks,
         ServerAnswers, ServerWrites, Tick, ReadClock, ReadFrame, Forward, Refuse, RefusalHeader,
         RefusalPayload, Header, Payload, Dirs, vars, record
<1>4. ASSUME NEW d \in Dirs, LogFails(d) PROVE Settled' /\ OneTracePerExchange'
  BY <1>2, <1>4 DEF LogFails
<1>5. Settled' /\ OneTracePerExchange'
  BY <1>1, <1>2, <1>3, <1>4, RefusalSettled, CaptureCallSettled, CaptureResultSettled,
     CaptureFromServerSettled DEF Capturing
<1> QED  BY <1>1, <1>5 DEF Inventory

LEMMA InventoryInit == Init => Inventory
<1> SUFFICES ASSUME Init PROVE Inventory
  OBVIOUS
<1>1. stdin = <<>> /\ serverOut = <<>> /\ traces = {} /\ written = {}
      /\ \A i \in Ids : pending[i] = None
  BY DEF Init, NothingPending
<1>2. Hand("client_to_server") = {} /\ Hand("server_to_client") = {}
  BY DEF Init, Hand, InHand, Dirs
<1>3. Transit
  BY <1>1, <1>2 DEF Transit, Once, ClientAhead, ServerAhead, Keys
<1>4. OwnIds /\ Settled /\ OneTracePerExchange
  BY <1>1 DEF OwnIds, Settled, OneTracePerExchange
<1> QED  BY <1>3, <1>4, TypedInit DEF Inventory

\* Calls may be refused, ids used again and requests nested: a message makes one
\* trace and a call is the request of one.
THEOREM OneTraceCorrect == Spec => []OneTracePerExchange
<1>1. Inventory => OneTracePerExchange
  BY DEF Inventory
<1> QED  BY <1>1, InventoryInit, InventoryStep, PTL DEF Spec
-----------------------------------------------------------------------------
(* What the proxy implements.                                              *)

\* What the server can read of a call is being captured or was, and nothing is
\* captured before the server can read it.
SentOn ==
  LET c == "client_to_server" IN
  /\ pc[c] = "capture" => Reached(frame[c])
  /\ \A k \in Calls : Reached(<<"request", k>>) =>
       k \in ClientPast \/ (pc[c] = "capture" /\ frame[c] = <<"request", k>>)

\* Forwarders that neither forward nor capture a message of the client.
LEMMA SentOnSame ==
  ASSUME SentOn, Onward, serverIn' = serverIn,
         \/ pc["client_to_server"] # "capture" /\ pc'["client_to_server"] # "capture"
         \/ UNCHANGED <<pc["client_to_server"], frame["client_to_server"]>>
  PROVE  SentOn' /\ Begun' = Begun
<1> DEFINE c == "client_to_server"
<1>1. \A m : Reached(m)' <=> Reached(m)
  BY DEF Reached
<1>2. \A k : (pc'[c] = "capture" /\ frame'[c] = <<"request", k>>)
             <=> (pc[c] = "capture" /\ frame[c] = <<"request", k>>)
  OBVIOUS
<1>3. \A k \in Calls : Captured(k)' <=> Captured(k)
  BY <1>1, <1>2 DEF Captured
<1>4. SentOn'
  <2>1. pc'[c] = "capture" => pc[c] = "capture" /\ frame'[c] = frame[c]
    OBVIOUS
  <2>2. (pc[c] = "capture" => Reached(frame[c]))'
    BY <2>1 DEF SentOn, Reached
  <2>3. \A k \in Calls : Reached(<<"request", k>>)' =>
          k \in ClientPast' \/ (pc'[c] = "capture" /\ frame'[c] = <<"request", k>>)
    BY <1>1, <1>2 DEF SentOn, Onward
  <2> QED  BY <2>2, <2>3 DEF SentOn
<1> QED  BY <1>3, <1>4 DEF Begun

LEMMA SentOnForward ==
  ASSUME Inventory, SentOn, Onward, Forward
  PROVE  SentOn' /\ Begun' = Begun
<1> DEFINE c == "client_to_server"
<1>1. /\ pc[c] = "budget" /\ pc'[c] = "capture" /\ frame' = frame
      /\ serverIn' = Append(serverIn, frame[c]) /\ serverIn \in Seq(Message)
  BY GotoFacts DEF Forward, Inventory, Typed, TypeOK, Dirs
<1>2. \A m : Reached(m)' <=> Reached(m) \/ m = frame[c]
  BY <1>1 DEF Reached
<1>3. frame[c][2] \notin ClientPast
  <2>1. InHand(c) /\ Hand(c) = {frame[c][2]}
    BY <1>1 DEF InHand, Hand
  <2> QED  BY <2>1 DEF ClientPast, ClientAhead
<1>4. \A k \in Calls : frame[c] = <<"request", k>> => ~Reached(<<"request", k>>)
  BY <1>1, <1>3 DEF SentOn
<1>5. \A k \in Calls : Captured(k)' <=> Captured(k)
  BY <1>1, <1>2, <1>4 DEF Captured
<1>6. SentOn'
  BY <1>1, <1>2 DEF SentOn, Onward
<1> QED  BY <1>5, <1>6 DEF Begun

\* The frame of the client is captured: if it is a call, that has begun now.
LEMMA SentOnCapture ==
  ASSUME Inventory, SentOn, Onward,
         CaptureCall \/ CaptureResult \/ LogFails("client_to_server")
  PROVE  LET m == frame["client_to_server"] IN
         /\ SentOn'
         /\ IsRequest(m) => /\ m[2] \in Calls /\ m = <<"request", m[2]>>
                            /\ m[2] \notin Begun /\ Begun' = Begun \cup {m[2]}
         /\ ~IsRequest(m) => Begun' = Begun
<1> DEFINE c == "client_to_server"
           m == frame[c]
<1>1. /\ pc[c] = "capture" /\ pc'[c] = "clock" /\ frame' = frame /\ serverIn' = serverIn
  BY GotoFacts DEF CaptureCall, CaptureResult, LogFails, Inventory, Typed, Dirs, pipes
<1>2. m \in FromClient /\ m[2] \in ClientPast'
  BY PutDown DEF CaptureCall, CaptureResult, LogFails, Inventory, pipes, Dirs
<1>3. IsRequest(m) => m[2] \in Calls /\ m = <<"request", m[2]>>
  BY <1>1, <1>2 DEF IsRequest, FromClient
<1>4. ~IsRequest(m) => \A k \in Calls : m # <<"request", k>>
  BY <1>1 DEF IsRequest
<1>5. \A e : Reached(e)' <=> Reached(e)
  BY <1>1 DEF Reached
<1>6. \A k \in Calls : Captured(k)' <=> Captured(k) \/ m = <<"request", k>>
  BY <1>1, <1>5 DEF Captured, SentOn
<1>7. \A k \in Calls : m = <<"request", k>> => ~Captured(k)
  BY <1>1 DEF Captured
<1>8. SentOn'
  <2>1. \A k \in Calls : Reached(<<"request", k>>)' => k \in ClientPast'
    BY <1>2, <1>5 DEF SentOn, Onward
  <2> QED  BY <1>1, <2>1 DEF SentOn
<1> DEFINE request == IsRequest(m)
<1> HIDE DEF m, request
<1>9. \A k : m = <<"request", k>> => k = m[2]
  OBVIOUS
<1>10. request => m[2] \notin Begun /\ Begun' = Begun \cup {m[2]}
  BY <1>3, <1>6, <1>7, <1>9 DEF Begun, request
<1>11. ~request => Begun' = Begun
  BY <1>4, <1>6 DEF Begun, request
<1> QED  BY <1>3, <1>8, <1>10, <1>11 DEF m, request

\* Every step, but for the captures, is a step of these three lemmas.
LEMMA SentOnStep ==
  ASSUME Inventory, SentOn, Onward, [Next]_vars
  PROVE  /\ SentOn'
         /\ Begun' = Begun \/ CaptureCall \/ LogFails("client_to_server")
<1> DEFINE c == "client_to_server"
           s == "server_to_client"
<1>1. TypeOK /\ c \in Dirs /\ s \in Dirs
  BY DEF Inventory, Typed, Dirs
<1>2. CASE CaptureCall \/ CaptureResult \/ LogFails(c)
  <2>1. CaptureResult => ~IsRequest(frame[c])
    BY DEF CaptureResult
  <2> QED  BY <1>2, <2>1, SentOnCapture
<1>3. CASE Forward
  BY <1>3, SentOnForward
<1>4. CASE \/ ReadClock(c) \/ ReadFrame(c) \/ Refuse \/ RefusalHeader \/ RefusalPayload
           \/ RefusalPersisted \/ RefusalFails
  <2>1. pc[c] # "capture" /\ pc'[c] # "capture"
    BY <1>1, <1>4, GotoFacts
       DEF ReadClock, ReadFrame, Refuse, RefusalHeader, RefusalPayload, RefusalPersisted,
           RefusalFails
  <2>2. serverIn' = serverIn
    BY <1>4 DEF ReadClock, ReadFrame, Refuse, RefusalHeader, RefusalPayload, RefusalPersisted,
                RefusalFails, pipes
  <2> QED  BY <2>1, <2>2, SentOnSame
<1>5. CASE ReadClock(s) \/ ReadFrame(s) \/ Header \/ Payload \/ CaptureFromServer \/ LogFails(s)
  <2>1. pc'[c] = pc[c] /\ frame'[c] = frame[c]
    BY <1>1, <1>5, GotoFacts DEF ReadClock, ReadFrame, Header, Payload, CaptureFromServer,
                                 LogFails, TypeOK
  <2>2. serverIn' = serverIn
    BY <1>5 DEF ReadClock, ReadFrame, Header, Payload, CaptureFromServer, LogFails,
                pipes
  <2> QED  BY <2>1, <2>2, SentOnSame
<1>6. CASE \/ Tick \/ UNCHANGED vars
           \/ \E k \in Calls : SendCall(k) \/ ServerAnswers(k)
           \/ \E k \in ServerCalls : ServerAsks(k) \/ SendResult(k)
  <2>1. UNCHANGED <<serverIn, pc, frame>>
    BY <1>6 DEF Tick, vars, SendCall, ServerAnswers, ServerAsks, SendResult, ServerWrites,
                pipes, forwarders
  <2> QED  BY <2>1, SentOnSame
<1> QED
  BY <1>2, <1>3, <1>4, <1>5, <1>6 DEF Next, ClientToServer, ServerToClient

\* Entries only leave the table: calls are given up.
LEMMA GivenUp ==
  ASSUME \A i \in Ids : pending'[i] # None => pending'[i] = pending[i]
  PROVE  Open' \subseteq Open
BY DEF Open

LEMMA CaptureCallExchange ==
  ASSUME Inventory, SentOn, Onward, CaptureCall
  PROVE  Promise!Next
<1> DEFINE d == "client_to_server"
           k == frame[d][2]
           call == [call |-> k, at |-> at[d]]
<1>1. k \in Calls /\ k \notin Begun /\ Begun' = Begun \cup {k}
  BY SentOnCapture DEF CaptureCall
<1>2. k \notin ClientPast
  BY PutDown DEF CaptureCall, Inventory, pipes, Dirs
<1>3. call \in PendingCalls /\ IdOf[k] \in Ids /\ pending \in Table
  BY <1>1 DEF PendingCalls, Table, Inventory, Typed, TypeOK, Dirs
<1>4. pending' = Remember(pending, IdOf[k], call, at[d]) /\ traces' = traces
  BY DEF CaptureCall
<1>5. call.call = k /\ call # None
  BY <1>3 DEF PendingCalls
<1> HIDE DEF call, k
<1>6. /\ pending'[IdOf[k]] = call
      /\ \A i \in Ids \ {IdOf[k]} : pending'[i] # None => pending'[i] = pending[i]
  BY <1>3, <1>4, RememberFacts
<1>7. \A t \in traces : t.call # k
  BY <1>1, <1>2 DEF Inventory, Settled
<1>8. k \in Open' /\ Open' \subseteq Open \cup {k}
  BY <1>3, <1>5, <1>6 DEF Open
<1>9. Promise!Open(k)
  BY <1>1, <1>4, <1>7, <1>8 DEF Promise!Open, Promise!NoTrace
<1> QED  BY <1>1, <1>9 DEF Promise!Next

\* A call whose capture fails was not open, and is not opened.
LEMMA LogFailsExchange ==
  ASSUME Inventory, SentOn, Onward, NEW d \in Dirs, LogFails(d)
  PROVE  [Promise!Next]_<<Begun, Open, traces>>
<1> DEFINE c == "client_to_server"
           k == frame[c][2]
<1>1. Open' = Open /\ traces' = traces
  BY DEF LogFails, Open
<1>2. CASE d = c /\ IsRequest(frame[c])
  <2>1. k \in Calls /\ k \notin Begun /\ Begun' = Begun \cup {k}
    BY <1>2, SentOnCapture
  <2>2. k \notin ClientPast
    BY <1>2, PutDown DEF LogFails, Inventory, pipes, Dirs
  <2>3. k \notin Open
    BY <2>2 DEF Open, Inventory, Settled
  <2> HIDE DEF k
  <2>4. Promise!Miss(k)
    BY <1>1, <2>1, <2>3 DEF Promise!Miss
  <2> QED  BY <2>1, <2>4 DEF Promise!Next
<1>3. CASE d = c /\ ~IsRequest(frame[c])
  <2>1. Begun' = Begun
    BY <1>3, SentOnCapture
  <2> QED  BY <1>1, <2>1
<1>4. CASE d # c
  <2>1. c \in Dirs /\ TypeOK
    BY DEF Dirs, Inventory, Typed
  <2>2. pc'[c] = pc[c] /\ frame'[c] = frame[c] /\ serverIn' = serverIn
    BY <1>4, <2>1, GotoFacts DEF LogFails, pipes
  <2>3. Begun' = Begun
    BY <2>2, SentOnSame
  <2> QED  BY <1>1, <2>3
<1> QED  BY <1>2, <1>3, <1>4

LEMMA RefusalExchange ==
  ASSUME Inventory, Typed', SentOn, Begun' = Begun, RefusalPersisted \/ RefusalFails
  PROVE  [Promise!Next]_<<Begun, Open, traces>>
<1> DEFINE d == "client_to_server"
           k == frame[d][2]
           trace == RefusedTrace
<1>1. k \notin ClientPast /\ k \in Everything /\ pc[d] = "refused"
  BY PutDown DEF RefusalPersisted, RefusalFails, Goto, Inventory, pipes, Dirs
<1>2. (traces' = traces \cup {trace} \/ traces' = traces) /\ pending' = pending
  BY DEF RefusalPersisted, RefusalFails
<1>3. trace.call = k /\ trace.message = <<"refusal", k>> /\ trace.message[1] = "refusal"
  BY DEF Refusal, RefusedTrace
<1>4. k \notin Begun
  BY <1>1 DEF Begun, Captured, SentOn
<1>5. \A t \in traces : t.message # <<"refusal", k>> /\ t.call # k
  BY <1>1 DEF Inventory, Settled, Everything
<1>6. Open' = Open /\ traces' \subseteq Trace
  BY <1>2 DEF Open, Typed, TypeOK
<1> HIDE DEF trace, k
<1>7. CASE traces' = traces \cup {trace}
  <2>1. Promise!Refuse(trace)
    BY <1>3, <1>4, <1>5, <1>6, <1>7 DEF Promise!Refuse, Promise!Enter, Promise!NoTrace
  <2> QED  BY <1>6, <1>7, <2>1 DEF Promise!Next
<1>8. CASE traces' = traces
  BY <1>6, <1>8
<1> QED  BY <1>2, <1>7, <1>8

LEMMA ResultExchange ==
  ASSUME Inventory, Typed', Begun' = Begun, CaptureResult
  PROVE  Promise!Next
<1> DEFINE d == "client_to_server"
           trace == Standalone(d)
<1>1. frame[d] \in FromClient /\ frame[d][2] \notin ClientPast
  BY PutDown DEF CaptureResult, Inventory, pipes, Dirs
<1>2. (traces' = traces \cup {trace} \/ traces' = traces) /\ pending' = Fresh(pending, at[d])
  BY DEF CaptureResult, Insert
<1>3. trace.call = None /\ trace.message = frame[d]
  BY DEF Standalone
<1>4. pending \in Table
  BY DEF Table, PendingCalls, Inventory, Typed, TypeOK
<1>5. Open' \subseteq Open
  BY <1>2, <1>4, FreshFacts, GivenUp
<1>6. \A t \in traces : t.message # frame[d]
  BY <1>1 DEF Inventory, Settled
<1> HIDE DEF trace
<1>7. CASE traces' = traces \cup {trace}
  <2>1. trace \in Trace
    BY <1>7 DEF Typed, TypeOK
  <2>2. Promise!Alone(trace)
    BY <1>3, <1>5, <1>6, <1>7 DEF Promise!Alone, Promise!Enter
  <2> QED  BY <2>1, <2>2 DEF Promise!Next
<1>8. CASE traces' = traces
  BY <1>5, <1>8 DEF Promise!Next, Promise!Drop
<1> QED  BY <1>2, <1>7, <1>8

\* The call under the id of the message leaves the table and gets its trace.
LEMMA FromServerExchange ==
  ASSUME Inventory, Typed', Begun' = Begun, CaptureFromServer
  PROVE  Promise!Next
<1> DEFINE d == "server_to_client"
           id == IdOfMessage(frame[d])
           match == Match(pending, id, at[d])
           trace == ServerTrace
<1>1. frame[d] \in FromServer /\ frame[d][2] \in Everything /\ frame[d][2] \notin ServerPast
  BY PutDown DEF CaptureFromServer, Inventory, pipes, Dirs
<1>2. (traces' = traces \cup {trace} \/ traces' = traces)
      /\ pending' = Forget(pending, id, at[d])
  BY DEF CaptureFromServer, Insert
<1>3. id \in Ids /\ pending \in Table
  BY <1>1 DEF IdOfMessage, Everything, Inventory, Typed, TypeOK, Table, PendingCalls
<1>4. \A i \in Ids : pending'[i] # None => pending'[i] = pending[i] /\ i # id
  BY <1>2, <1>3, ForgetFacts
<1>5. trace.message = frame[d] /\ trace.call = IF match = None THEN None ELSE match.call
  BY DEF Standalone, ServerTrace
<1>6. match # None => /\ match.call \in Open /\ IdOf[match.call] = id
                      /\ \A t \in traces : t.call # match.call
  BY <1>3, MatchFacts DEF Inventory, Settled, OwnIds, Open
<1>7. match # None => match.call \notin Open'
  <2> SUFFICES ASSUME match # None, NEW i \in Ids, pending'[i] # None
               PROVE  pending'[i].call # match.call
    BY DEF Open
  <2> QED  BY <1>4, <1>6 DEF Inventory, OwnIds
<1>8. Open' \subseteq Open
  BY <1>4, GivenUp
<1>9. \A t \in traces : t.message # frame[d]
  BY <1>1 DEF Inventory, Settled
<1> HIDE DEF trace, match, id
<1>10. CASE traces' = traces \cup {trace}
  <2>1. trace \in Trace
    BY <1>10 DEF Typed, TypeOK
  <2>2. Promise!Enter(trace)
    BY <1>5, <1>9, <1>10 DEF Promise!Enter
  <2>3. Promise!Alone(trace) \/ Promise!Close(trace)
    BY <1>5, <1>6, <1>7, <1>8, <2>2 DEF Promise!Alone, Promise!Close, Promise!NoTrace
  <2> QED  BY <2>1, <2>3 DEF Promise!Next
<1>11. CASE traces' = traces
  BY <1>8, <1>11 DEF Promise!Next, Promise!Drop
<1> QED  BY <1>2, <1>10, <1>11

\* Whatever the two ends send and under whatever ids, the proxy only opens a call,
\* closes one with a message of its own, refuses one, drops some, or records a
\* message that closes nothing.
THEOREM ExchangesCorrect == Spec => ImplementsExchanges
<1>1. Init => Promise!Init /\ SentOn
  <2> SUFFICES ASSUME Init PROVE Promise!Init /\ SentOn
    OBVIOUS
  <2>1. /\ serverIn = <<>> /\ traces = {} /\ pc["client_to_server"] = "clock"
        /\ \A i \in Ids : pending[i] = None
    BY DEF Init, NothingPending, Dirs
  <2>2. \A m : ~Reached(m)
    BY <2>1 DEF Reached
  <2> QED  BY <2>1, <2>2 DEF Promise!Init, Begun, Captured, Open, SentOn
<1>2. Inventory /\ SentOn /\ [Next]_vars
      => [Promise!Next]_<<Begun, Open, traces>> /\ SentOn'
  <2> SUFFICES ASSUME Inventory, SentOn, [Next]_vars
               PROVE  [Promise!Next]_<<Begun, Open, traces>> /\ SentOn'
    OBVIOUS
  <2>1. Onward /\ Typed'
    BY TransitStep, TypedStep DEF Inventory
  <2>2. SentOn' /\ (Begun' = Begun \/ CaptureCall \/ LogFails("client_to_server"))
    BY <2>1, SentOnStep
  <2>3. CASE CaptureCall \/ \E d \in Dirs : LogFails(d)
    BY <2>1, <2>2, <2>3, CaptureCallExchange, LogFailsExchange
  <2>4. CASE Begun' = Begun /\ (RefusalPersisted \/ RefusalFails \/ CaptureResult
                                \/ CaptureFromServer)
    BY <2>1, <2>2, <2>4, RefusalExchange, ResultExchange, FromServerExchange
  <2>5. CASE Begun' = Begun /\ UNCHANGED <<pending, traces>>
    BY <2>2, <2>5 DEF Open
  <2>6. Capturing \/ UNCHANGED <<pending, traces>>
    BY DEF Capturing, Next, ClientToServer, ServerToClient, SendCall, SendResult, ServerAsks,
           ServerAnswers, ServerWrites, Tick, ReadClock, ReadFrame, Forward, Refuse, RefusalHeader,
           RefusalPayload, Header, Payload, Dirs, vars, record
  <2> QED  BY <2>2, <2>3, <2>4, <2>5, <2>6 DEF Capturing, Dirs
<1> QED
  BY <1>1, <1>2, InventoryInit, InventoryStep, PTL DEF Spec, ImplementsExchanges, Promise!Spec
-----------------------------------------------------------------------------
(* Nothing lost.                                                           *)

\* No request can grow stale, and the client never uses an id twice.
Calm ==
  /\ MaxTime <= StaleAfter
  /\ \A b, c \in Calls : IdOf[b] = IdOf[c] => b = c

Waiting(c) == \E i \in Ids : pending[i] # None /\ pending[i].call = c
Persisted(c) == \E t \in traces : t.call = c

\* Before anything is stale, eviction changes nothing.
LEMMA FreshIsSame ==
  ASSUME Calm, NEW table \in Table, NEW t \in Times
  PROVE  Fresh(table, t) = table
<1>1. ASSUME NEW i \in Ids, table[i] # None PROVE ~(table[i].at + StaleAfter < t)
  <2>1. table[i].at \in Times
    BY <1>1 DEF Table, PendingCalls
  <2>2. table[i].at \in Nat /\ t \in Nat /\ t <= MaxTime
    BY <2>1 DEF Times
  <2>3. StaleAfter \in Nat /\ MaxTime \in Nat /\ MaxTime <= StaleAfter
    BY DEF Calm
  <2> QED  BY <2>2, <2>3
<1>2. Fresh(table, t) = [i \in Ids |-> table[i]]
  BY <1>1 DEF Fresh
<1> QED  BY <1>2 DEF Table

\* What a step that captures no call has to do: nothing that waits is dropped
\* without a trace or an error.
LEMMA KeptStep ==
  ASSUME NothingLost,
         \A c \in Calls : Captured(c)' => Captured(c),
         \A c \in Calls : Waiting(c) => Waiting(c)' \/ Persisted(c)' \/ c \in lost',
         traces \subseteq traces', lost \subseteq lost'
  PROVE  NothingLost'
<1>1. \A c \in Calls : Captured(c) => Waiting(c) \/ Persisted(c) \/ c \in lost
  BY DEF NothingLost, Waiting, Persisted, Open
<1>2. \A c \in Calls : Persisted(c) => Persisted(c)'
  BY DEF Persisted
<1>3. \A c \in Calls : Captured(c)' => Waiting(c)' \/ Persisted(c)' \/ c \in lost'
  BY <1>1, <1>2
<1> QED  BY <1>3 DEF NothingLost, Waiting, Persisted, Open

LEMMA ForwardKept ==
  ASSUME Typed, NothingLost, Forward
  PROVE  NothingLost'
<1> DEFINE d == "client_to_server"
<1>1. /\ pc[d] = "budget" /\ pc'[d] = "capture" /\ frame' = frame
      /\ serverIn' = Append(serverIn, frame[d]) /\ UNCHANGED <<pending, traces, lost>>
  BY GotoFacts DEF Forward, Typed, Dirs, record
<1>2. serverIn \in Seq(Message)
  BY DEF Typed, TypeOK
<1>3. ASSUME NEW c \in Calls, Captured(c)' PROVE Captured(c)
  <2>1. frame[d] # <<"request", c>>
    BY <1>1, <1>3 DEF Captured
  <2>2. PICK i \in DOMAIN serverIn' : serverIn'[i] = <<"request", c>>
    BY <1>3 DEF Captured, Reached
  <2>3. i \in DOMAIN serverIn /\ serverIn[i] = <<"request", c>>
    BY <1>1, <1>2, <2>1, <2>2
  <2> QED  BY <1>1, <2>3 DEF Captured, Reached
<1>4. \A c \in Calls : Waiting(c) => Waiting(c)'
  BY <1>1 DEF Waiting
<1> QED  BY <1>1, <1>3, <1>4, KeptStep

LEMMA CaptureCallKept ==
  ASSUME Calm, Typed, OwnIds, NothingLost, CaptureCall
  PROVE  NothingLost'
<1> DEFINE d == "client_to_server"
           k == frame[d][2]
           call == [call |-> k, at |-> at[d]]
<1>1. pc[d] = "capture" /\ UNCHANGED <<serverIn, frame, traces, lost>>
  BY GotoFacts DEF CaptureCall, Typed, Dirs, pipes
<1>2. frame[d] \in FromClient /\ frame[d] = <<"request", k>> /\ k \in Calls /\ at[d] \in Times
  BY <1>1 DEF CaptureCall, IsRequest, Typed, TypeOK, InHand, Dirs, FromClient
<1>3. call \in PendingCalls /\ IdOf[k] \in Ids /\ pending \in Table /\ call.call = k
  BY <1>2 DEF PendingCalls, Table, Typed, TypeOK
<1>4. pending' = [pending EXCEPT ![IdOf[k]] = call]
  BY <1>2, <1>3, FreshIsSame DEF CaptureCall, Remember
<1> HIDE DEF call
<1>5. pending'[IdOf[k]] = call /\ \A i \in Ids \ {IdOf[k]} : pending'[i] = pending[i]
  BY <1>3, <1>4 DEF Table
<1>6. ASSUME NEW c \in Calls, c = k PROVE Waiting(c)'
  <2>1. call # None
    BY <1>3 DEF PendingCalls
  <2> QED  BY <1>3, <1>5, <1>6, <2>1 DEF Waiting
<1>7. ASSUME NEW c \in Calls, c # k PROVE Captured(c)' => Waiting(c)' \/ Persisted(c)' \/ c \in lost'
  <2>1. Captured(c)' => Captured(c)
    BY <1>1, <1>2, <1>7 DEF Captured, Reached
  <2>2. Waiting(c) => Waiting(c)'
    <3> SUFFICES ASSUME Waiting(c) PROVE Waiting(c)'
      OBVIOUS
    <3>1. PICK i \in Ids : pending[i] # None /\ pending[i].call = c
      BY DEF Waiting
    <3>2. i # IdOf[k]
      BY <1>2, <1>7, <3>1 DEF OwnIds, Calm
    <3> QED  BY <1>5, <3>1, <3>2 DEF Waiting
  <2>3. Persisted(c) => Persisted(c)'
    BY <1>1 DEF Persisted
  <2> QED  BY <1>1, <2>1, <2>2, <2>3 DEF NothingLost, Waiting, Persisted, Open
<1>8. \A c \in Calls : Captured(c)' => Waiting(c)' \/ Persisted(c)' \/ c \in lost'
  BY <1>6, <1>7
<1> QED  BY <1>8 DEF NothingLost, Waiting, Persisted, Open

LEMMA CaptureResultKept ==
  ASSUME Calm, Typed, NothingLost, CaptureResult
  PROVE  NothingLost'
<1> DEFINE d == "client_to_server"
<1>1. /\ pc[d] = "capture" /\ UNCHANGED <<serverIn, frame>> /\ traces \subseteq traces'
      /\ ~IsRequest(frame[d]) /\ lost \subseteq lost'
  BY GotoFacts DEF CaptureResult, Insert, Typed, Dirs, pipes
<1>2. at[d] \in Times /\ pending \in Table
  BY DEF Typed, TypeOK, Dirs, Table, PendingCalls
<1>3. pending' = pending
  BY <1>2, FreshIsSame DEF CaptureResult
<1>4. \A c \in Calls : Captured(c)' => Captured(c)
  BY <1>1 DEF Captured, Reached, IsRequest
<1>5. \A c \in Calls : Waiting(c) => Waiting(c)'
  BY <1>3 DEF Waiting
<1> QED  BY <1>1, <1>4, <1>5, KeptStep

\* A call that leaves the table is the request of the trace that is made.
LEMMA CaptureFromServerKept ==
  ASSUME Calm, Typed, NothingLost, CaptureFromServer
  PROVE  NothingLost'
<1> DEFINE d == "server_to_client"
           id == IdOfMessage(frame[d])
           match == Match(pending, id, at[d])
           trace == ServerTrace
<1>1. /\ pc[d] = "capture" /\ UNCHANGED <<serverIn, frame>>
      /\ pc'["client_to_server"] = pc["client_to_server"]
      /\ traces \subseteq traces' /\ lost \subseteq lost'
      /\ trace \in traces' \/ trace.call = None \/ trace.call \in lost'
  BY GotoFacts DEF CaptureFromServer, Insert, Typed, Dirs, pipes
<1>2. frame[d] \in Message /\ at[d] \in Times /\ pending \in Table
  BY <1>1, MessageFacts DEF Typed, TypeOK, InHand, Dirs, Table, PendingCalls
<1>3. id \in Ids
  BY <1>2, MessageFacts DEF IdOfMessage, Everything
<1>4. match = pending[id] /\ pending' = [pending EXCEPT ![id] = None]
  BY <1>2, FreshIsSame DEF CaptureFromServer, Match, Forget
<1>5. \A c \in Calls : Captured(c)' => Captured(c)
  BY <1>1 DEF Captured, Reached
<1>6. match # None => trace.call = match.call
  BY DEF ServerTrace
<1> HIDE DEF trace, match, id
<1>7. ASSUME NEW c \in Calls, Waiting(c) PROVE Waiting(c)' \/ Persisted(c)' \/ c \in lost'
  <2>1. PICK i \in Ids : pending[i] # None /\ pending[i].call = c
    BY <1>7 DEF Waiting
  <2>2. CASE i = id
    BY <1>1, <1>4, <1>6, <2>1, <2>2 DEF Persisted
  <2>3. CASE i # id
    <3>1. pending'[i] = pending[i]
      BY <1>2, <1>4, <2>1, <2>3 DEF Table
    <3> QED  BY <2>1, <3>1 DEF Waiting
  <2> QED  BY <2>2, <2>3
<1> QED  BY <1>1, <1>5, <1>7, KeptStep

\* The other steps touch neither the table nor the traces nor the server's input.
LEMMA OtherStepKept ==
  ASSUME Typed, NothingLost,
         UNCHANGED <<serverIn, pending>>, traces \subseteq traces', lost \subseteq lost',
         pc["client_to_server"] # "capture" \/ UNCHANGED <<pc["client_to_server"], frame["client_to_server"]>>
  PROVE  NothingLost'
<1>1. \A c \in Calls : Captured(c)' => Captured(c)
  BY DEF Captured, Reached
<1>2. \A c \in Calls : Waiting(c) => Waiting(c)'
  BY DEF Waiting
<1> QED  BY <1>1, <1>2, KeptStep

\* A call whose own capture fails is lost.
LEMMA LogFailsKept ==
  ASSUME Typed, NothingLost, NEW d \in Dirs, LogFails(d)
  PROVE  NothingLost'
<1> DEFINE m == frame[d]
<1>1. /\ pc[d] = "capture" /\ UNCHANGED <<serverIn, frame, pending, traces>>
      /\ lost \subseteq lost' /\ (m \in {"request"} \X Calls => m[2] \in lost')
      /\ \A e \in Dirs : e # d => pc'[e] = pc[e]
  BY GotoFacts DEF LogFails, Typed, pipes
<1>2. ASSUME NEW c \in Calls, Captured(c)', ~Captured(c) PROVE c \in lost'
  <2>1. Reached(<<"request", c>>) /\ pc["client_to_server"] = "capture"
        /\ frame["client_to_server"] = <<"request", c>>
    BY <1>1, <1>2 DEF Captured, Reached
  <2>2. pc'["client_to_server"] # "capture"
    BY <1>1, <1>2, <2>1 DEF Captured, Reached
  <2>3. d = "client_to_server"
    BY <1>1, <2>1, <2>2 DEF Dirs
  <2> QED  BY <1>1, <2>1, <2>3
<1>3. \A c \in Calls : Waiting(c) => Waiting(c)'
  BY <1>1 DEF Waiting
<1>4. \A c \in Calls : Persisted(c) => Persisted(c)'
  BY <1>1 DEF Persisted
<1>5. \A c \in Calls : Captured(c)' => Waiting(c)' \/ Persisted(c)' \/ c \in lost'
  BY <1>1, <1>2, <1>3, <1>4 DEF NothingLost, Waiting, Persisted, Open
<1> QED  BY <1>5 DEF NothingLost, Waiting, Persisted, Open

LEMMA NothingLostStep ==
  ASSUME Calm, Inventory, NothingLost, [Next]_vars
  PROVE  NothingLost'
<1> DEFINE c == "client_to_server"
           s == "server_to_client"
<1>1. Typed /\ OwnIds /\ c \in Dirs /\ s \in Dirs
  BY DEF Inventory, Dirs
<1>2. CASE \/ Forward \/ CaptureCall \/ CaptureResult \/ CaptureFromServer
           \/ LogFails(c) \/ LogFails(s)
  BY <1>1, <1>2, ForwardKept, CaptureCallKept, CaptureResultKept, CaptureFromServerKept,
     LogFailsKept
<1>3. CASE \/ ReadClock(c) \/ ReadFrame(c) \/ Refuse \/ RefusalHeader \/ RefusalPayload
           \/ RefusalPersisted \/ RefusalFails
  <2>1. pc[c] # "capture"
    BY <1>3 DEF ReadClock, ReadFrame, Refuse, RefusalHeader, RefusalPayload, RefusalPersisted,
                RefusalFails, Goto
  <2>2. UNCHANGED <<serverIn, pending>> /\ traces \subseteq traces' /\ lost \subseteq lost'
    BY <1>3 DEF ReadClock, ReadFrame, Refuse, RefusalHeader, RefusalPayload, RefusalPersisted,
                RefusalFails, pipes, record
  <2> QED  BY <1>1, <2>1, <2>2, OtherStepKept
<1>4. CASE ReadClock(s) \/ ReadFrame(s) \/ Header \/ Payload
  <2>1. pc'[c] = pc[c] /\ frame'[c] = frame[c]
    BY <1>1, <1>4, GotoFacts DEF ReadClock, ReadFrame, Header, Payload, Typed, TypeOK
  <2>2. UNCHANGED <<serverIn, pending, traces, lost>>
    BY <1>4 DEF ReadClock, ReadFrame, Header, Payload, pipes, record
  <2> QED  BY <1>1, <2>1, <2>2, OtherStepKept
<1>5. CASE \/ Tick \/ UNCHANGED vars
           \/ \E k \in Calls : SendCall(k) \/ ServerAnswers(k)
           \/ \E k \in ServerCalls : ServerAsks(k) \/ SendResult(k)
  <2>1. UNCHANGED <<serverIn, pending, traces, lost, pc, frame>>
    BY <1>5 DEF Tick, vars, SendCall, ServerAnswers, ServerAsks, SendResult, ServerWrites,
                pipes, forwarders, record
  <2> QED  BY <1>1, <2>1, OtherStepKept
<1> QED
  BY <1>2, <1>3, <1>4, <1>5 DEF Next, ClientToServer, ServerToClient

\* Every captured call stays findable until it is persisted: unless an error met
\* its own capture or the insertion of its trace, what leaves the table leaves it
\* into a trace, for any interleaving and any requests of the
\* server in between, a server that answers under the id of another call included.
THEOREM NothingLostCorrect ==
  ASSUME Calm
  PROVE  Spec => []NothingLost
<1>1. Init => NothingLost
  BY DEF Init, NothingLost, Captured, Reached
<1>2. Inventory /\ NothingLost /\ [Next]_vars => Inventory' /\ NothingLost'
  BY NothingLostStep, InventoryStep
<1> QED  BY <1>1, <1>2, InventoryInit, PTL DEF Spec

-----------------------------------------------------------------------------
(* How a session ends: proofs about StdioSession, for any number of        *)
(* frames, any capacity of the pipes, and all faults.                      *)

HIDE StdioAssumption
USE StdioSessionAssumption

\* Steps of one party, grouped as the proofs take them.
ClientStep == WriteFrame \/ ReadStdout \/ CloseStdin \/ ClientDies
ServerStep == Server \/ ServerDies
MainStep == Sigpipe \/ Finish

LEMMA StepIsOneOf ==
  NextSession <=> ClientStep \/ ServerStep \/ Forward1 \/ Forward2 \/ MainStep
BY DEF NextSession, ClientStep, ServerStep, MainStep, Forward1, Forward2, Server

-----------------------------------------------------------------------------
(* Types.                                                                  *)

Pipe(p) == p \in Seq(Frame) /\ Len(p) <= Capacity

\* What is put into a pipe that has room leaves it a pipe, and so does what is
\* taken out of one.
LEMMA PipeOps ==
  ASSUME NEW p, Pipe(p)
  PROVE  /\ \A f \in Frame : HasRoom(p) => Pipe(Append(p, f))
         /\ p # <<>> => Pipe(Tail(p)) /\ Head(p) \in Frame
         /\ Pipe(<<>>)
BY DEF Pipe, HasRoom

\* Every step keeps the types.
LEMMA SessionTypeStep ==
  ASSUME SessionTypeOK, [NextSession]_sessionVars
  PROVE  SessionTypeOK'
<1> USE DEF SessionTypeOK, sessionPipes, sessionForwarders, history
<1>1. Pipe(fromClient) /\ Pipe(toServer) /\ Pipe(fromServer) /\ Pipe(toClient)
  BY DEF Pipe
<1>2. "whole" \in Frame /\ "cut" \in Frame
  BY DEF Frame
<1>3. ASSUME Pipe(fromClient') /\ Pipe(toServer') /\ Pipe(fromServer') /\ Pipe(toClient')
      PROVE  \A p \in {fromClient', toServer', fromServer', toClient'} :
               p \in Seq(Frame) /\ Len(p) <= Capacity
  BY <1>3 DEF Pipe
<1>4. CASE ClientStep
  <2>1. Pipe(fromClient') /\ Pipe(toServer') /\ Pipe(fromServer') /\ Pipe(toClient')
    BY <1>1, <1>2, <1>4, PipeOps
       DEF ClientStep, WriteFrame, ReadStdout, CloseStdin, ClientDies
  <2> QED
    BY <1>3, <1>4, <2>1 DEF ClientStep, WriteFrame, ReadStdout, CloseStdin, ClientDies
<1>5. CASE ServerStep
  <2>1. Pipe(fromClient') /\ Pipe(toServer') /\ Pipe(fromServer') /\ Pipe(toClient')
    BY <1>1, <1>2, <1>5, PipeOps
       DEF ServerStep, Server, ServerReads, ServerReplies, ServerExits, ServerDies
  <2> QED
    BY <1>3, <1>5, <2>1
       DEF ServerStep, Server, ServerReads, ServerReplies, ServerExits, ServerDies, Gone
<1>6. CASE Forward1
  <2>1. Pipe(fromClient') /\ Pipe(toServer') /\ Pipe(fromServer') /\ Pipe(toClient')
    BY <1>1, <1>2, <1>6, PipeOps
       DEF Forward1, Read1, End1, Admit, Write1, Write1Fails, RefuseFrame, RefuseFails
  <2>2. f1' \in {"read", "budget", "write"} \cup Over
    BY <1>6 DEF Forward1, Read1, End1, Admit, Write1, Write1Fails, RefuseFrame, RefuseFails, Over
  <2> QED
    BY <1>3, <1>6, <2>1, <2>2
       DEF Forward1, Read1, End1, Admit, Write1, Write1Fails, RefuseFrame, RefuseFails
<1>7. CASE Forward2
  <2>1. Pipe(fromClient') /\ Pipe(toServer') /\ Pipe(fromServer') /\ Pipe(toClient')
    BY <1>1, <1>2, <1>7, PipeOps DEF Forward2, Read2, End2, Write2
  <2>2. f2' \in {"read", "write"} \cup Over
    BY <1>7 DEF Forward2, Read2, End2, Write2, Over
  <2> QED  BY <1>3, <1>7, <2>1, <2>2 DEF Forward2, Read2, End2, Write2
<1>8. CASE MainStep
  BY <1>1, <1>3, <1>8 DEF MainStep, Sigpipe, Finish, Exit
<1>9. CASE UNCHANGED sessionVars
  BY <1>9 DEF sessionVars
<1> QED  BY <1>4, <1>5, <1>6, <1>7, <1>8, <1>9, StepIsOneOf

\* Every variable of a session keeps its type, and no pipe holds more than it can.
THEOREM SessionTypeCorrect == SpecSession => []SessionTypeOK
<1>1. InitSession => SessionTypeOK
  BY DEF InitSession, SessionTypeOK, Frame
<1>2. SessionTypeOK /\ [NextSession]_sessionVars => SessionTypeOK'
  BY SessionTypeStep
<1> QED  BY <1>1, <1>2, PTL DEF SpecSession

-----------------------------------------------------------------------------
(* Nothing is lost in a session that ends by itself.                       *)

\* A pipe whose writer died in the middle of a frame.
BrokenOff(p) == p # <<>> /\ p[Len(p)] = "cut"

\* Every frame of the client is in stdin, in the hands of f1, or passed on,
\* unless the client broke off; and f1 returns only after the last.
ClientAccounted ==
  /\ passed \in Nat
  /\ f1 # "failed"
     => \/ passed + Len(fromClient) + (IF f1 \in {"budget", "write"} THEN 1 ELSE 0) = sent
        \/ client # "open" /\ BrokenOff(fromClient)
  /\ f1 = "returned" => fromClient = <<>> /\ client # "open"

\* The same of the answers of the server and f2.
ServerAccounted ==
  /\ answers \in Nat /\ delivered \in Nat
  /\ f2 # "failed"
     => \/ delivered + Len(fromServer) + (IF f2 = "write" THEN 1 ELSE 0) = answers
        \/ server \in Gone /\ BrokenOff(fromServer)
  /\ f2 = "returned" => fromServer = <<>> /\ server \in Gone

\* Reading the head of a pipe that was broken off leaves it so, unless the head is
\* the broken frame.
LEMMA TailBrokenOff ==
  ASSUME NEW p, Pipe(p), p # <<>>
  PROVE  /\ Len(Tail(p)) = Len(p) - 1
         /\ BrokenOff(p) => Head(p) = "cut" \/ BrokenOff(Tail(p))
<1>1. Len(p) \in Nat \ {0} /\ Len(Tail(p)) = Len(p) - 1 /\ Head(p) = p[1]
  BY DEF Pipe
<1>2. CASE Len(p) = 1
  BY <1>1, <1>2 DEF BrokenOff
<1>3. CASE Len(p) > 1
  <2>1. Tail(p)[Len(p) - 1] = p[Len(p)]
    BY <1>1, <1>3 DEF Pipe
  <2>2. Tail(p) # <<>>
    <3>1. Len(Tail(p)) # Len(<<>>)
      BY <1>1, <1>3
    <3> QED  BY <3>1, Zenon
  <2> QED  BY <1>1, <2>1, <2>2 DEF BrokenOff
<1> QED  BY <1>1, <1>2, <1>3

LEMMA AppendToPipe ==
  ASSUME NEW p, Pipe(p), NEW f \in Frame
  PROVE  /\ Len(Append(p, f)) = Len(p) + 1 /\ Len(p) \in Nat
         /\ f = "cut" => BrokenOff(Append(p, f))
BY DEF Pipe, BrokenOff

\* Every step keeps the account of the client's frames.
LEMMA ClientAccountedStep ==
  ASSUME SessionTypeOK, ClientAccounted, [NextSession]_sessionVars
  PROVE  ClientAccounted'
<1> USE DEF ClientAccounted, sessionPipes, sessionForwarders, history
<1>1. Pipe(fromClient) /\ sent \in Nat /\ "whole" \in Frame /\ "cut" \in Frame
  BY DEF SessionTypeOK, Pipe, Frame
<1>2. CASE WriteFrame
  BY <1>1, <1>2, AppendToPipe DEF WriteFrame
<1>3. CASE ClientDies
  BY <1>1, <1>3, AppendToPipe DEF ClientDies
<1>4. CASE Read1
  BY <1>1, <1>4, TailBrokenOff DEF Read1
<1>5. CASE End1
  BY <1>1, <1>5 DEF End1
<1>6. CASE Admit \/ Write1Fails \/ RefuseFails
  BY <1>6 DEF Admit, Write1Fails, RefuseFails
<1>7. CASE Write1
  BY <1>1, <1>7, AppendToPipe DEF Write1
<1>8. CASE RefuseFrame
  BY <1>1, <1>8, AppendToPipe DEF RefuseFrame
<1>9. CASE ReadStdout \/ CloseStdin \/ ServerStep \/ Forward2 \/ MainStep
  BY <1>9 DEF ReadStdout, CloseStdin, ServerStep, Server, ServerReads, ServerReplies,
              ServerExits, ServerDies, Forward2, Read2, End2, Write2, MainStep, Sigpipe,
              Finish, Exit
<1>10. CASE UNCHANGED sessionVars
  BY <1>10 DEF sessionVars
<1> QED
  BY <1>2, <1>3, <1>4, <1>5, <1>6, <1>7, <1>8, <1>9, <1>10, StepIsOneOf
     DEF ClientStep, Forward1

\* Every step keeps the account of the server's answers.
LEMMA ServerAccountedStep ==
  ASSUME SessionTypeOK, ServerAccounted, [NextSession]_sessionVars
  PROVE  ServerAccounted'
<1> USE DEF ServerAccounted, Gone, sessionPipes, sessionForwarders, history
<1>1. Pipe(fromServer) /\ "whole" \in Frame /\ "cut" \in Frame
  BY DEF SessionTypeOK, Pipe, Frame
<1>2. CASE ServerReplies
  BY <1>1, <1>2, AppendToPipe DEF ServerReplies
<1>3. CASE ServerDies
  BY <1>1, <1>3, AppendToPipe DEF ServerDies
<1>4. CASE ServerReads \/ ServerExits
  BY <1>4 DEF ServerReads, ServerExits
<1>5. CASE Read2
  BY <1>1, <1>5, TailBrokenOff DEF Read2
<1>6. CASE End2
  BY <1>1, <1>6 DEF End2
<1>7. CASE Write2
  BY <1>1, <1>7, AppendToPipe DEF Write2
<1>8. CASE ClientStep \/ Forward1 \/ MainStep
  BY <1>8 DEF ClientStep, WriteFrame, ReadStdout, CloseStdin, ClientDies, Forward1, Read1,
              End1, Admit, Write1, Write1Fails, RefuseFrame, RefuseFails, MainStep, Sigpipe,
              Finish, Exit
<1>9. CASE UNCHANGED sessionVars
  BY <1>9 DEF sessionVars
<1> QED
  BY <1>2, <1>3, <1>4, <1>5, <1>6, <1>7, <1>8, <1>9, StepIsOneOf
     DEF ServerStep, Server, Forward2

\* A session that ends by itself with both forwarders at the end of their input
\* has lost no frame, however large the pipes and whoever died when.
THEOREM NothingCutOffCorrect == SpecSession => []NothingCutOff
<1>1. InitSession => ClientAccounted /\ ServerAccounted
  BY DEF InitSession, ClientAccounted, ServerAccounted
<1>2. /\ SessionTypeOK /\ ClientAccounted /\ ServerAccounted /\ [NextSession]_sessionVars
      => ClientAccounted' /\ ServerAccounted'
  BY ClientAccountedStep, ServerAccountedStep
<1>3. SessionTypeOK /\ ClientAccounted /\ ServerAccounted => NothingCutOff
  BY DEF SessionTypeOK, ClientAccounted, ServerAccounted, BrokenOff, NothingCutOff
<1> QED  BY <1>1, <1>2, <1>3, SessionTypeCorrect, PTL DEF SpecSession
=============================================================================
