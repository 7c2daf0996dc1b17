----------------------------- MODULE StdioProxy -----------------------------
(***************************************************************************)
(* The stdio proxy: runStdio, its two forwardStdio goroutines, and the     *)
(* capture of what they forward.                                           *)
(*                                                                         *)
(*   client --stdin--> client_to_server --pipe--> server                   *)
(*   client <-stdout-- server_to_client <-pipe--- server                   *)
(*                                                                         *)
(* A forwarder writes a frame and only then captures it.  A frame is two   *)
(* writes, header and payload; stdoutMu is taken for the error replies of  *)
(* the client_to_server forwarder, and by nobody else.                     *)
(***************************************************************************)
EXTENDS Naturals, Sequences, TraceTracker

CONSTANTS
  Calls,       \* requests of the client
  ServerCalls, \* requests of the server (sampling, roots), nested in a call
  IdOf,        \* the JSON-RPC id of every request; each side numbers its own
  CallerOf,    \* the client's call that a server's request serves
  Refused,     \* the messages of the client that the budget refuses
  Unlogged,    \* the messages at whose capture EmitLog may fail
  Unstored,    \* the messages whose trace the store may fail to take
  MaxTime      \* the clock stops here

Dirs == {"client_to_server", "server_to_client"}
Times == 0 .. MaxTime

\* A message is a request, or the answer ("result") or the budget's error
\* ("refusal") to one.
Message == {"request", "result", "refusal"} \X (Calls \cup ServerCalls)
IsRequest(m) == m[1] = "request"
IdOfMessage(m) == IdOf[m[2]]

ASSUME StdioAssumption ==
  /\ Calls \cap ServerCalls = {} /\ None \notin Calls \cup ServerCalls
  /\ IdOf \in [Calls \cup ServerCalls -> Ids]
  /\ CallerOf \in [ServerCalls -> Calls]
  /\ MaxTime \in Nat /\ StaleAfter \in Nat
  /\ None \notin [call : Calls, at : Times]

VARIABLES
  now,       \* the clock
  stdin,     \* frames the client has written and the proxy has not read
  serverIn,  \* frames written to the server
  serverOut, \* frames the server has written and the proxy has not read
  stdout,    \* chunks written to the client: header or payload of a message
  stdoutMu,  \* whether stdoutMu is held
  pc, frame, \* of each forwarder
  at,        \* receivedAt of the frame of each forwarder
  pending,   \* the tracker's table
  traces,    \* what was persisted
  lost,      \* history: the calls whose capture, or whose trace's insertion, failed
  written    \* history: the messages that the two ends have written

pipes == <<stdin, serverIn, serverOut, stdout>>
forwarders == <<stdoutMu, pc, frame, at>>
record == <<pending, traces, lost>>
vars == <<now, stdin, serverIn, serverOut, stdout, stdoutMu, pc, frame, at,
          pending, traces, lost, written>>

Init ==
  /\ now = 0
  /\ stdin = <<>> /\ serverIn = <<>> /\ serverOut = <<>> /\ stdout = <<>>
  /\ stdoutMu = FALSE
  /\ pc = [d \in Dirs |-> "clock"]
  /\ frame = [d \in Dirs |-> None]
  /\ at = [d \in Dirs |-> 0]
  /\ pending = NothingPending
  /\ traces = {}
  /\ lost = {}
  /\ written = {}

-----------------------------------------------------------------------------
(* The two ends.                                                           *)

\* A frame reaches the client when its payload follows its own header.
Received ==
  {m \in Message : \E i \in 1 .. Len(stdout) - 1 :
     stdout[i] = <<"header", m>> /\ stdout[i + 1] = <<"payload", m>>}

Answered(c) == <<"result", c>> \in Received \/ <<"refusal", c>> \in Received

\* Two requests that a client has in flight never have the same id.
SendCall(c) ==
  /\ <<"request", c>> \notin written
  /\ \A b \in Calls :
       IdOf[b] = IdOf[c] /\ <<"request", b>> \in written => Answered(b)
  /\ stdin' = Append(stdin, <<"request", c>>)
  /\ written' = written \cup {<<"request", c>>}
  /\ UNCHANGED <<now, serverIn, serverOut, stdout, forwarders, record>>

\* The client answers a request of the server.
SendResult(s) ==
  /\ <<"request", s>> \in Received
  /\ <<"result", s>> \notin written
  /\ stdin' = Append(stdin, <<"result", s>>)
  /\ written' = written \cup {<<"result", s>>}
  /\ UNCHANGED <<now, serverIn, serverOut, stdout, forwarders, record>>

Reached(m) == \E i \in DOMAIN serverIn : serverIn[i] = m

ServerWrites(m) ==
  /\ m \notin written
  /\ serverOut' = Append(serverOut, m)
  /\ written' = written \cup {m}
  /\ UNCHANGED <<now, stdin, serverIn, stdout, forwarders, record>>

\* While it works on a call the server may ask the client something.
ServerAsks(s) ==
  /\ Reached(<<"request", CallerOf[s]>>)
  /\ <<"result", CallerOf[s]>> \notin written
  /\ ServerWrites(<<"request", s>>)

\* It answers the call once its questions, if it asked any, are answered.
ServerAnswers(c) ==
  /\ Reached(<<"request", c>>)
  /\ \A s \in ServerCalls :
       CallerOf[s] = c /\ <<"request", s>> \in written => Reached(<<"result", s>>)
  /\ ServerWrites(<<"result", c>>)

Tick ==
  /\ now < MaxTime
  /\ now' = now + 1
  /\ UNCHANGED <<pipes, forwarders, record, written>>

-----------------------------------------------------------------------------
(* forwardStdio.                                                           *)

Goto(d, from, to) == pc[d] = from /\ pc' = [pc EXCEPT ![d] = to]

\* receivedAt := time.Now(), before readFrame blocks.
ReadClock(d) ==
  /\ Goto(d, "clock", "read")
  /\ at' = [at EXCEPT ![d] = now]
  /\ UNCHANGED <<now, pipes, stdoutMu, frame, record, written>>

ReadFrame(d) ==
  LET source == IF d = "client_to_server" THEN stdin ELSE serverOut IN
  /\ source # <<>>
  /\ frame' = [frame EXCEPT ![d] = Head(source)]
  /\ IF d = "client_to_server"
     THEN Goto(d, "read", "budget") /\ stdin' = Tail(stdin) /\ UNCHANGED serverOut
     ELSE Goto(d, "read", "header") /\ serverOut' = Tail(serverOut) /\ UNCHANGED stdin
  /\ UNCHANGED <<now, serverIn, stdout, stdoutMu, at, record, written>>

\* Mutant: a call waits until the one before it has been answered.
ForwardMutant ==
  LET d == "client_to_server" IN
  /\ Goto(d, "budget", "capture")
  /\ frame[d] \notin Refused
  /\ pending = NothingPending
  /\ serverIn' = Append(serverIn, frame[d])
  /\ UNCHANGED <<now, stdin, serverOut, stdout, stdoutMu, frame, at, record, written>>

\* The budget lets the message through: nobody else writes to the server, so
\* header and payload are one step.
Forward ==
  LET d == "client_to_server" IN
  /\ Goto(d, "budget", "capture")
  /\ frame[d] \notin Refused
  /\ serverIn' = Append(serverIn, frame[d])
  /\ UNCHANGED <<now, stdin, serverOut, stdout, stdoutMu, frame, at, record, written>>

\* The budget refuses it, be it a request or an answer to the server: the
\* client gets an error frame under the same id.  stdoutMu is held from before
\* the header until the blocked call is persisted.
Refusal == <<"refusal", frame["client_to_server"][2]>>

Refuse ==
  /\ Goto("client_to_server", "budget", "refuse")
  /\ frame["client_to_server"] \in Refused
  /\ ~stdoutMu /\ stdoutMu' = TRUE
  /\ UNCHANGED <<now, pipes, frame, at, record, written>>

RefusalHeader ==
  /\ Goto("client_to_server", "refuse", "refusing")
  /\ stdout' = Append(stdout, <<"header", Refusal>>)
  /\ UNCHANGED <<now, stdin, serverIn, serverOut, stdoutMu, frame, at, record, written>>

RefusalPayload ==
  /\ Goto("client_to_server", "refusing", "refused")
  /\ stdout' = Append(stdout, <<"payload", Refusal>>)
  /\ UNCHANGED <<now, stdin, serverIn, serverOut, stdoutMu, frame, at, record, written>>

RefusedTrace ==
  LET d == "client_to_server" IN
  [call |-> frame[d][2], message |-> Refusal, from |-> at[d]]

RefusalPersisted ==
  /\ Goto("client_to_server", "refused", "clock")
  /\ traces' = traces \cup {RefusedTrace}
  /\ stdoutMu' = FALSE
  /\ UNCHANGED <<now, pipes, frame, at, pending, lost, written>>

\* An error of persistTraceRecord ends the forwarder, be it of the insertion or
\* of the retention and the alerts after it; the deferred unlock runs.
RefusalFails ==
  /\ Goto("client_to_server", "refused", "failed")
  /\ Refusal \in Unstored
  /\ \E inserted \in SUBSET {RefusedTrace} : traces' = traces \cup inserted
  /\ stdoutMu' = FALSE
  /\ UNCHANGED <<now, pipes, frame, at, pending, lost, written>>

\* The server_to_client forwarder writes without stdoutMu.
Header ==
  LET d == "server_to_client" IN
  /\ Goto(d, "header", "payload")
  /\ stdout' = Append(stdout, <<"header", frame[d]>>)
  /\ UNCHANGED <<now, stdin, serverIn, serverOut, stdoutMu, frame, at, record, written>>

Payload ==
  LET d == "server_to_client" IN
  /\ Goto(d, "payload", "capture")
  /\ stdout' = Append(stdout, <<"payload", frame[d]>>)
  /\ UNCHANGED <<now, stdin, serverIn, serverOut, stdoutMu, frame, at, record, written>>

-----------------------------------------------------------------------------
(* captureAndPersist, through traceTracker.Record.  Its errors are logged   *)
(* and the forwarder goes on.  An error of the retention or of the alerts,  *)
(* after the insertion, loses nothing: the step is that of a success.       *)

\* A request of the client is remembered, not persisted.
CaptureCall ==
  LET d == "client_to_server"
      c == frame[d][2] IN
  /\ Goto(d, "capture", "clock")
  /\ IsRequest(frame[d])
  /\ pending' = Remember(pending, IdOf[c], [call |-> c, at |-> at[d]], at[d])
  /\ UNCHANGED <<now, pipes, stdoutMu, frame, at, traces, lost, written>>

\* A message that matches nothing makes a trace of its own.
Standalone(d) == [call |-> None, message |-> frame[d], from |-> at[d]]

\* The trace is inserted, or it is not, and the call it was to close is lost: the
\* tracker has forgotten it.
Insert(trace) ==
  \/ /\ traces' = traces \cup {trace}
     /\ lost' = lost
  \/ /\ trace.message \in Unstored
     /\ traces' = traces
     /\ lost' = lost \cup ({trace.call} \ {None})

\* The client's answer to the server is never matched.
CaptureResult ==
  LET d == "client_to_server" IN
  /\ Goto(d, "capture", "clock")
  /\ ~IsRequest(frame[d])
  /\ pending' = Fresh(pending, at[d])
  /\ Insert(Standalone(d))
  /\ UNCHANGED <<now, pipes, stdoutMu, frame, at, written>>

\* Whatever the server sent under the id of a pending request is taken for its
\* response, a request of the server included.
ServerTrace ==
  LET d == "server_to_client"
      match == Match(pending, IdOfMessage(frame[d]), at[d]) IN
  IF match = None THEN Standalone(d)
  ELSE [call |-> match.call, message |-> frame[d], from |-> match.at]

CaptureFromServer ==
  LET d == "server_to_client" IN
  /\ Goto(d, "capture", "clock")
  /\ pending' = Forget(pending, IdOfMessage(frame[d]), at[d])
  /\ Insert(ServerTrace)
  /\ UNCHANGED <<now, pipes, stdoutMu, frame, at, written>>

\* EmitLog fails: captureAndPersist returns before the tracker sees the frame.
\* A call is then never remembered; one that waits goes on waiting.
LogFails(d) ==
  /\ Goto(d, "capture", "clock")
  /\ frame[d] \in Unlogged
  /\ lost' = IF frame[d] \in {"request"} \X Calls THEN lost \cup {frame[d][2]} ELSE lost
  /\ UNCHANGED <<now, pipes, stdoutMu, frame, at, pending, traces, written>>

-----------------------------------------------------------------------------
ClientToServer ==
  \/ ReadClock("client_to_server") \/ ReadFrame("client_to_server")
  \/ Forward \/ Refuse \/ RefusalHeader \/ RefusalPayload
  \/ RefusalPersisted \/ RefusalFails
  \/ CaptureCall \/ CaptureResult \/ LogFails("client_to_server")

ServerToClient ==
  \/ ReadClock("server_to_client") \/ ReadFrame("server_to_client")
  \/ Header \/ Payload \/ CaptureFromServer \/ LogFails("server_to_client")

Next ==
  \/ ClientToServer \/ ServerToClient \/ Tick
  \/ \E c \in Calls : SendCall(c) \/ ServerAnswers(c)
  \/ \E s \in ServerCalls : ServerAsks(s) \/ SendResult(s)

Spec == Init /\ [][Next]_vars

\* The two goroutines run, the client answers what it is asked, and the server
\* answers a call once it can.  Nobody has to send a call or ask anything.
Fairness ==
  /\ WF_vars(ClientToServer) /\ WF_vars(ServerToClient)
  /\ \A s \in ServerCalls : WF_vars(SendResult(s))
  /\ \A c \in Calls : WF_vars(ServerAnswers(c))

FairSpec == Spec /\ Fairness

-----------------------------------------------------------------------------
(* Properties.                                                             *)

Trace == [call : Calls \cup ServerCalls \cup {None}, message : Message, from : Times]

\* Every variable has its type.
TypeOK ==
  /\ now \in Times
  /\ stdin \in Seq(Message) /\ serverIn \in Seq(Message) /\ serverOut \in Seq(Message)
  /\ stdout \in Seq({"header", "payload"} \X Message)
  /\ stdoutMu \in BOOLEAN
  /\ pc \in [Dirs -> {"clock", "read", "budget", "refuse", "refusing", "refused",
                      "failed", "header", "payload", "capture"}]
  /\ frame \in [Dirs -> Message \cup {None}]
  /\ at \in [Dirs -> Times]
  /\ pending \in [Ids -> [call : Calls, at : Times] \cup {None}]
  /\ traces \subseteq Trace
  /\ lost \subseteq Calls
  /\ written \subseteq Message

\* No exchange is persisted twice: a message makes one trace, and a call is the
\* request of one trace, even when it is refused or its id is used again.
OneTracePerExchange ==
  \A t, u \in traces :
    t # u => t.message # u.message /\ (t.call = None \/ t.call # u.call)

\* A request was captured when it has reached the server, and its forwarder is done.
Captured(c) ==
  /\ Reached(<<"request", c>>)
  /\ ~(pc["client_to_server"] = "capture" /\ frame["client_to_server"] = <<"request", c>>)

\* The calls that were captured, and those that wait in the table, under whatever
\* id.
Begun == {c \in Calls : Captured(c)}
Open == {pending[i].call : i \in {j \in Ids : pending[j] # None}}

Promise == INSTANCE Exchanges WITH
  Entries <- Trace, begun <- Begun, open <- Open, log <- traces

\* Every capture is a step of an exchange: a call is opened once and closed at
\* most once, by one message, and a trace is never changed, whatever ids the
\* two sides use and whatever the table drops.
ImplementsExchanges == Promise!Spec

\* A trace pairs a call with the answer to that call, at least when no other
\* request has the id of the call, whatever ids the others share.
Paired(t) == t.call # None => t.message \in {"result", "refusal"} \X {t.call}
Unambiguous(c) ==
  \A d \in Calls \cup ServerCalls : IdOf[d] = IdOf[c] => d = c
UniqueIdsPaired ==
  \A t \in traces : t.call \in Calls /\ Unambiguous(t.call) => Paired(t)

\* A call that was forwarded and dealt with is waiting for its answer or has its
\* trace, unless an error met its own capture or the insertion of its own trace
\* (runs in which no request grows stale and no id is used twice).
NothingLost ==
  \A c \in Calls : Captured(c) =>
    \/ c \in Open
    \/ \E t \in traces : t.call = c
    \/ c \in lost

\* The client can parse what it reads: every header is followed by its payload.
FramesIntact ==
  \A i \in DOMAIN stdout :
    IF i % 2 = 1 THEN stdout[i][1] = "header"
    ELSE stdout[i] = <<"payload", stdout[i - 1][2]>>

\* As long as no refusal tears a frame or ends its forwarder with an error of the
\* store, every call is answered, also when the server must first ask the client
\* something and whatever captures fail: neither direction ever waits for the
\* other, and a forwarder outlives the errors of its captures.
CallsAnswered ==
  [](FramesIntact /\ pc["client_to_server"] # "failed") =>
    \A c \in Calls : (<<"request", c>> \in written) ~> Answered(c)
=============================================================================
