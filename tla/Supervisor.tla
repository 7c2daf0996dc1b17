----------------------------- MODULE Supervisor -----------------------------
(***************************************************************************)
(* Several MCP servers behind one dashboard: runMultiServerProxy, the      *)
(* names and ports it gives to the workers, the router of the dashboard,   *)
(* and how one worker's end becomes the end of the process.                *)
(*                                                                         *)
(* The dashboard listens first; then every worker is started in a          *)
(* goroutine of its own and listens on a port of its own, to which the     *)
(* router sends what is POSTed to the dashboard under the worker's name.   *)
(* Main waits for the first worker, or the dashboard, to return.           *)
(***************************************************************************)
EXTENDS Naturals, Sequences, FiniteSets

CONSTANTS
  Fleets,    \* the values --server may have: sequences of servers
  Requests,  \* what clients POST to the dashboard
  Names,     \* the server_id they may ask for
  BasePorts, \* values of --base-port
  Dashboard, \* the value of --port
  MaxPort,   \* 65535
  Takeable,  \* ports that other programs may hold
  Faults     \* of a run: "listener", "missing", "silent", "client"

\* A request is answered by a worker, by another program, with a status, or cut off.
Undecided == <<"undecided", 0>>
By(i) == <<"worker", i>>
Status(code) == <<"status", code>>
Stranger == <<"stranger", 0>>
Lost == <<"lost", 0>>

\* A server is a URL or the path of a binary; its base is the name that
\* serverIDBaseForTarget and sanitizeServerID make of it, a word and the numbers
\* after it: "host" and <<2>> for http://host:2.
Servers == [kind : {"url", "binary", "blank"}, base : [word : STRING, numbers : Seq(Nat)]]

Numbered(base, n) == [base EXCEPT !.numbers = Append(@, n)]

ASSUME SupervisorAssumption ==
  /\ Dashboard \in 1 .. MaxPort /\ BasePorts \subseteq 1 .. MaxPort /\ MaxPort \in Nat
  /\ Fleets \subseteq Seq(Servers) /\ \A f \in Fleets : Len(f) > 1

VARIABLES
  fleet, basePort, \* the command line
  taken,     \* the ports held by other programs
  main,      \* "starting", "serving", "ended", "crashed"
  accepted,  \* whether the configuration was
  listening, \* the ports the process listens on
  worker,    \* where each worker is
  errCh,     \* what the workers and the dashboard have returned, 0 for the latter
  asked,     \* the server_id of each request
  pc,        \* where each request is
  sentTo,    \* the port it was sent to
  outcome    \* how it was answered

config == <<fleet, basePort, taken, accepted>>
process == <<main, listening, worker, errCh>>
requests == <<asked, pc, sentTo, outcome>>
vars == <<config, process, requests>>

Workers == DOMAIN fleet

-----------------------------------------------------------------------------
(* Names and ports.                                                        *)

\* Mutant: names are not made unique.
ServerIdMutant(i) == fleet[i].base

\* uniqueServerID: the second server of a name gets -2, whoever else is
\* called so.
ServerId(i) ==
  LET before == Cardinality({j \in 1 .. i - 1 : fleet[j].base = fleet[i].base}) IN
  IF before = 0 THEN fleet[i].base ELSE Numbered(fleet[i].base, before + 1)

Port(i) == basePort + i

\* Mutant: the dashboard's port is not kept free.
PortsValidMutant == \A i \in Workers : Port(i) \in 1 .. MaxPort

\* allocateWorkerPorts.
PortsValid == \A i \in Workers : Port(i) \in 1 .. MaxPort /\ Port(i) # Dashboard

\* resolveMultiServerTarget refuses an empty value.
Accepted == PortsValid /\ \A i \in Workers : fleet[i].kind # "blank"

ServerIds == {ServerId(i) : i \in Workers}

\* buildProxyRouter fills a map: of two workers with one name the later stays.
WorkerNamed(name) == CHOOSE i \in Workers :
  ServerId(i) = name /\ \A j \in Workers : j > i => ServerId(j) # name

\* Mutant: an unknown name gets the default.
KnownMutant(name) == TRUE

\* A lone name is also the default.
Known(name) == name \in ServerIds \/ Cardinality(ServerIds) = 1

Route(name) ==
  IF name \in ServerIds THEN Port(WorkerNamed(name)) ELSE Port(1)

-----------------------------------------------------------------------------
Init ==
  /\ fleet \in Fleets /\ basePort \in BasePorts /\ taken \in SUBSET Takeable
  /\ main = "starting" /\ accepted = FALSE
  /\ listening = {} /\ errCh = <<>>
  /\ worker = [i \in DOMAIN fleet |-> "new"]
  /\ asked \in [Requests -> Names]
  /\ pc = [q \in Requests |-> "new"]
  /\ sentTo = [q \in Requests |-> 0]
  /\ outcome = [q \in Requests |-> Undecided]

\* The deferred calls and the end of the process cut off what is under way.
End(how) ==
  /\ main' = how
  /\ listening' = {}
  /\ pc' = [q \in Requests |-> IF pc[q] = "new" THEN "new" ELSE "done"]
  /\ outcome' = [q \in Requests |->
                   IF pc[q] \in {"new", "done"} THEN outcome[q] ELSE Lost]

\* The ports are allocated and the dashboard listens, or nothing starts.
Start ==
  /\ main = "starting"
  /\ IF Accepted /\ Dashboard \notin taken
     THEN main' = "serving" /\ listening' = {Dashboard} /\ accepted' = TRUE
     ELSE main' = "ended" /\ UNCHANGED <<listening, accepted>>
  /\ UNCHANGED <<fleet, basePort, taken, worker, errCh, requests>>

Goto(i, from, to) == main = "serving" /\ worker[i] = from /\ worker' = [worker EXCEPT ![i] = to]

\* A worker returns.  Its port is free again.
Return(i, from, to) ==
  /\ Goto(i, from, to)
  /\ errCh' = Append(errCh, i)
  /\ listening' = listening \ {Port(i)}
  /\ UNCHANGED <<config, main, requests>>

\* runHTTP wants the next port to be valid, which only a server that it starts
\* itself needs.
UpstreamPortInvalid(i) ==
  /\ fleet[i].kind = "url" /\ Port(i) + 1 > MaxPort
  /\ Return(i, "new", "stopped")

Free(port) == port \notin taken \cup listening

Listen(i) ==
  /\ Goto(i, "new", IF fleet[i].kind = "url" THEN "serving" ELSE "bound")
  /\ fleet[i].kind = "url" => Port(i) + 1 <= MaxPort
  /\ Free(Port(i))
  /\ listening' = listening \cup {Port(i)}
  /\ UNCHANGED <<config, main, errCh, requests>>

ListenFails(i) ==
  /\ fleet[i].kind = "url" => Port(i) + 1 <= MaxPort
  /\ ~Free(Port(i))
  /\ Return(i, "new", "stopped")

\* runStdio: there is no such binary.
SpawnFails(i) ==
  /\ "missing" \in Faults
  /\ Return(i, "bound", "stopped")

\* runStdio: the server runs, and the forwarder reads from Stdin, which a
\* worker has not been given: a nil reader panics, and with it the process.
ForwardFromNil(i) ==
  /\ main = "serving" /\ worker[i] = "bound"
  /\ End("crashed")
  /\ UNCHANGED <<config, worker, errCh, asked, sentTo>>

\* Serve returns an error.
ServeFails(i) ==
  /\ "listener" \in Faults
  /\ Return(i, "serving", "broken")

DashboardFails ==
  /\ "listener" \in Faults /\ main = "serving" /\ Dashboard \in listening
  /\ errCh' = Append(errCh, 0)
  /\ listening' = listening \ {Dashboard}
  /\ UNCHANGED <<config, main, worker, requests>>

\* Mutant: main returns when every worker has.
FinishMutant ==
  /\ main = "serving" /\ \A i \in Workers : worker[i] \in {"stopped", "broken"}
  /\ End("ended")
  /\ UNCHANGED <<config, worker, errCh, asked, sentTo>>

\* return <-errCh
Finish ==
  /\ main = "serving" /\ errCh # <<>>
  /\ End("ended")
  /\ UNCHANGED <<config, worker, errCh, asked, sentTo>>

-----------------------------------------------------------------------------
(* The router.                                                             *)

Answer(q, from, what) ==
  /\ main = "serving" /\ pc[q] = from
  /\ pc' = [pc EXCEPT ![q] = "done"]
  /\ outcome' = [outcome EXCEPT ![q] = what]
  /\ UNCHANGED <<config, process, asked, sentTo>>

\* The connection is accepted by the dashboard.
Accept(q) ==
  /\ main = "serving" /\ Dashboard \in listening /\ pc[q] = "new"
  /\ pc' = [pc EXCEPT ![q] = "router"]
  /\ UNCHANGED <<config, process, asked, sentTo, outcome>>

UnknownServer(q) == ~Known(asked[q]) /\ Answer(q, "router", Status(400))

\* io.ReadAll(r.Body): the body is there once the client has sent all of it, and
\* nothing limits the time that takes.
BodyArrives(q) ==
  /\ main = "serving" /\ pc[q] = "router" /\ Known(asked[q])
  /\ pc' = [pc EXCEPT ![q] = "read"]
  /\ UNCHANGED <<config, process, asked, sentTo, outcome>>

\* The body breaks off or is malformed.
BodyFails(q) ==
  /\ "client" \in Faults /\ Known(asked[q])
  /\ Answer(q, "router", Status(400))

Forward(q) ==
  /\ main = "serving" /\ pc[q] = "read" /\ Known(asked[q])
  /\ Route(asked[q]) \in listening \cup taken
  /\ pc' = [pc EXCEPT ![q] = "sent"]
  /\ sentTo' = [sentTo EXCEPT ![q] = Route(asked[q])]
  /\ UNCHANGED <<config, process, asked, outcome>>

\* Nobody listens there: the worker has not come up yet, or has stopped.
Refused(q) ==
  /\ Route(asked[q]) \notin listening \cup taken
  /\ Answer(q, "read", Status(502))

\* The worker's own answer, HttpProxy; a command worker takes no POST.
WorkerAnswers(q) ==
  \E i \in Workers :
    /\ Port(i) = sentTo[q] /\ Port(i) \in listening
    /\ Answer(q, "sent", IF worker[i] = "bound" THEN Status(405) ELSE By(i))

\* Who answers behind the port may be somebody else.
StrangerAnswers(q) == sentTo[q] \in taken /\ Answer(q, "sent", Stranger)

Silent(q) == "silent" \in Faults \/ sentTo[q] \in taken

\* Mutant: the router waits as long as it takes.
TimeoutMutant(q) == sentTo[q] \notin listening \cup taken /\ Answer(q, "sent", Status(502))

\* Thirty seconds without an answer, or a broken connection.
Timeout(q) ==
  /\ Silent(q) \/ sentTo[q] \notin listening
  /\ Answer(q, "sent", Status(502))

\* The client hangs up.
ClientGone(q) ==
  /\ "client" \in Faults /\ pc[q] \in {"router", "read", "sent"}
  /\ Answer(q, pc[q], Lost)

-----------------------------------------------------------------------------
StepOfWorker(i) ==
  UpstreamPortInvalid(i) \/ Listen(i) \/ ListenFails(i) \/ SpawnFails(i) \/ ForwardFromNil(i)

Router(q) == UnknownServer(q) \/ Forward(q) \/ Refused(q)

Next ==
  \/ Start \/ Finish \/ DashboardFails
  \/ \E i \in Workers : StepOfWorker(i) \/ ServeFails(i)
  \/ \E q \in Requests : \/ Accept(q) \/ BodyArrives(q) \/ BodyFails(q) \/ Router(q)
                         \/ WorkerAnswers(q) \/ StrangerAnswers(q)
                         \/ Timeout(q) \/ ClientGone(q)

Spec == Init /\ [][Next]_vars

\* Goroutines run and timers expire.  Neither a server nor a stranger must answer,
\* and no client has to ask, or to send the body of what it asks.
FairSpec ==
  /\ Spec /\ WF_vars(Start) /\ WF_vars(Finish)
  /\ WF_vars(\E i \in Workers : StepOfWorker(i))
  /\ \A q \in Requests :
       WF_vars(Router(q)) /\ WF_vars(Timeout(q) \/ (~Silent(q) /\ WorkerAnswers(q)))

-----------------------------------------------------------------------------
(* Properties.                                                             *)

Outcomes == {Undecided, Stranger, Lost} \cup {By(i) : i \in Workers}
              \cup {Status(code) : code \in {400, 405, 502}}

\* Every variable has its type.
TypeOK ==
  /\ fleet \in Fleets /\ basePort \in BasePorts /\ taken \subseteq Takeable
  /\ main \in {"starting", "serving", "ended", "crashed"} /\ accepted \in BOOLEAN
  /\ listening \subseteq 1 .. MaxPort
  /\ worker \in [DOMAIN fleet -> {"new", "bound", "serving", "stopped", "broken"}]
  /\ errCh \in Seq({0} \cup DOMAIN fleet)
  /\ asked \in [Requests -> Names]
  /\ pc \in [Requests -> {"new", "router", "read", "sent", "done"}]
  /\ sentTo \in [Requests -> 0 .. MaxPort] /\ outcome \in [Requests -> Outcomes]

\* A request is answered by the worker that has the name it asks for, and by
\* another program only while that worker is not up, which ends the process.
AnsweredByNamed ==
  \A q \in Requests :
    /\ \A i \in Workers : outcome[q] = By(i) => ServerId(i) = asked[q]
    /\ outcome[q] = Stranger =>
         asked[q] \in ServerIds /\ worker[WorkerNamed(asked[q])] \in {"new", "stopped"}

\* No name is another one with a number after it.
NamesApart ==
  \A i, j \in Workers : \A n \in 1 .. Len(fleet) : fleet[i].base # Numbered(fleet[j].base, n)

\* Every worker has a port and, unless two names fall together, a name under
\* which the router finds it.
WorkersReachable ==
  NamesApart => \A i \in Workers : Route(ServerId(i)) = Port(i)

\* What was accepted goes on serving: the process ends only for a port that
\* another program holds or that is the last there is, for a listener that
\* fails, or for a server that is a binary.
ServesOn ==
  accepted /\ main \in {"ended", "crashed"}
  => \/ \E i \in Workers : \/ Port(i) \in taken \/ Port(i) = MaxPort
                          \/ fleet[i].kind = "binary" \/ worker[i] = "broken"
     \/ \E n \in DOMAIN errCh : errCh[n] = 0

\* What goes on running is the whole fleet: at any time the dashboard and every
\* worker are up, or will be, or the process will end.  No worker that could not
\* start, or that stopped, is missing for ever while the others serve.
Whole == Dashboard \in listening /\ \A i \in Workers : worker[i] = "serving"
WholeOrEnded == main = "serving" ~> Whole \/ main # "serving"

\* Every request that the dashboard has received in full, or that names no
\* server, is answered, by a worker or with an error, or cut off by the end of
\* the process.
RequestsDecided ==
  \A q \in Requests :
    pc[q] = "read" \/ (pc[q] = "router" /\ ~Known(asked[q])) ~> outcome[q] # Undecided

\* "Path to the MCP server binary or HTTP URL. Repeat for multiple servers"
\* (cmd/proxy.go): several binaries are served as well as several URLs.
BinariesServed == main # "crashed"
=============================================================================
