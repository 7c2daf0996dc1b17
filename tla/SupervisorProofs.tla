-------------------------- MODULE SupervisorProofs ---------------------------
(***************************************************************************)
(* Proofs about Supervisor, for any servers, ports and requests.           *)
(***************************************************************************)
EXTENDS Supervisor, FiniteSetTheorems, WellFoundedInduction, TLAPS

USE SupervisorAssumption

\* What the command line is: two servers or more, on ports one after the other.
CommandLine == fleet \in Fleets /\ basePort \in BasePorts

LEMMA FleetFacts ==
  ASSUME CommandLine
  PROVE  /\ Len(fleet) \in Nat /\ Len(fleet) > 1 /\ Workers = 1 .. Len(fleet)
         /\ \A i \in Workers : fleet[i] \in Servers
         /\ basePort \in Nat /\ Dashboard \in Nat /\ MaxPort \in Nat
         /\ \A i \in Workers : Port(i) \in Nat
         /\ \A i, j \in Workers : Port(i) = Port(j) => i = j
<1>1. fleet \in Seq(Servers) /\ Len(fleet) > 1 /\ basePort \in Nat /\ Dashboard \in Nat
      /\ MaxPort \in Nat
  BY DEF CommandLine
<1>2. Len(fleet) \in Nat /\ Workers = 1 .. Len(fleet) /\ \A i \in Workers : fleet[i] \in Servers
  BY <1>1 DEF Workers
<1> QED  BY <1>1, <1>2 DEF Port

-----------------------------------------------------------------------------
(* Names.                                                                  *)

\* The servers of the same name before i.
Before(i) == {j \in 1 .. i - 1 : fleet[j].base = fleet[i].base}

LEMMA BeforeFacts ==
  ASSUME CommandLine, NEW i \in Workers
  PROVE  /\ IsFiniteSet(Before(i)) /\ Cardinality(Before(i)) \in 0 .. i - 1
         /\ Cardinality(Before(i)) = 0 <=> Before(i) = {}
         /\ ServerId(i) = IF Cardinality(Before(i)) = 0 THEN fleet[i].base
                          ELSE Numbered(fleet[i].base, Cardinality(Before(i)) + 1)
<1>1. i \in Nat \ {0}
  BY FleetFacts
<1>2. IsFiniteSet(1 .. i - 1) /\ Cardinality(1 .. i - 1) = i - 1
  BY <1>1, FS_Interval
<1>3. IsFiniteSet(Before(i)) /\ Cardinality(Before(i)) <= i - 1
  BY <1>2, FS_Subset DEF Before
<1>4. Cardinality(Before(i)) \in Nat
  BY <1>3, FS_CardinalityType
<1>5. Cardinality(Before(i)) = 0 <=> Before(i) = {}
  BY <1>3, FS_EmptySet
<1> QED  BY <1>1, <1>3, <1>4, <1>5 DEF ServerId, Before

\* A number is told from another, from none, and from the name it is added to.
LEMMA NumberedFacts ==
  ASSUME NEW a \in [word : STRING, numbers : Seq(Nat)],
         NEW b \in [word : STRING, numbers : Seq(Nat)], NEW m \in Nat, NEW n \in Nat
  PROVE  /\ Numbered(a, m) # a
         /\ Numbered(a, m) = Numbered(b, n) => a = b /\ m = n
<1>1. a.numbers \in Seq(Nat) /\ b.numbers \in Seq(Nat)
  OBVIOUS
<1>2. /\ Numbered(a, m).word = a.word /\ Numbered(a, m).numbers = Append(a.numbers, m)
      /\ Numbered(b, n).word = b.word /\ Numbered(b, n).numbers = Append(b.numbers, n)
  BY DEF Numbered
<1>3. Append(a.numbers, m) # a.numbers
  <2>1. Len(Append(a.numbers, m)) = Len(a.numbers) + 1 /\ Len(a.numbers) \in Nat
    BY <1>1
  <2> QED  BY <2>1
<1>4. ASSUME Append(a.numbers, m) = Append(b.numbers, n)
      PROVE  a.numbers = b.numbers /\ m = n
  <2>1. \A q \in Seq(Nat) : \A k \in Nat :
          /\ Len(q) \in Nat /\ Len(Append(q, k)) = Len(q) + 1 /\ Append(q, k)[Len(q) + 1] = k
          /\ \A i \in 1 .. Len(q) : Append(q, k)[i] = q[i]
    OBVIOUS
  <2>2. Len(a.numbers) = Len(b.numbers) /\ m = n
    BY <1>1, <1>4, <2>1
  <2>3. \A i \in 1 .. Len(a.numbers) : a.numbers[i] = b.numbers[i]
    <3> TAKE i \in 1 .. Len(a.numbers)
    <3>1. Append(a.numbers, m)[i] = a.numbers[i]
      BY <1>1, <2>1
    <3>2. Append(b.numbers, n)[i] = b.numbers[i]
      BY <1>1, <2>1, <2>2
    <3> QED  BY <1>4, <3>1, <3>2
  <2> QED  BY <1>1, <2>2, <2>3
<1>5. Numbered(a, m) # a
  BY <1>2, <1>3
<1>6. ASSUME Numbered(a, m) = Numbered(b, n) PROVE a = b /\ m = n
  <2>1. a.word = b.word /\ a.numbers = b.numbers /\ m = n
    BY <1>2, <1>4, <1>6
  <2> QED  BY <2>1
<1> QED  BY <1>5, <1>6

\* uniqueServerID does what it is called for, unless names fall together.
LEMMA NamesUnique ==
  ASSUME CommandLine, NamesApart, NEW i \in Workers, NEW j \in Workers, i < j
  PROVE  ServerId(i) # ServerId(j)
<1> DEFINE a == fleet[i].base
           b == fleet[j].base
           m == Cardinality(Before(i))
           n == Cardinality(Before(j))
<1>1. /\ a \in [word : STRING, numbers : Seq(Nat)] /\ b \in [word : STRING, numbers : Seq(Nat)]
      /\ Len(fleet) \in Nat /\ i \in 1 .. Len(fleet) /\ j \in 1 .. Len(fleet)
  BY FleetFacts DEF Servers
<1>2. /\ m \in 0 .. i - 1 /\ n \in 0 .. j - 1
      /\ ServerId(i) = IF m = 0 THEN a ELSE Numbered(a, m + 1)
      /\ ServerId(j) = IF n = 0 THEN b ELSE Numbered(b, n + 1)
  BY BeforeFacts
<1>3. CASE a = b
  <2>1. Before(i) \subseteq Before(j) /\ i \in Before(j) /\ i \notin Before(i)
    BY <1>1, <1>3 DEF Before
  <2>2. m < n
    BY <2>1, FS_Subset, BeforeFacts
  <2> HIDE DEF a, b, m, n
  <2> QED  BY <1>1, <1>2, <1>3, <2>2, NumberedFacts
<1>4. CASE a # b
  <2>1. \A k \in 1 .. Len(fleet) : a # Numbered(b, k) /\ b # Numbered(a, k)
    BY DEF NamesApart
  <2> HIDE DEF a, b, m, n
  <2>2. m + 1 \in 1 .. Len(fleet) /\ n + 1 \in 1 .. Len(fleet)
    BY <1>1, <1>2
  <2>3. Numbered(a, m + 1) # Numbered(b, n + 1)
    BY <1>1, <1>4, <2>2, NumberedFacts
  <2> QED  BY <1>2, <1>4, <2>1, <2>2, <2>3
<1> QED  BY <1>3, <1>4

\* The first two names always differ, so no name is ever alone.
LEMMA NameNotAlone ==
  ASSUME CommandLine
  PROVE  Cardinality(ServerIds) # 1
<1>1. 1 \in Workers /\ 2 \in Workers /\ Workers = 1 .. Len(fleet) /\ Len(fleet) \in Nat
  BY FleetFacts
<1>2. ServerId(1) = fleet[1].base
  <2>1. Before(1) = {}
    BY DEF Before
  <2> QED  BY <1>1, <2>1, BeforeFacts
<1>3. ServerId(2) # fleet[1].base
  <2> DEFINE n == Cardinality(Before(2))
  <2>1. /\ n \in Nat /\ (n = 0 <=> Before(2) = {})
        /\ ServerId(2) = IF n = 0 THEN fleet[2].base ELSE Numbered(fleet[2].base, n + 1)
    BY <1>1, BeforeFacts
  <2>2. fleet[2].base \in [word : STRING, numbers : Seq(Nat)]
    BY <1>1, FleetFacts DEF Servers
  <2>3. CASE fleet[1].base = fleet[2].base
    <3>1. 1 \in Before(2)
      BY <2>3 DEF Before
    <3>2. n # 0 /\ n + 1 \in Nat
      BY <2>1, <3>1
    <3> HIDE DEF n
    <3> QED  BY <2>1, <2>2, <2>3, <3>2, NumberedFacts
  <2>4. CASE fleet[1].base # fleet[2].base
    <3>1. Before(2) = {}
      BY <2>4 DEF Before
    <3> QED  BY <2>1, <2>4, <3>1
  <2> QED  BY <2>3, <2>4
<1>4. IsFiniteSet(ServerIds)
  <2> DEFINE f == [i \in Workers |-> ServerId(i)]
  <2>1. IsFiniteSet(Workers)
    BY <1>1, FS_Interval
  <2>2. f \in Surjection(Workers, ServerIds)
    BY DEF Surjection, ServerIds
  <2> QED  BY <2>1, <2>2, FS_Surjection DEF ExistsSurjection
<1>5. ServerId(1) \in ServerIds /\ ServerId(2) \in ServerIds
  BY <1>1 DEF ServerIds
<1> QED  BY <1>2, <1>3, <1>4, <1>5, FS_Singleton

\* Of the workers with one name there is a last one, the one the map keeps.
LEMMA WorkerNamedFacts ==
  ASSUME CommandLine, NEW name \in ServerIds
  PROVE  WorkerNamed(name) \in Workers /\ ServerId(WorkerNamed(name)) = name
<1> DEFINE n == Len(fleet)
           After == {k \in Nat : k < n /\ ServerId(n - k) = name}
<1>1. n \in Nat /\ Workers = 1 .. n
  BY FleetFacts
<1>2. PICK i \in Workers : ServerId(i) = name
  BY DEF ServerIds
<1>3. n - i \in After
  <2>1. n - i \in Nat /\ n - i < n /\ n - (n - i) = i
    BY <1>1
  <2> QED  BY <1>2, <2>1
<1>4. PICK k \in After : \A l \in After : ~(<<l, k>> \in OpToRel(<, Nat))
  <2>1. After \subseteq Nat /\ After # {}
    BY <1>3
  <2> HIDE DEF After
  <2> QED  BY <2>1, NatLessThanWellFounded, WFMin
<1>5. n - k \in Workers /\ ServerId(n - k) = name /\ k \in Nat
  <2>1. k \in Nat /\ k < n /\ ServerId(n - k) = name
    BY <1>4
  <2>2. n - k \in 1 .. n
    BY <1>1, <2>1
  <2> QED  BY <1>1, <2>1, <2>2
<1>6. ASSUME NEW j \in Workers, j > n - k PROVE ServerId(j) # name
  <2>1. SUFFICES ASSUME ServerId(j) = name PROVE FALSE
    OBVIOUS
  <2>2. n - j \in Nat /\ n - j < n /\ n - (n - j) = j /\ n - j < k
    BY <1>1, <1>5, <1>6
  <2>3. n - j \in After
    BY <2>1, <2>2
  <2>4. <<n - j, k>> \in OpToRel(<, Nat)
    BY <1>5, <2>2 DEF OpToRel
  <2> QED  BY <1>4, <2>3, <2>4
<1> QED  BY <1>5, <1>6 DEF WorkerNamed

\* Every worker is found under its name, unless names fall together.
THEOREM ReachableCorrect == Spec => []WorkersReachable
<1>1. ASSUME CommandLine, NamesApart, NEW i \in Workers PROVE Route(ServerId(i)) = Port(i)
  <2>1. ServerId(i) \in ServerIds
    BY DEF ServerIds
  <2>2. WorkerNamed(ServerId(i)) \in Workers /\ ServerId(WorkerNamed(ServerId(i))) = ServerId(i)
    BY <1>1, <2>1, WorkerNamedFacts
  <2>3. WorkerNamed(ServerId(i)) = i
    <3>1. \A j, k \in Workers : j = k \/ j < k \/ k < j
      BY <1>1, FleetFacts
    <3> QED  BY <1>1, <2>2, <3>1, NamesUnique
  <2> QED  BY <2>1, <2>3 DEF Route
<1>2. CommandLine => WorkersReachable
  BY <1>1 DEF WorkersReachable
<1>3. Init => CommandLine
  BY DEF Init, CommandLine
<1>4. CommandLine /\ [Next]_vars => CommandLine'
  BY DEF CommandLine, Next, Start, Finish, DashboardFails, StepOfWorker, UpstreamPortInvalid,
         Listen, ListenFails, SpawnFails, ForwardFromNil, ServeFails, Return, Accept, BodyArrives,
         BodyFails, Router, UnknownServer, Forward, Refused, WorkerAnswers, StrangerAnswers, Timeout, ClientGone,
         Answer, vars, config
<1> QED  BY <1>2, <1>3, <1>4, PTL DEF Spec

-----------------------------------------------------------------------------
(* Types.                                                                  *)

\* What no step changes.
LEMMA SameCommand ==
  ASSUME [Next]_vars
  PROVE  UNCHANGED <<fleet, basePort, taken, asked>>
BY DEF Next, Start, Finish, DashboardFails, StepOfWorker, UpstreamPortInvalid, Listen,
       ListenFails, SpawnFails, ForwardFromNil, ServeFails, Return, Accept, BodyArrives,
       BodyFails, Router, UnknownServer, Forward, Refused, WorkerAnswers, StrangerAnswers, Timeout, ClientGone,
       Answer, vars, config, requests

LEMMA SameNames ==
  ASSUME UNCHANGED <<fleet, basePort>>
  PROVE  /\ Workers' = Workers /\ ServerIds' = ServerIds /\ Accepted' = Accepted
         /\ \A i : Port(i)' = Port(i) /\ ServerId(i)' = ServerId(i)
         /\ \A name : WorkerNamed(name)' = WorkerNamed(name)
BY DEF Workers, ServerIds, Accepted, PortsValid, Port, ServerId, WorkerNamed

\* The kinds of step: main, one worker, the dashboard, and one request.
EndStep ==
  /\ main = "serving"
  /\ \/ errCh # <<>> /\ End("ended")
     \/ (\E i \in Workers : worker[i] = "bound") /\ End("crashed")
  /\ UNCHANGED <<accepted, worker, errCh, sentTo>>

Returned == {"stopped", "broken"}
ReturnStep == \E i \in Workers : \E from \in {"new", "bound", "serving"} : \E to \in Returned :
                Return(i, from, to)

AnswerStep == \E q \in Requests : \E from \in {"router", "read", "sent"} :
                \E what \in Outcomes : Answer(q, from, what)

LEMMA StepKinds ==
  ASSUME [Next]_vars
  PROVE  \/ Start \/ EndStep \/ ReturnStep \/ DashboardFails \/ AnswerStep
         \/ \E i \in Workers : Listen(i)
         \/ \E q \in Requests : Accept(q) \/ BodyArrives(q) \/ Forward(q)
         \/ UNCHANGED vars
<1>1. ASSUME NEW i \in Workers, StepOfWorker(i) \/ ServeFails(i)
      PROVE  Listen(i) \/ EndStep \/ ReturnStep
  BY <1>1 DEF StepOfWorker, UpstreamPortInvalid, ListenFails, SpawnFails, ForwardFromNil,
              ServeFails, EndStep, ReturnStep, Returned, config
<1>2. ASSUME NEW q \in Requests,
             \/ UnknownServer(q) \/ Refused(q) \/ WorkerAnswers(q) \/ StrangerAnswers(q)
             \/ Timeout(q) \/ ClientGone(q) \/ BodyFails(q)
      PROVE  AnswerStep
  <2>1. /\ Status(400) \in Outcomes /\ Status(405) \in Outcomes /\ Status(502) \in Outcomes
        /\ Stranger \in Outcomes /\ Lost \in Outcomes /\ \A i \in Workers : By(i) \in Outcomes
    BY DEF Outcomes
  <2> QED  BY <1>2, <2>1
           DEF UnknownServer, Refused, WorkerAnswers, StrangerAnswers, Timeout, ClientGone,
               BodyFails, AnswerStep
<1>3. Finish => EndStep
  BY DEF Finish, EndStep, config
<1> QED  BY <1>1, <1>2, <1>3 DEF Next, Router

\* A request is sent to the worker that has the name it asks for.
LEMMA RouteFacts ==
  ASSUME CommandLine, NEW name, Known(name)
  PROVE  /\ name \in ServerIds /\ WorkerNamed(name) \in Workers
         /\ ServerId(WorkerNamed(name)) = name
         /\ Route(name) = Port(WorkerNamed(name))
BY NameNotAlone, WorkerNamedFacts DEF Known, Route

\* What serves was accepted.
Configured == /\ main \in {"serving", "crashed"} => accepted
              /\ main = "starting" => ~accepted
              /\ accepted => Accepted

LEMMA ConfiguredStep ==
  ASSUME Configured, [Next]_vars
  PROVE  Configured'
<1>1. Accepted' = Accepted
  BY SameCommand, SameNames
<1>2. CASE Start
  BY <1>1, <1>2 DEF Start, Configured
<1>3. CASE EndStep
  <2>1. main = "serving" /\ accepted' = accepted /\ main' # "starting"
    BY <1>3 DEF EndStep, End
  <2> QED  BY <1>1, <2>1 DEF Configured
<1>4. CASE UNCHANGED <<main, accepted>>
  BY <1>1, <1>4 DEF Configured
<1>5. Start \/ EndStep \/ UNCHANGED <<main, accepted>>
  BY StepKinds DEF ReturnStep, Return, DashboardFails, AnswerStep, Answer, Listen, Accept, BodyArrives,
                   Forward, vars, config, process
<1> QED  BY <1>2, <1>3, <1>4, <1>5

LEMMA TypeStep ==
  ASSUME TypeOK, Configured, [Next]_vars
  PROVE  TypeOK'
<1> DEFINE Mains == {"starting", "serving", "ended", "crashed"}
           Places == {"new", "bound", "serving", "stopped", "broken"}
           States == {"new", "router", "read", "sent", "done"}
<1>1. UNCHANGED <<fleet, basePort, taken, asked>>
  BY SameCommand
<1>2. /\ Workers' = Workers /\ \A i : Port(i)' = Port(i)
      /\ CommandLine /\ Workers = DOMAIN fleet
  BY <1>1, SameNames DEF TypeOK, CommandLine, Workers
<1> DEFINE Goal ==
             /\ main' \in Mains /\ accepted' \in BOOLEAN
             /\ listening' \subseteq 1 .. MaxPort
             /\ worker' \in [DOMAIN fleet -> Places]
             /\ errCh' \in Seq({0} \cup DOMAIN fleet)
             /\ pc' \in [Requests -> States]
             /\ sentTo' \in [Requests -> 0 .. MaxPort] /\ outcome' \in [Requests -> Outcomes]
<1>3. SUFFICES Goal
  <2>1. Outcomes' = Outcomes
    BY <1>2 DEF Outcomes
  <2> QED  BY <1>1, <1>2, <2>1 DEF TypeOK
<1>4. Lost \in Outcomes
  BY DEF Outcomes
<1>5. CASE Start
  BY <1>5 DEF Start, TypeOK, requests
<1>6. CASE EndStep
  <2>1. outcome' \in [Requests -> Outcomes]
    BY <1>4, <1>6 DEF EndStep, End, TypeOK
  <2>2. pc' \in [Requests -> States]
    BY <1>6 DEF EndStep, End, TypeOK
  <2>3. main' \in Mains /\ listening' = {}
    BY <1>6 DEF EndStep, End
  <2> QED  BY <1>6, <2>1, <2>2, <2>3 DEF EndStep, End, TypeOK
<1>7. CASE ReturnStep
  <2>1. PICK i \in Workers, from \in {"new", "bound", "serving"}, to \in Returned :
          Return(i, from, to)
    BY <1>7 DEF ReturnStep
  <2>2. errCh' \in Seq({0} \cup DOMAIN fleet)
    BY <1>2, <2>1 DEF Return, TypeOK
  <2>3. worker' \in [DOMAIN fleet -> Places]
    BY <2>1 DEF Return, Goto, TypeOK, Returned
  <2> QED  BY <2>1, <2>2, <2>3 DEF Return, TypeOK, config, requests
<1>8. CASE DashboardFails
  <2>1. errCh' \in Seq({0} \cup DOMAIN fleet)
    BY <1>8 DEF DashboardFails, TypeOK
  <2> QED  BY <1>8, <2>1 DEF DashboardFails, TypeOK, config, requests
<1>9. CASE AnswerStep
  BY <1>9 DEF AnswerStep, Answer, TypeOK, config, process
<1>10. ASSUME NEW i \in Workers, Listen(i) PROVE Goal
  <2>1. worker' \in [DOMAIN fleet -> Places]
    BY <1>10 DEF Listen, Goto, TypeOK
  <2>2. Port(i) \in 1 .. MaxPort
    BY <1>10 DEF Listen, Goto, Configured, Accepted, PortsValid
  <2> QED  BY <1>10, <2>1, <2>2 DEF Listen, TypeOK, config, requests
<1>11. ASSUME NEW q \in Requests, Accept(q) \/ BodyArrives(q) PROVE Goal
  BY <1>11 DEF Accept, BodyArrives, TypeOK, config, process
<1>12. ASSUME NEW q \in Requests, Forward(q) PROVE Goal
  <2>1. Route(asked[q]) \in 1 .. MaxPort
    <3>1. Route(asked[q]) \in {Port(i) : i \in Workers}
      BY <1>2, <1>12, RouteFacts DEF Forward
    <3> QED  BY <1>12, <3>1 DEF Forward, Configured, Accepted, PortsValid
  <2>2. sentTo' \in [Requests -> 0 .. MaxPort]
    <3>1. Route(asked[q]) \in 0 .. MaxPort
      BY <2>1
    <3> QED  BY <1>12, <3>1 DEF Forward, TypeOK
  <2> QED  BY <1>12, <2>2 DEF Forward, TypeOK, config, process
<1>13. CASE UNCHANGED vars
  BY <1>13 DEF vars, TypeOK, config, process, requests
<1> HIDE DEF Goal
<1> QED  BY <1>3, <1>5, <1>6, <1>7, <1>8, <1>9, <1>10, <1>11, <1>12, <1>13, StepKinds

LEMMA TypeInit == Init => TypeOK /\ Configured
<1> SUFFICES ASSUME Init PROVE TypeOK /\ Configured
  OBVIOUS
<1>1. errCh \in Seq({0} \cup DOMAIN fleet)
  BY DEF Init
<1>2. /\ fleet \in Fleets /\ basePort \in BasePorts /\ taken \subseteq Takeable
      /\ main = "starting" /\ accepted = FALSE /\ listening = {}
      /\ worker \in [DOMAIN fleet -> {"new"}] /\ asked \in [Requests -> Names]
      /\ pc \in [Requests -> {"new"}] /\ sentTo \in [Requests -> {0}]
      /\ outcome \in [Requests -> {Undecided}]
  BY DEF Init
<1>3. /\ worker \in [DOMAIN fleet -> {"new", "bound", "serving", "stopped", "broken"}]
      /\ pc \in [Requests -> {"new", "router", "read", "sent", "done"}]
      /\ sentTo \in [Requests -> 0 .. MaxPort] /\ outcome \in [Requests -> Outcomes]
  BY <1>2 DEF Outcomes
<1> QED  BY <1>1, <1>2, <1>3 DEF TypeOK, Configured

\* Every variable keeps its type: what is listened on are ports, what was
\* returned are workers, and requests are sent to a worker's port.
THEOREM TypeCorrect == Spec => []TypeOK
BY TypeInit, TypeStep, ConfiguredStep, PTL DEF Spec

-----------------------------------------------------------------------------
(* The end of the process.                                                 *)

\* Why a worker is where it is, and what it has left in errCh.
WorkersOK ==
  /\ \A i \in Workers :
       /\ worker[i] \in {"bound", "serving", "broken"} => Port(i) \notin taken
       /\ worker[i] = "bound" => fleet[i].kind = "binary"
       /\ worker[i] = "stopped" =>
            Port(i) \in taken \/ Port(i) = MaxPort \/ fleet[i].kind = "binary"
  /\ \A p \in listening :
       p = Dashboard \/ \E i \in Workers : p = Port(i) /\ worker[i] \in {"bound", "serving"}
  /\ \A n \in DOMAIN errCh : errCh[n] = 0 \/ worker[errCh[n]] \in Returned
  /\ main = "ended" /\ accepted => errCh # <<>>
  /\ main = "crashed" => \E i \in Workers : fleet[i].kind = "binary"

LEMMA ReturnWhy ==
  ASSUME TypeOK, Configured, WorkersOK, [Next]_vars,
         NEW i \in Workers, NEW from \in {"new", "bound", "serving"}, NEW to \in Returned,
         \/ UpstreamPortInvalid(i) \/ ListenFails(i) \/ SpawnFails(i) \/ ServeFails(i),
         worker'[i] = "stopped", worker[i] # "stopped"
  PROVE  Port(i) \in taken \/ Port(i) = MaxPort \/ fleet[i].kind = "binary"
<1>1. CommandLine /\ main = "serving" /\ Accepted
  BY DEF TypeOK, CommandLine, UpstreamPortInvalid, ListenFails, SpawnFails, ServeFails, Return,
         Goto, Configured
<1>2. Port(i) \in 1 .. MaxPort /\ Port(i) # Dashboard /\ Port(i) \in Nat /\ MaxPort \in Nat
  BY <1>1, FleetFacts DEF Accepted, PortsValid
<1>3. CASE UpstreamPortInvalid(i)
  BY <1>2, <1>3 DEF UpstreamPortInvalid
<1>4. CASE ListenFails(i)
  <2>1. worker[i] = "new" /\ (Port(i) \in taken \/ Port(i) \in listening)
    BY <1>4 DEF ListenFails, Free, Return, Goto
  <2>2. Port(i) \notin listening
    BY <1>1, <1>2, <2>1, FleetFacts DEF WorkersOK
  <2> QED  BY <2>1, <2>2
<1>5. CASE SpawnFails(i)
  BY <1>5 DEF SpawnFails, Return, Goto, WorkersOK
<1>6. CASE ServeFails(i)
  BY <1>6 DEF ServeFails, Return, Goto, TypeOK, Workers
<1> QED  BY <1>3, <1>4, <1>5, <1>6

\* The ways a worker returns.
Returning(i) == UpstreamPortInvalid(i) \/ ListenFails(i) \/ SpawnFails(i) \/ ServeFails(i)

LEMMA ReturnWorkers ==
  ASSUME TypeOK, Configured, WorkersOK, [Next]_vars, NEW i \in Workers, Returning(i)
  PROVE  WorkersOK'
<1>1. PICK from \in {"new", "bound", "serving"}, to \in Returned : Return(i, from, to)
  BY DEF Returning, UpstreamPortInvalid, ListenFails, SpawnFails, ServeFails, Returned
<1>2. UNCHANGED <<fleet, basePort, taken, accepted, main>>
  BY <1>1 DEF Return, config
<1>3. /\ Workers' = Workers /\ \A j : Port(j)' = Port(j)
      /\ CommandLine /\ Workers = DOMAIN fleet
  BY <1>2, SameNames DEF TypeOK, CommandLine, Workers
<1>4. /\ main = "serving" /\ worker[i] = from /\ worker'[i] = to /\ from # "stopped"
      /\ \A j \in Workers : j # i => worker'[j] = worker[j]
      /\ listening' = listening \ {Port(i)} /\ errCh' = Append(errCh, i)
  BY <1>1, <1>3 DEF Return, Goto, TypeOK
<1>5. ASSUME NEW j \in Workers
      PROVE  /\ worker'[j] \in {"bound", "serving", "broken"} => Port(j) \notin taken
             /\ worker'[j] = "bound" => fleet[j].kind = "binary"
             /\ worker'[j] = "stopped" =>
                  Port(j) \in taken \/ Port(j) = MaxPort \/ fleet[j].kind = "binary"
  <2>1. CASE j = i
    <3>1. worker'[j] = "broken" => worker[j] = "serving"
      BY <1>4, <2>1 DEF Returning, UpstreamPortInvalid, ListenFails, SpawnFails, ServeFails,
                        Return, Goto, TypeOK, Workers
    <3>2. worker'[j] = "stopped" =>
            Port(j) \in taken \/ Port(j) = MaxPort \/ fleet[j].kind = "binary"
      BY <1>1, <1>4, <2>1, ReturnWhy DEF Returning
    <3> QED  BY <1>4, <2>1, <3>1, <3>2 DEF WorkersOK, Returned
  <2>2. CASE j # i
    BY <1>4, <2>2 DEF WorkersOK
  <2> QED  BY <2>1, <2>2
<1>6. ASSUME NEW p \in listening'
      PROVE  p = Dashboard \/ \E j \in Workers : p = Port(j) /\ worker'[j] \in {"bound", "serving"}
  BY <1>4 DEF WorkersOK
<1>7. ASSUME NEW n \in DOMAIN errCh' PROVE errCh'[n] = 0 \/ worker'[errCh'[n]] \in Returned
  <2>1. errCh \in Seq({0} \cup Workers)
    BY <1>3 DEF TypeOK
  <2>2. (n \in DOMAIN errCh /\ errCh'[n] = errCh[n]) \/ errCh'[n] = i
    BY <1>4, <2>1
  <2>3. CASE n \in DOMAIN errCh /\ errCh'[n] = errCh[n]
    <3>1. errCh[n] \in {0} \cup Workers /\ (errCh[n] = 0 \/ worker[errCh[n]] \in Returned)
      BY <2>1, <2>3 DEF WorkersOK
    <3> QED  BY <1>4, <2>3, <3>1
  <2> QED  BY <1>4, <2>2, <2>3
<1> QED  BY <1>2, <1>3, <1>4, <1>5, <1>6, <1>7 DEF WorkersOK

LEMMA WorkersStep ==
  ASSUME TypeOK, Configured, WorkersOK, [Next]_vars
  PROVE  WorkersOK'
<1>1. /\ fleet' = fleet /\ taken' = taken /\ Workers' = Workers
      /\ \A j : Port(j)' = Port(j)
      /\ CommandLine /\ Workers = DOMAIN fleet
  BY SameCommand, SameNames DEF TypeOK, CommandLine, Workers
<1>2. CASE Start
  <2>1. /\ worker' = worker /\ errCh' = errCh /\ main' \in {"serving", "ended"}
        /\ main' = "ended" => accepted' = accepted /\ ~accepted /\ main = "starting" /\ listening' = listening
        /\ main' = "serving" => listening' = {Dashboard}
    BY <1>2 DEF Start, Configured
  <2> QED  BY <1>1, <2>1, <1>2 DEF WorkersOK, Start
<1>3. CASE EndStep
  BY <1>1, <1>3 DEF EndStep, End, WorkersOK
<1>4. ASSUME NEW i \in Workers, Returning(i) PROVE WorkersOK'
  BY <1>4, ReturnWorkers
<1>5. ASSUME NEW i \in Workers, Listen(i) PROVE WorkersOK'
  <2>1. /\ main = "serving" /\ worker[i] = "new" /\ Port(i) \notin taken
        /\ worker'[i] = IF fleet[i].kind = "url" THEN "serving" ELSE "bound"
        /\ \A j \in Workers : j # i => worker'[j] = worker[j]
        /\ listening' = listening \cup {Port(i)} /\ errCh' = errCh
        /\ main' = main /\ accepted' = accepted
    BY <1>1, <1>5 DEF Listen, Goto, Free, TypeOK, config
  <2>2. fleet[i].kind \in {"url", "binary"}
    BY <1>1, <2>1, FleetFacts DEF Configured, Accepted, Servers
  <2>3. ASSUME NEW j \in Workers
        PROVE  /\ worker'[j] \in {"bound", "serving", "broken"} => Port(j) \notin taken
               /\ worker'[j] = "bound" => fleet[j].kind = "binary"
               /\ worker'[j] = "stopped" =>
                    Port(j) \in taken \/ Port(j) = MaxPort \/ fleet[j].kind = "binary"
    BY <2>1, <2>2 DEF WorkersOK
  <2>4. ASSUME NEW n \in DOMAIN errCh PROVE errCh[n] = 0 \/ worker'[errCh[n]] \in Returned
    <3>1. errCh[n] \in {0} \cup Workers
      BY <1>1 DEF TypeOK
    <3> QED  BY <2>1, <3>1 DEF WorkersOK, Returned
  <2>5. ASSUME NEW p \in listening'
        PROVE  p = Dashboard
               \/ \E j \in Workers : p = Port(j) /\ worker'[j] \in {"bound", "serving"}
    <3>1. CASE p = Port(i)
      BY <2>1, <3>1
    <3>2. CASE p # Port(i)
      <4>1. p = Dashboard \/ \E j \in Workers : p = Port(j) /\ worker[j] \in {"bound", "serving"}
        BY <2>1, <3>2 DEF WorkersOK
      <4> QED  BY <2>1, <3>2, <4>1
    <3> QED  BY <3>1, <3>2
  <2> QED  BY <1>1, <2>1, <2>3, <2>4, <2>5 DEF WorkersOK
<1>6. CASE DashboardFails
  <2>1. /\ UNCHANGED <<accepted, main, worker>> /\ errCh' = Append(errCh, 0) /\ main = "serving"
        /\ listening' \subseteq listening
    BY <1>6 DEF DashboardFails, config
  <2>2. ASSUME NEW n \in DOMAIN errCh' PROVE errCh'[n] = 0 \/ worker[errCh'[n]] \in Returned
    <3>1. errCh \in Seq({0} \cup Workers)
      BY <1>1 DEF TypeOK
    <3>2. (n \in DOMAIN errCh /\ errCh'[n] = errCh[n]) \/ errCh'[n] = 0
      BY <2>1, <3>1
    <3> QED  BY <3>2 DEF WorkersOK
  <2> QED  BY <1>1, <2>1, <2>2 DEF WorkersOK
<1>7. CASE UNCHANGED <<accepted, main, worker, errCh, listening>>
  BY <1>1, <1>7 DEF WorkersOK
<1>8. \/ Start \/ EndStep \/ DashboardFails
      \/ \E i \in Workers : Returning(i) \/ Listen(i)
      \/ UNCHANGED <<accepted, main, worker, errCh, listening>>
  <2>1. Finish \/ (\E i \in Workers : ForwardFromNil(i)) => EndStep
    BY DEF Finish, ForwardFromNil, EndStep, config
  <2> QED
    BY <2>1
       DEF Next, StepOfWorker, Returning, Accept, BodyArrives, BodyFails, Router, UnknownServer,
           Forward, Refused,
           WorkerAnswers, StrangerAnswers, Timeout, ClientGone, Answer, vars, config, process
<1> QED  BY <1>2, <1>3, <1>4, <1>5, <1>6, <1>7, <1>8

\* Whatever fails and in whatever order workers come up: the process ends for a
\* port, a binary, or a listener, and for nothing a URL server does.
THEOREM ServesOnCorrect == Spec => []ServesOn
<1>1. Init => WorkersOK
  BY DEF Init, WorkersOK, Workers
<1>2. TypeOK /\ WorkersOK => ServesOn
  <2> SUFFICES ASSUME TypeOK, WorkersOK, accepted, main \in {"ended", "crashed"}
               PROVE  ServesOn
    BY DEF ServesOn
  <2>1. CASE main = "crashed"
    BY <2>1 DEF WorkersOK, ServesOn
  <2>2. CASE main = "ended"
    <3>1. 1 \in DOMAIN errCh /\ errCh[1] \in {0} \cup Workers
      BY <2>2 DEF WorkersOK, TypeOK, Workers
    <3>2. CASE errCh[1] = 0
      BY <3>1, <3>2 DEF ServesOn
    <3>3. CASE errCh[1] \in Workers
      BY <3>1, <3>2, <3>3 DEF ServesOn, WorkersOK, Returned
    <3> QED  BY <3>1, <3>2, <3>3
  <2> QED  BY <2>1, <2>2
<1> QED  BY <1>1, <1>2, TypeInit, TypeStep, ConfiguredStep, WorkersStep, PTL DEF Spec

-----------------------------------------------------------------------------
(* The router.                                                             *)

RoutesOK ==
  \A q \in Requests :
    /\ pc[q] = "sent" => asked[q] \in ServerIds /\ sentTo[q] = Port(WorkerNamed(asked[q]))
    /\ \A i \in Workers : outcome[q] = By(i) => ServerId(i) = asked[q]
    /\ outcome[q] = Stranger => asked[q] \in ServerIds /\ Port(WorkerNamed(asked[q])) \in taken

LEMMA RoutesStep ==
  ASSUME TypeOK, RoutesOK, [Next]_vars
  PROVE  RoutesOK'
<1>1. UNCHANGED <<fleet, basePort, taken, asked>>
  BY SameCommand
<1>2. /\ Workers' = Workers /\ ServerIds' = ServerIds /\ CommandLine
      /\ \A i : Port(i)' = Port(i) /\ ServerId(i)' = ServerId(i)
      /\ \A name : WorkerNamed(name)' = WorkerNamed(name)
  BY <1>1, SameNames DEF TypeOK, CommandLine
<1>3. ASSUME NEW r \in Requests,
             \A q \in Requests \ {r} : pc'[q] = pc[q] /\ sentTo'[q] = sentTo[q]
                                       /\ outcome'[q] = outcome[q],
             pc'[r] = "sent" => asked[r] \in ServerIds
                                /\ sentTo'[r] = Port(WorkerNamed(asked[r])),
             \A i \in Workers : outcome'[r] = By(i) => ServerId(i) = asked[r],
             outcome'[r] = Stranger => asked[r] \in ServerIds
                                       /\ Port(WorkerNamed(asked[r])) \in taken
      PROVE  RoutesOK'
  BY <1>1, <1>2, <1>3 DEF RoutesOK
<1>4. ASSUME NEW r \in Requests, NEW from, NEW what, Answer(r, from, what),
             \A i \in Workers : what = By(i) => ServerId(i) = asked[r],
             what = Stranger => asked[r] \in ServerIds /\ Port(WorkerNamed(asked[r])) \in taken
      PROVE  RoutesOK'
  <2>1. /\ pc'[r] = "done" /\ outcome'[r] = what
        /\ \A q \in Requests \ {r} : pc'[q] = pc[q] /\ sentTo'[q] = sentTo[q]
                                     /\ outcome'[q] = outcome[q]
    BY <1>4 DEF Answer, TypeOK
  <2> QED  BY <1>3, <1>4, <2>1
<1>5. ASSUME NEW r \in Requests,
             UnknownServer(r) \/ BodyFails(r) \/ Refused(r) \/ Timeout(r) \/ ClientGone(r)
      PROVE  RoutesOK'
  <2>1. ASSUME NEW code PROVE Status(code) # Stranger /\ \A i \in Workers : Status(code) # By(i)
    BY DEF Status, Stranger, By
  <2>2. Lost # Stranger /\ \A i \in Workers : Lost # By(i)
    BY DEF Lost, Stranger, By
  <2> QED  BY <1>4, <1>5, <2>1, <2>2 DEF UnknownServer, BodyFails, Refused, Timeout, ClientGone
<1>6. ASSUME NEW r \in Requests, WorkerAnswers(r) PROVE RoutesOK'
  <2>1. PICK i \in Workers :
          /\ Port(i) = sentTo[r]
          /\ Answer(r, "sent", IF worker[i] = "bound" THEN Status(405) ELSE By(i))
    BY <1>6 DEF WorkerAnswers
  <2>2. asked[r] \in ServerIds /\ sentTo[r] = Port(WorkerNamed(asked[r]))
    BY <2>1 DEF Answer, RoutesOK
  <2>3. i = WorkerNamed(asked[r]) /\ ServerId(i) = asked[r]
    BY <1>2, <2>1, <2>2, WorkerNamedFacts, FleetFacts
  <2>4. /\ Status(405) # Stranger /\ By(i) # Stranger
        /\ \A j \in Workers : Status(405) # By(j) /\ (By(i) = By(j) => i = j)
    BY DEF Status, Stranger, By
  <2> QED  BY <1>4, <2>1, <2>3, <2>4
<1>7. ASSUME NEW r \in Requests, StrangerAnswers(r) PROVE RoutesOK'
  <2>1. asked[r] \in ServerIds /\ Port(WorkerNamed(asked[r])) \in taken
    BY <1>7 DEF StrangerAnswers, Answer, RoutesOK
  <2>2. \A j \in Workers : Stranger # By(j)
    BY DEF Stranger, By
  <2> QED  BY <1>4, <1>7, <2>1, <2>2 DEF StrangerAnswers
<1>8. ASSUME NEW r \in Requests, Forward(r) PROVE RoutesOK'
  <2>1. /\ sentTo'[r] = Route(asked[r]) /\ Known(asked[r]) /\ outcome' = outcome
        /\ \A q \in Requests \ {r} : pc'[q] = pc[q] /\ sentTo'[q] = sentTo[q]
    BY <1>8 DEF Forward, TypeOK
  <2>2. asked[r] \in ServerIds /\ Route(asked[r]) = Port(WorkerNamed(asked[r]))
    BY <1>2, <2>1, RouteFacts
  <2> QED  BY <1>3, <2>1, <2>2 DEF RoutesOK
<1>9. ASSUME NEW r \in Requests, Accept(r) \/ BodyArrives(r) PROVE RoutesOK'
  <2>1. /\ pc'[r] # "sent" /\ outcome' = outcome /\ sentTo' = sentTo
        /\ \A q \in Requests \ {r} : pc'[q] = pc[q]
    BY <1>9 DEF Accept, BodyArrives, TypeOK
  <2> QED  BY <1>3, <2>1 DEF RoutesOK
<1>10. CASE EndStep
  <2>1. \A q \in Requests : /\ pc'[q] # "sent" /\ (outcome'[q] = outcome[q] \/ outcome'[q] = Lost)
    BY <1>10 DEF EndStep, End
  <2>2. Lost # Stranger /\ \A i \in Workers : Lost # By(i)
    BY DEF Lost, Stranger, By
  <2> QED  BY <1>1, <1>2, <2>1, <2>2 DEF RoutesOK
<1>11. CASE UNCHANGED <<pc, sentTo, outcome>>
  BY <1>1, <1>2, <1>11 DEF RoutesOK
<1>12. \/ EndStep \/ UNCHANGED <<pc, sentTo, outcome>>
       \/ \E r \in Requests : \/ UnknownServer(r) \/ BodyFails(r) \/ Refused(r) \/ Timeout(r)
                              \/ ClientGone(r) \/ WorkerAnswers(r) \/ StrangerAnswers(r)
                              \/ Forward(r) \/ Accept(r) \/ BodyArrives(r)
  <2>1. Finish \/ (\E i \in Workers : ForwardFromNil(i)) => EndStep
    BY DEF Finish, ForwardFromNil, EndStep, config
  <2> QED
    BY <2>1
       DEF Next, StepOfWorker, Start, DashboardFails, UpstreamPortInvalid, Listen, ListenFails,
           SpawnFails, ServeFails, Return, Router, vars, requests
<1> QED  BY <1>5, <1>6, <1>7, <1>8, <1>9, <1>10, <1>11, <1>12

\* Ports may be taken by others and names fall together: no worker answers under
\* a name that is not its own, and no stranger for a worker that is up.
THEOREM AnsweredCorrect == Spec => []AnsweredByNamed
<1>1. Init => WorkersOK /\ RoutesOK
  BY DEF Init, WorkersOK, RoutesOK, Workers, Undecided, Stranger, By
<1>2. TypeOK /\ WorkersOK /\ RoutesOK => AnsweredByNamed
  <2> SUFFICES ASSUME TypeOK, WorkersOK, RoutesOK, NEW q \in Requests
               PROVE  /\ \A i \in Workers : outcome[q] = By(i) => ServerId(i) = asked[q]
                      /\ outcome[q] = Stranger =>
                           /\ asked[q] \in ServerIds
                           /\ worker[WorkerNamed(asked[q])] \in {"new", "stopped"}
    BY DEF AnsweredByNamed
  <2>1. ASSUME outcome[q] = Stranger
        PROVE  asked[q] \in ServerIds /\ worker[WorkerNamed(asked[q])] \in {"new", "stopped"}
    <3>1. asked[q] \in ServerIds /\ Port(WorkerNamed(asked[q])) \in taken
      BY <2>1 DEF RoutesOK
    <3>2. WorkerNamed(asked[q]) \in Workers
      BY <3>1, WorkerNamedFacts DEF TypeOK, CommandLine
    <3> QED  BY <3>1, <3>2 DEF WorkersOK, TypeOK, Workers
  <2> QED  BY <2>1 DEF RoutesOK
<1> QED  BY <1>1, <1>2, TypeInit, TypeStep, ConfiguredStep, WorkersStep, RoutesStep, PTL DEF Spec
=============================================================================
