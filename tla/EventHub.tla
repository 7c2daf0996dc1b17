------------------------------ MODULE EventHub ------------------------------
(***************************************************************************)
(* The live feed: traceEventHub of internal/proxy, the SSE handlers that   *)
(* subscribe to it (handleEvents) and the goroutines that publish every    *)
(* trace to it at the start of persistTraceRecord.  One hub is shared by   *)
(* all the workers of a process.                                           *)
(*                                                                         *)
(* The set of channels is guarded by an RWMutex: publishers share it,      *)
(* Subscribe and unsubscribe take it alone.  A channel is closed after it  *)
(* left the set and after the mutex was released.                          *)
(***************************************************************************)
EXTENDS Naturals, Sequences, SequencesExt

CONSTANTS
  Publishers, \* goroutines that persist traces
  Traces,     \* bound: how many traces each of them publishes
  Sessions,   \* connections to /events, each with a channel of its own
  Buffer,     \* capacity of a channel: 32
  Wants,      \* the records that pass the filter of each session
  Faults,     \* the disturbances of a run: "client"
  None

Records == UNION {{p} \X (1 .. Traces[p]) : p \in Publishers}

ASSUME EventHubAssumption ==
  /\ None \notin Sessions \cup Records
  /\ Traces \in [Publishers -> Nat] /\ Buffer \in Nat
  /\ Wants \in [Sessions -> SUBSET Records]

VARIABLES
  subscribers, \* the hub's set of channels
  writer,      \* the session that is in mu.Lock, or None
  at,          \* where each publisher is
  sent,        \* how many traces each publisher has published
  todo,        \* the channels that a Publish in progress still has to serve
  pc,          \* where each SSE handler is; "gone": its channel is closed
  queue,       \* the records that each channel holds
  writing,     \* the record that each handler is writing, or None
  shown,       \* what each client has received
  due,         \* history: the records published while a session was subscribed
  missed       \* history: the records for which a session's channel was full

hub == <<subscribers, writer>>
publishing == <<at, sent, todo>>
stream == <<queue, writing, shown>>
history == <<due, missed>>
vars == <<hub, publishing, pc, stream, history>>

Init ==
  /\ subscribers = {}
  /\ writer = None
  /\ at = [p \in Publishers |-> "idle"]
  /\ sent = [p \in Publishers |-> 0]
  /\ todo = [p \in Publishers |-> {}]
  /\ pc = [s \in Sessions |-> "idle"]
  /\ queue = [s \in Sessions |-> <<>>]
  /\ writing = [s \in Sessions |-> None]
  /\ shown = [s \in Sessions |-> <<>>]
  /\ due = [s \in Sessions |-> {}]
  /\ missed = [s \in Sessions |-> {}]

Move(s, from, to) == pc[s] = from /\ pc' = [pc EXCEPT ![s] = to]
Proceed(p, from, to) == at[p] = from /\ at' = [at EXCEPT ![p] = to]

-----------------------------------------------------------------------------
(* Publish.                                                                *)

Record(p) == <<p, sent[p] + 1>>
NoReaders == \A p \in Publishers : at[p] # "sending"

\* A trace is about to be persisted.
Call(p) ==
  /\ Proceed(p, "idle", "calling")
  /\ sent[p] < Traces[p]
  /\ UNCHANGED <<hub, sent, todo, pc, stream, history>>

\* mu.RLock is shared, but gives way to a writer that is already waiting.
RLock(p) ==
  /\ Proceed(p, "calling", "sending")
  /\ writer = None
  /\ todo' = [todo EXCEPT ![p] = subscribers]
  /\ due' = [s \in Sessions |->
               IF s \in subscribers THEN due[s] \cup {Record(p)} ELSE due[s]]
  /\ UNCHANGED <<hub, sent, pc, stream, missed>>

\* Mutant: a full channel blocks the send.
SendMutant(p, s) ==
  /\ at[p] = "sending" /\ s \in todo[p]
  /\ todo' = [todo EXCEPT ![p] = @ \ {s}]
  /\ Len(queue[s]) < Buffer
  /\ queue' = [queue EXCEPT ![s] = Append(@, Record(p))]
  /\ UNCHANGED <<hub, at, sent, pc, writing, shown, history>>

\* Mutant: a full channel makes room by dropping its oldest record.
SendEvictMutant(p, s) ==
  /\ at[p] = "sending" /\ s \in todo[p]
  /\ todo' = [todo EXCEPT ![p] = @ \ {s}]
  /\ queue' = [queue EXCEPT ![s] =
       Append(IF Len(@) < Buffer THEN @ ELSE Tail(@), Record(p))]
  /\ UNCHANGED <<hub, at, sent, pc, writing, shown, history>>

\* One round of the loop, over the set in no particular order: the record goes
\* into the channel, or is dropped when the channel is full.
Send(p, s) ==
  /\ at[p] = "sending" /\ s \in todo[p]
  /\ todo' = [todo EXCEPT ![p] = @ \ {s}]
  /\ IF Len(queue[s]) < Buffer
     THEN /\ queue' = [queue EXCEPT ![s] = Append(@, Record(p))]
          /\ UNCHANGED missed
     ELSE /\ missed' = [missed EXCEPT ![s] = @ \cup {Record(p)}]
          /\ UNCHANGED queue
  /\ UNCHANGED <<hub, at, sent, pc, writing, shown, due>>

RUnlock(p) ==
  /\ Proceed(p, "sending", "idle")
  /\ todo[p] = {}
  /\ sent' = [sent EXCEPT ![p] = @ + 1]
  /\ UNCHANGED <<hub, todo, pc, stream, history>>

-----------------------------------------------------------------------------
(* Subscribe and unsubscribe.                                              *)

\* A dashboard connects.
Connect(s) ==
  /\ Move(s, "idle", "joining")
  /\ UNCHANGED <<hub, publishing, stream, history>>

\* The first half of mu.Lock: other writers, and new readers, now wait.
Claim(s) ==
  /\ pc[s] \in {"joining", "leaving"}
  /\ writer = None /\ writer' = s
  /\ UNCHANGED <<subscribers, publishing, pc, stream, history>>

\* Mutant: the mutex is not released.
SubscribeMutant(s) ==
  /\ Move(s, "joining", "streaming")
  /\ writer = s /\ NoReaders
  /\ subscribers' = subscribers \cup {s}
  /\ UNCHANGED <<writer, publishing, stream, history>>

\* The second half, once no publisher is inside, with what it guards.
Subscribe(s) ==
  /\ Move(s, "joining", "streaming")
  /\ writer = s /\ NoReaders
  /\ subscribers' = subscribers \cup {s}
  /\ writer' = None
  /\ UNCHANGED <<publishing, stream, history>>

\* Mutant: unsubscribe does not wait for the publishers.
UnsubscribeMutant(s) ==
  /\ Move(s, "leaving", "closing")
  /\ writer = s
  /\ subscribers' = subscribers \ {s}
  /\ writer' = None
  /\ UNCHANGED <<publishing, stream, history>>

Unsubscribe(s) ==
  /\ Move(s, "leaving", "closing")
  /\ writer = s /\ NoReaders
  /\ subscribers' = subscribers \ {s}
  /\ writer' = None
  /\ UNCHANGED <<publishing, stream, history>>

\* close(ch), outside the mutex.
Close(s) ==
  /\ Move(s, "closing", "gone")
  /\ UNCHANGED <<hub, publishing, stream, history>>

-----------------------------------------------------------------------------
(* The SSE handler.                                                        *)

Take(s) == queue[s] # <<>> /\ queue' = [queue EXCEPT ![s] = Tail(@)]

\* A record that does not pass the filter.
Skip(s) ==
  /\ pc[s] = "streaming"
  /\ Take(s)
  /\ Head(queue[s]) \notin Wants[s]
  /\ UNCHANGED <<hub, publishing, pc, writing, shown, history>>

\* A record that does: it is written, which lasts as long as the client likes.
Receive(s) ==
  /\ Move(s, "streaming", "writing")
  /\ Take(s)
  /\ Head(queue[s]) \in Wants[s]
  /\ writing' = [writing EXCEPT ![s] = Head(queue[s])]
  /\ UNCHANGED <<hub, publishing, shown, history>>

Write(s) ==
  /\ Move(s, "writing", "streaming")
  /\ shown' = [shown EXCEPT ![s] = Append(@, writing[s])]
  /\ writing' = [writing EXCEPT ![s] = None]
  /\ UNCHANGED <<hub, publishing, queue, history>>

\* The client hangs up: the context is done, or the write fails.
Leave(s) ==
  /\ "client" \in Faults
  /\ pc[s] \in {"streaming", "writing"}
  /\ Move(s, pc[s], "leaving")
  /\ writing' = [writing EXCEPT ![s] = None]
  /\ UNCHANGED <<hub, publishing, queue, shown, history>>

-----------------------------------------------------------------------------
Publish(p) == RLock(p) \/ (\E s \in Sessions : Send(p, s)) \/ RUnlock(p)
Locking(s) == Claim(s) \/ Subscribe(s) \/ Unsubscribe(s) \/ Close(s)
Streaming(s) == Skip(s) \/ Receive(s) \/ Write(s)

Next ==
  \/ \E p \in Publishers : Call(p) \/ Publish(p)
  \/ \E s \in Sessions : Connect(s) \/ Locking(s) \/ Streaming(s) \/ Leave(s)

Spec == Init /\ [][Next]_vars

\* Goroutines that can run do run, and the RWMutex lets everybody in sooner or
\* later.  A handler that writes to its client may wait for ever, so there is
\* no fairness for what it does with its channel.
Fairness ==
  /\ \A p \in Publishers : WF_vars(Publish(p))
  /\ \A s \in Sessions : WF_vars(Locking(s))

FairSpec == Spec /\ Fairness

-----------------------------------------------------------------------------
(* Properties.                                                             *)

\* Every variable has its type, and a channel holds no more than its capacity.
TypeOK ==
  /\ subscribers \subseteq Sessions
  /\ writer \in Sessions \cup {None}
  /\ at \in [Publishers -> {"idle", "calling", "sending"}]
  /\ sent \in [Publishers -> Nat]
  /\ \A p \in Publishers : sent[p] <= Traces[p]
  /\ todo \in [Publishers -> SUBSET Sessions]
  /\ pc \in [Sessions -> {"idle", "joining", "streaming", "writing", "leaving",
                          "closing", "gone"}]
  /\ queue \in [Sessions -> Seq(Records)]
  /\ \A s \in Sessions : Len(queue[s]) <= Buffer
  /\ writing \in [Sessions -> Records \cup {None}]
  /\ shown \in [Sessions -> Seq(Records)]
  /\ due \in [Sessions -> SUBSET Records]
  /\ missed \in [Sessions -> SUBSET Records]

\* A publisher never sends on a closed channel (which would panic and end the
\* whole process), although channels are closed outside the mutex and while
\* others publish.
NoSendOnClosed ==
  \A p \in Publishers : \A s \in todo[p] : pc[s] # "gone"

\* The records on their way to the client of s, oldest first.
Feed(s) ==
  shown[s] \o (IF writing[s] = None THEN <<>> ELSE <<writing[s]>>) \o queue[s]

\* While a session lasts, a record that was published to it and passes its
\* filter is lost only if the channel was full at that moment; nothing arrives
\* twice, and the records of one publisher arrive in the order it made them.
FeedFaithful ==
  \A s \in Sessions :
    /\ \A i, j \in 1 .. Len(Feed(s)) :
         i < j /\ Feed(s)[i][1] = Feed(s)[j][1] => Feed(s)[i][2] < Feed(s)[j][2]
    /\ pc[s] \in {"streaming", "writing"} =>
         \A r \in due[s] \cap Wants[s] :
           \/ r \in ToSet(Feed(s)) \cup missed[s]
           \/ r = Record(r[1]) /\ s \in todo[r[1]]

\* Publishing never waits for a client: it ends even if no handler ever reads
\* its channel again.
PublishEnds ==
  \A p \in Publishers : at[p] = "calling" ~> at[p] = "idle"

\* A connection gets its subscription, and one that ends takes its channel out
\* of the hub, however busy the publishers are.
SessionsServed ==
  \A s \in Sessions :
    /\ pc[s] = "joining" ~> pc[s] = "streaming"
    /\ pc[s] = "leaving" ~> pc[s] = "gone"
=============================================================================
