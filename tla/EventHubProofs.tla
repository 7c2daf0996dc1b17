--------------------------- MODULE EventHubProofs ---------------------------
(***************************************************************************)
(* Proofs about EventHub for any publishers, sessions and buffer size.     *)
(***************************************************************************)
EXTENDS EventHub, TLAPS

USE EventHubAssumption

\* Why nobody sends on a closed channel: a channel in the set has a handler that
\* has not unsubscribed yet, and a Publish in progress serves only channels that
\* are still in the set, because unsubscribe waits for it.
Sound ==
  /\ TypeOK
  /\ \A s \in subscribers : pc[s] \in {"streaming", "writing", "leaving"}
  /\ \A p \in Publishers : at[p] # "sending" => todo[p] = {}
  /\ \A p \in Publishers : todo[p] \subseteq subscribers
  /\ \A p \in Publishers : at[p] # "idle" => sent[p] < Traces[p]
  /\ \A s \in Sessions : pc[s] = "writing" => writing[s] \in Records

\* The record a publisher is about to publish is one of Records.
LEMMA RecordType ==
  ASSUME TypeOK, NEW p \in Publishers, sent[p] < Traces[p]
  PROVE  Record(p) \in Records
<1>1. sent[p] + 1 \in 1 .. Traces[p]
  BY DEF TypeOK
<1>2. Record(p) \in {p} \X (1 .. Traces[p])
  BY <1>1 DEF Record
<1> QED  BY <1>2 DEF Records

\* What a handler takes from its channel leaves a shorter queue.
LEMMA TakeType ==
  ASSUME TypeOK, NEW s \in Sessions, Take(s)
  PROVE  /\ queue' \in [Sessions -> Seq(Records)]
         /\ \A q \in Sessions : Len(queue'[q]) <= Buffer
         /\ Head(queue[s]) \in Records
<1>1. queue[s] \in Seq(Records) /\ queue[s] # <<>> /\ Len(queue[s]) <= Buffer
  BY DEF Take, TypeOK
<1>2. Tail(queue[s]) \in Seq(Records) /\ Len(Tail(queue[s])) = Len(queue[s]) - 1
      /\ Head(queue[s]) \in Records /\ Len(queue[s]) \in Nat
  BY <1>1
<1>3. queue' = [queue EXCEPT ![s] = Tail(queue[s])]
  BY DEF Take
<1>4. queue' \in [Sessions -> Seq(Records)]
  BY <1>2, <1>3 DEF TypeOK
<1>5. ASSUME NEW q \in Sessions PROVE Len(queue'[q]) <= Buffer
  <2>1. CASE q = s
    <3>1. queue'[q] = Tail(queue[s])
      BY <2>1, <1>3 DEF TypeOK
    <3>2. Len(queue[s]) - 1 <= Buffer
      BY <1>1, <1>2
    <3> QED  BY <3>1, <3>2, <1>2
  <2>2. CASE q # s
    BY <2>2, <1>3 DEF TypeOK
  <2> QED  BY <2>1, <2>2
<1> QED  BY <1>2, <1>4, <1>5

\* Initially nobody publishes or subscribes.
LEMMA SoundInit == ASSUME Init PROVE Sound
<1>1. <<>> \in Seq(Records) /\ Len(<<>>) = 0
  OBVIOUS
<1>2. \A s \in Sessions : Len(queue[s]) <= Buffer
  BY <1>1 DEF Init
<1>3. queue \in [Sessions -> Seq(Records)] /\ shown \in [Sessions -> Seq(Records)]
  BY <1>1 DEF Init
<1>4. sent \in [Publishers -> Nat] /\ \A p \in Publishers : sent[p] <= Traces[p]
  BY DEF Init
<1>5. TypeOK
  BY <1>2, <1>3, <1>4 DEF Init, TypeOK
<1> QED  BY <1>5 DEF Init, Sound

\* Every step keeps Sound.
LEMMA SoundStep ==
  ASSUME Sound, [Next]_vars
  PROVE  Sound'
<1> USE DEF Sound, TypeOK, hub, publishing, stream, history, Proceed, Move
<1>1. ASSUME NEW p \in Publishers, Call(p) PROVE Sound'
  BY <1>1 DEF Call
<1>2. ASSUME NEW p \in Publishers, RLock(p) PROVE Sound'
  <2>1. Record(p) \in Records
    BY <1>2, RecordType DEF RLock
  <2>2. due' \in [Sessions -> SUBSET Records]
    BY <1>2, <2>1 DEF RLock
  <2> QED  BY <1>2, <2>2 DEF RLock
<1>3. ASSUME NEW p \in Publishers, NEW s \in Sessions, Send(p, s) PROVE Sound'
  <2>1. Record(p) \in Records
    BY <1>3, RecordType DEF Send
  <2>2. /\ queue' \in [Sessions -> Seq(Records)]
        /\ \A q \in Sessions : Len(queue'[q]) <= Buffer
        /\ missed' \in [Sessions -> SUBSET Records]
    <3>1. CASE Len(queue[s]) < Buffer
      <4>1. queue' = [queue EXCEPT ![s] = Append(queue[s], Record(p))] /\ missed' = missed
        BY <1>3, <3>1 DEF Send
      <4>2. /\ Append(queue[s], Record(p)) \in Seq(Records)
            /\ Len(Append(queue[s], Record(p))) = Len(queue[s]) + 1
            /\ Len(queue[s]) \in Nat
        BY <2>1
      <4>3. Len(Append(queue[s], Record(p))) <= Buffer
        BY <4>2, <3>1
      <4> QED  BY <4>1, <4>2, <4>3
    <3>2. CASE ~(Len(queue[s]) < Buffer)
      <4>1. queue' = queue /\ missed' = [missed EXCEPT ![s] = @ \cup {Record(p)}]
        BY <1>3, <3>2 DEF Send
      <4>2. missed' \in [Sessions -> SUBSET Records]
        BY <4>1, <2>1
      <4> QED  BY <4>1, <4>2
    <3> QED  BY <3>1, <3>2
  <2> QED  BY <1>3, <2>2 DEF Send
<1>4. ASSUME NEW p \in Publishers, RUnlock(p) PROVE Sound'
  <2>1. sent[p] \in Nat /\ Traces[p] \in Nat /\ sent[p] < Traces[p]
    BY <1>4 DEF RUnlock
  <2>2. sent[p] + 1 \in Nat /\ sent[p] + 1 <= Traces[p]
    BY <2>1
  <2>3. /\ sent' \in [Publishers -> Nat]
        /\ \A q \in Publishers : sent'[q] <= Traces[q]
        /\ \A q \in Publishers : q # p => sent'[q] = sent[q]
    BY <1>4, <2>2 DEF RUnlock
  <2> QED  BY <1>4, <2>3 DEF RUnlock
<1>5. ASSUME NEW s \in Sessions, Connect(s) PROVE Sound'
  BY <1>5 DEF Connect
<1>6. ASSUME NEW s \in Sessions, Claim(s) PROVE Sound'
  BY <1>6 DEF Claim
<1>7. ASSUME NEW s \in Sessions, Subscribe(s) PROVE Sound'
  BY <1>7 DEF Subscribe
\* Nobody is publishing, so no Publish still has this channel to serve.
<1>8. ASSUME NEW s \in Sessions, Unsubscribe(s) PROVE Sound'
  <2>1. \A p \in Publishers : todo[p] = {}
    BY <1>8 DEF Unsubscribe, NoReaders
  <2> QED  BY <1>8, <2>1 DEF Unsubscribe
<1>9. ASSUME NEW s \in Sessions, Close(s) PROVE Sound'
  BY <1>9 DEF Close
<1>10. ASSUME NEW s \in Sessions, Skip(s) PROVE Sound'
  BY <1>10, TakeType DEF Skip
<1>11. ASSUME NEW s \in Sessions, Receive(s) PROVE Sound'
  <2>1. /\ queue' \in [Sessions -> Seq(Records)]
        /\ \A q \in Sessions : Len(queue'[q]) <= Buffer
        /\ writing' \in [Sessions -> Records \cup {None}]
        /\ writing'[s] \in Records /\ pc'[s] = "writing"
    BY <1>11, TakeType DEF Receive
  <2> QED  BY <1>11, <2>1 DEF Receive
<1>12. ASSUME NEW s \in Sessions, Write(s) PROVE Sound'
  <2>1. Append(shown[s], writing[s]) \in Seq(Records)
    BY <1>12 DEF Write
  <2>2. shown' \in [Sessions -> Seq(Records)]
    BY <1>12, <2>1 DEF Write
  <2> QED  BY <1>12, <2>2 DEF Write
<1>13. ASSUME NEW s \in Sessions, Leave(s) PROVE Sound'
  BY <1>13 DEF Leave
<1>14. CASE UNCHANGED vars
  BY <1>14 DEF vars
<1> QED
  BY <1>1, <1>2, <1>3, <1>4, <1>5, <1>6, <1>7, <1>8, <1>9, <1>10, <1>11, <1>12,
     <1>13, <1>14 DEF Next, Publish, Locking, Streaming

\* Sound is an invariant.
LEMMA AlwaysSound == Spec => []Sound
<1>1. Init => Sound  BY SoundInit
<1>2. Sound /\ [Next]_vars => Sound'  BY SoundStep
<1> QED  BY <1>1, <1>2, PTL DEF Spec

\* Every variable of the event hub keeps its type, and a channel its capacity.
THEOREM TypeCorrect == Spec => []TypeOK
<1>1. Sound => TypeOK  BY DEF Sound
<1> QED  BY <1>1, AlwaysSound, PTL

\* No publisher ever sends on the closed channel of a session that ended.
THEOREM NoSendOnClosedCorrect == Spec => []NoSendOnClosed
<1>1. Sound => NoSendOnClosed  BY DEF Sound, NoSendOnClosed, TypeOK
<1> QED  BY <1>1, AlwaysSound, PTL

-----------------------------------------------------------------------------
(* The feed of a session.                                                  *)

\* The records of each publisher come in the order in which it made them.
Ascends(q) ==
  \A i, j \in 1 .. Len(q) : i < j /\ q[i][1] = q[j][1] => q[i][2] < q[j][2]

\* A record that is younger than all others of its publisher may follow them.
LEMMA AppendAscends ==
  ASSUME NEW q \in Seq(Records), NEW r \in Records, Ascends(q),
         \A x \in ToSet(q) : x[1] = r[1] => x[2] < r[2]
  PROVE  Ascends(Append(q, r)) /\ ToSet(Append(q, r)) = ToSet(q) \cup {r}
<1> DEFINE a == Append(q, r)
<1>1. /\ Len(q) \in Nat /\ Len(a) = Len(q) + 1 /\ a[Len(q) + 1] = r
      /\ \A i \in 1 .. Len(q) : a[i] = q[i]
      /\ DOMAIN q = 1 .. Len(q) /\ DOMAIN a = 1 .. Len(q) + 1
  OBVIOUS
<1>2. \A i \in 1 .. Len(q) : q[i] \in ToSet(q)
  BY <1>1 DEF ToSet
<1>3. ASSUME NEW i \in 1 .. Len(a), NEW j \in 1 .. Len(a), i < j, a[i][1] = a[j][1]
      PROVE  a[i][2] < a[j][2]
  <2>1. i \in 1 .. Len(q) /\ a[i] = q[i]
    BY <1>1, <1>3
  <2>2. CASE j \in 1 .. Len(q)
    BY <1>1, <1>3, <2>1, <2>2 DEF Ascends
  <2>3. CASE j = Len(q) + 1
    BY <1>1, <1>2, <1>3, <2>1, <2>3
  <2> QED  BY <1>1, <2>2, <2>3
<1>4. ToSet(a) = ToSet(q) \cup {r}
  BY <1>1 DEF ToSet
<1> QED  BY <1>3, <1>4 DEF Ascends

\* A record may be left out.
LEMMA DropAscends ==
  ASSUME NEW a \in Seq(Records), NEW x \in Records, NEW b \in Seq(Records),
         Ascends(a \o <<x>> \o b)
  PROVE  Ascends(a \o b) /\ ToSet(a \o <<x>> \o b) = ToSet(a \o b) \cup {x}
<1> DEFINE long == a \o <<x>> \o b
           short == a \o b
           at2(i) == IF i <= Len(a) THEN i ELSE i + 1
<1>1. /\ Len(a) \in Nat /\ Len(b) \in Nat
      /\ Len(long) = Len(a) + 1 + Len(b) /\ Len(short) = Len(a) + Len(b)
      /\ DOMAIN long = 1 .. Len(long) /\ DOMAIN short = 1 .. Len(short)
  OBVIOUS
<1>2. long[Len(a) + 1] = x
  OBVIOUS
<1>3. ASSUME NEW i \in 1 .. Len(short)
      PROVE  at2(i) \in 1 .. Len(long) /\ short[i] = long[at2(i)]
  BY <1>1
<1>4. ASSUME NEW i \in 1 .. Len(long), i # Len(a) + 1
      PROVE  \E j \in 1 .. Len(short) : long[i] = short[j]
  <2>1. CASE i <= Len(a)
    BY <1>1, <2>1
  <2>2. CASE i > Len(a) + 1
    <3>1. i - 1 \in 1 .. Len(short) /\ long[i] = short[i - 1]
      BY <1>1, <2>2
    <3> QED  BY <3>1
  <2> QED  BY <1>1, <1>4, <2>1, <2>2
<1>5. Ascends(short)
  <2>1. ASSUME NEW i \in 1 .. Len(short), NEW j \in 1 .. Len(short), i < j,
               short[i][1] = short[j][1]
        PROVE  short[i][2] < short[j][2]
    <3>1. at2(i) < at2(j)
      BY <1>1, <2>1
    <3> QED  BY <1>3, <2>1, <3>1 DEF Ascends
  <2> QED  BY <2>1 DEF Ascends
<1>6. ToSet(long) \subseteq ToSet(short) \cup {x}
  BY <1>1, <1>2, <1>4 DEF ToSet
<1>7. ToSet(short) \subseteq ToSet(long)
  BY <1>1, <1>3 DEF ToSet
<1>8. x \in ToSet(long)
  <2>1. Len(a) + 1 \in DOMAIN long
    BY <1>1
  <2> QED  BY <1>2, <2>1 DEF ToSet
<1> QED  BY <1>5, <1>6, <1>7, <1>8

\* Sequences are their elements.
LEMMA SeqEqual ==
  ASSUME NEW a \in Seq(Records), NEW b \in Seq(Records), Len(a) = Len(b),
         \A i \in 1 .. Len(b) : a[i] = b[i]
  PROVE  a = b
  OBVIOUS

\* What is put behind the second of two sequences is behind both.
LEMMA ConcatAppend ==
  ASSUME NEW a \in Seq(Records), NEW b \in Seq(Records), NEW r \in Records
  PROVE  a \o Append(b, r) = Append(a \o b, r)
<1>1. Len(a) \in Nat /\ Len(b) \in Nat /\ Append(b, r) \in Seq(Records)
      /\ a \o b \in Seq(Records) /\ Len(a \o b) = Len(a) + Len(b)
      /\ Len(Append(b, r)) = Len(b) + 1
  OBVIOUS
<1> DEFINE l == a \o Append(b, r)
           q == Append(a \o b, r)
<1>2. l \in Seq(Records) /\ q \in Seq(Records) /\ Len(l) = Len(q)
  BY <1>1
<1>3. ASSUME NEW i \in 1 .. Len(q) PROVE l[i] = q[i]
  BY <1>1, <1>3
<1> HIDE DEF l, q
<1> QED  BY <1>2, <1>3, SeqEqual

\* What is taken from a queue was its front.
LEMMA TakenApart ==
  ASSUME NEW q \in Seq(Records), q # <<>>
  PROVE  q = <<Head(q)>> \o Tail(q) /\ Head(q) \in Records /\ Tail(q) \in Seq(Records)
<1>1. /\ Len(q) \in Nat /\ Len(q) > 0 /\ Head(q) \in Records /\ Tail(q) \in Seq(Records)
      /\ Head(q) = q[1] /\ Len(Tail(q)) = Len(q) - 1
      /\ \A i \in 1 .. Len(q) - 1 : Tail(q)[i] = q[i + 1]
  OBVIOUS
<1> DEFINE l == <<Head(q)>> \o Tail(q)
<1>2. l \in Seq(Records) /\ Len(l) = Len(q)
  BY <1>1
<1>3. ASSUME NEW i \in 1 .. Len(q) PROVE l[i] = q[i]
  BY <1>1, <1>3
<1> HIDE DEF l
<1> QED  BY <1>1, <1>2, <1>3, SeqEqual

\* A feed keeps its records when the first of its channel is taken for writing.
LEMMA ConcatTaken ==
  ASSUME NEW a \in Seq(Records), NEW q \in Seq(Records), q # <<>>
  PROVE  a \o <<>> \o q = a \o <<Head(q)>> \o Tail(q)
<1>1. q = <<Head(q)>> \o Tail(q) /\ Head(q) \in Records /\ Tail(q) \in Seq(Records)
  BY TakenApart
<1> DEFINE h == <<Head(q)>>
           t == Tail(q)
           l == a \o (h \o t)
           r == a \o h \o t
<1>2. h \in Seq(Records) /\ Len(h) = 1 /\ t \in Seq(Records)
  BY <1>1
<1>3. a \o <<>> = a
  OBVIOUS
<1> HIDE DEF h, t
<1>4. l \in Seq(Records) /\ r \in Seq(Records) /\ Len(l) = Len(r)
  BY <1>2
<1>5. ASSUME NEW i \in 1 .. Len(r) PROVE l[i] = r[i]
  BY <1>2, <1>5
<1> HIDE DEF l, r
<1>6. l = r
  BY <1>4, <1>5, SeqEqual
<1> QED  BY <1>1, <1>3, <1>6 DEF l, r, h, t

\* A publisher has sent r to s.
WasSent(r, s) ==
  \/ r[2] <= sent[r[1]]
  \/ r = Record(r[1]) /\ at[r[1]] = "sending" /\ s \notin todo[r[1]]

\* A record of s is in its feed, was dropped, or is being sent.
Accounted(r, s) ==
  \/ r \in ToSet(Feed(s)) \cup missed[s]
  \/ r = Record(r[1]) /\ s \in todo[r[1]]

\* What a feed holds was sent, in order, and nothing was due before the session.
Loyal(s) ==
  /\ Ascends(Feed(s))
  /\ \A r \in ToSet(Feed(s)) : WasSent(r, s)
  /\ pc[s] \in {"idle", "joining"} => due[s] = {}
  /\ pc[s] # "writing" => writing[s] = None
  /\ pc[s] \in {"streaming", "writing"} => \A r \in due[s] \cap Wants[s] : Accounted(r, s)

\* A feed is a sequence of records, and due records are records.
LEMMA FeedFacts ==
  ASSUME Sound, NEW s \in Sessions
  PROVE  /\ Feed(s) \in Seq(Records)
         /\ \A r \in Records : r[1] \in Publishers /\ r[2] \in Nat
         /\ \A r \in ToSet(Feed(s)) \cup due[s] : r \in Records
<1>1. /\ shown[s] \in Seq(Records) /\ queue[s] \in Seq(Records)
      /\ writing[s] \in Records \cup {None} /\ due[s] \subseteq Records
  BY DEF Sound, TypeOK
<1>2. Feed(s) \in Seq(Records)
  BY <1>1 DEF Feed
<1>3. \A r \in ToSet(Feed(s)) : r \in Records
  BY <1>2 DEF ToSet
<1>4. ASSUME NEW r \in Records PROVE r[1] \in Publishers /\ r[2] \in Nat
  <2>1. PICK p \in Publishers : r \in {p} \X (1 .. Traces[p])
    BY DEF Records
  <2> QED  BY <2>1
<1> QED  BY <1>1, <1>2, <1>3, <1>4

\* What a Publish does is to send, and what was sent stays so.
LEMMA SentStays ==
  ASSUME Sound, [Next]_vars, NEW s \in Sessions, NEW r \in Records, WasSent(r, s)
  PROVE  WasSent(r, s)'
<1> DEFINE p == r[1]
<1>1. p \in Publishers /\ r[2] \in Nat
  BY FeedFacts
<1>2. sent[p] \in Nat
  BY <1>1 DEF Sound, TypeOK
<1>3. CASE UNCHANGED <<at, sent, todo>>
  BY <1>3 DEF WasSent, Record
<1>4. ASSUME NEW q \in Publishers, Call(q) PROVE WasSent(r, s)'
  BY <1>1, <1>4 DEF Call, Proceed, WasSent, Record, Sound, TypeOK
<1>5. ASSUME NEW q \in Publishers, RLock(q) PROVE WasSent(r, s)'
  BY <1>1, <1>5 DEF RLock, Proceed, WasSent, Record, Sound, TypeOK
<1>6. ASSUME NEW q \in Publishers, NEW x \in Sessions, Send(q, x) PROVE WasSent(r, s)'
  BY <1>1, <1>6 DEF Send, WasSent, Record, Sound, TypeOK
<1>7. ASSUME NEW q \in Publishers, RUnlock(q) PROVE WasSent(r, s)'
  <2>1. sent' = [sent EXCEPT ![q] = sent[q] + 1] /\ at' = [at EXCEPT ![q] = "idle"]
        /\ todo' = todo
    BY <1>7 DEF RUnlock, Proceed
  <2>2. CASE p = q
    <3>1. sent'[p] = sent[p] + 1
      BY <1>1, <2>1, <2>2 DEF Sound, TypeOK
    <3>2. r = Record(p) => r[2] = sent[p] + 1
      BY DEF Record
    <3>3. r[2] <= sent[p] + 1
      BY <1>1, <1>2, <3>2 DEF WasSent
    <3> QED  BY <3>1, <3>3 DEF WasSent
  <2>3. CASE p # q
    BY <1>1, <2>1, <2>3 DEF WasSent, Record, Sound, TypeOK
  <2> QED  BY <2>2, <2>3
<1>8. ASSUME NEW x \in Sessions, Connect(x) \/ Locking(x) \/ Streaming(x) \/ Leave(x)
      PROVE  WasSent(r, s)'
  <2>1. UNCHANGED publishing
    BY <1>8 DEF Connect, Locking, Claim, Subscribe, Unsubscribe, Close, Streaming, Skip,
                Receive, Write, Leave
  <2> QED  BY <1>3, <2>1 DEF publishing
<1>9. CASE UNCHANGED vars
  BY <1>3, <1>9 DEF vars, publishing
<1> QED  BY <1>4, <1>5, <1>6, <1>7, <1>8, <1>9 DEF Next, Publish

\* The feed but for the channel.
Taken(s) == shown[s] \o (IF writing[s] = None THEN <<>> ELSE <<writing[s]>>)

\* The two parts of a feed.
LEMMA FeedParts ==
  ASSUME Sound, NEW s \in Sessions
  PROVE  Taken(s) \in Seq(Records) /\ queue[s] \in Seq(Records) /\ Feed(s) = Taken(s) \o queue[s]
  BY DEF Taken, Feed, Sound, TypeOK

\* A step that leaves the feed of s alone keeps Loyal, if what becomes due is being sent.
LEMMA QuietStep ==
  ASSUME Sound, [Next]_vars, NEW s \in Sessions, Loyal(s), Feed(s)' = Feed(s),
         pc'[s] # "writing" => writing'[s] = None,
         pc'[s] \in {"idle", "joining"} => pc[s] \in {"idle", "joining"} /\ due'[s] = due[s],
         pc'[s] \in {"streaming", "writing"} =>
           \A r \in due'[s] \cap Wants[s] : Accounted(r, s)'
  PROVE  Loyal(s)'
<1>1. \A r \in ToSet(Feed(s)) : WasSent(r, s)'
  BY FeedFacts, SentStays DEF Loyal
<1> QED  BY <1>1 DEF Loyal

\* So does a step that leaves publishers and history alone, too.
LEMMA SameFeed ==
  ASSUME Sound, [Next]_vars, NEW s \in Sessions, Loyal(s), Feed(s)' = Feed(s),
         UNCHANGED <<publishing, history>>,
         pc'[s] # "writing" => writing'[s] = None,
         pc'[s] \in {"idle", "joining"} => pc[s] \in {"idle", "joining"},
         pc'[s] \in {"streaming", "writing"} => pc[s] \in {"joining", "streaming", "writing"}
  PROVE  Loyal(s)'
<1>1. \A r : Accounted(r, s)' = Accounted(r, s)
  BY DEF Accounted, publishing, history, Record
<1>2. due' = due
  BY DEF history
<1> QED  BY <1>1, <1>2, QuietStep DEF Loyal

\* A record leaves the feed that is not wanted, or no longer.
LEMMA ShorterFeed ==
  ASSUME Sound, [Next]_vars, NEW s \in Sessions, Loyal(s), UNCHANGED <<publishing, history>>,
         NEW x, Ascends(Feed(s)'), ToSet(Feed(s)) = ToSet(Feed(s)') \cup {x},
         pc'[s] # "writing" => writing'[s] = None,
         pc'[s] \notin {"idle", "joining"},
         pc'[s] = "leaving" \/ (pc'[s] = pc[s] /\ pc[s] = "streaming" /\ x \notin Wants[s])
  PROVE  Loyal(s)'
<1>1. \A r \in ToSet(Feed(s)') : WasSent(r, s)'
  BY FeedFacts, SentStays DEF Loyal
<1>2. pc'[s] \in {"streaming", "writing"} =>
        \A r \in due'[s] \cap Wants[s] : Accounted(r, s)'
  BY DEF Loyal, Accounted, publishing, history, Record
<1> QED  BY <1>1, <1>2 DEF Loyal

\* The steps of publishers that put nothing into a channel.
LEMMA CallLoyal ==
  ASSUME Sound, [Next]_vars, NEW s \in Sessions, Loyal(s), NEW p \in Publishers, Call(p)
  PROVE  Loyal(s)'
<1>1. /\ UNCHANGED <<sent, todo, pc, stream, history>>
  BY DEF Call
<1>2. \A r : Accounted(r, s)' = Accounted(r, s)
  BY <1>1 DEF Accounted, stream, history, Feed, Record
<1> QED  BY <1>1, <1>2, QuietStep DEF Loyal, history, stream, Feed

\* A record that becomes due is about to be sent to every channel in the set.
LEMMA RLockLoyal ==
  ASSUME Sound, [Next]_vars, NEW s \in Sessions, Loyal(s), NEW p \in Publishers, RLock(p)
  PROVE  Loyal(s)'
<1>1. /\ at[p] = "calling" /\ todo[p] = {} /\ UNCHANGED <<sent, pc, stream, missed>>
      /\ todo' = [todo EXCEPT ![p] = subscribers]
      /\ due'[s] = IF s \in subscribers THEN due[s] \cup {Record(p)} ELSE due[s]
  BY DEF RLock, Proceed, Sound
<1>2. Feed(s)' = Feed(s) /\ Record(p)' = Record(p)
  BY <1>1 DEF stream, Feed, Record
<1>3. ASSUME NEW r \in due[s], Accounted(r, s) PROVE Accounted(r, s)'
  <2>1. r[1] \in Publishers
    BY FeedFacts
  <2>2. r[1] # p => todo'[r[1]] = todo[r[1]]
    BY <1>1, <2>1 DEF Sound, TypeOK
  <2> QED  BY <1>1, <1>2, <1>3, <2>2 DEF Accounted, Record
<1>4. ASSUME NEW r, r = Record(p), s \in subscribers PROVE Accounted(r, s)'
  <2>1. r[1] = p /\ r = Record(p)'
    BY <1>2, <1>4 DEF Record
  <2>2. s \in todo'[p]
    BY <1>1, <1>4 DEF Sound, TypeOK
  <2> QED  BY <2>1, <2>2 DEF Accounted
<1>5. s \in subscribers => pc[s] \notin {"idle", "joining"}
  BY DEF Sound
<1>6. pc[s] \in {"streaming", "writing"} =>
        \A r \in due'[s] \cap Wants[s] : Accounted(r, s)'
  BY <1>1, <1>3, <1>4 DEF Loyal
<1> QED  BY <1>1, <1>2, <1>5, <1>6, QuietStep DEF Loyal, stream

\* A publisher that unlocks has served every channel.
LEMMA RUnlockLoyal ==
  ASSUME Sound, [Next]_vars, NEW s \in Sessions, Loyal(s), NEW p \in Publishers, RUnlock(p)
  PROVE  Loyal(s)'
<1>1. /\ todo[p] = {} /\ UNCHANGED <<todo, pc, stream, history>>
      /\ sent' = [sent EXCEPT ![p] = sent[p] + 1]
  BY DEF RUnlock, Proceed
<1>2. Feed(s)' = Feed(s)
  BY <1>1 DEF stream, Feed
<1>3. ASSUME NEW r \in due[s], Accounted(r, s) PROVE Accounted(r, s)'
  <2>1. r[1] \in Publishers
    BY FeedFacts
  <2>2. r[1] # p => Record(r[1])' = Record(r[1])
    BY <1>1, <2>1 DEF Sound, TypeOK, Record
  <2> QED  BY <1>1, <1>2, <1>3, <2>2 DEF Accounted, history
<1> QED  BY <1>1, <1>2, <1>3, QuietStep DEF Loyal, history, stream

\* A record that is put into the channel follows those of its publisher.
LEMMA SendLoyal ==
  ASSUME Sound, [Next]_vars, NEW s \in Sessions, Loyal(s), NEW p \in Publishers,
         NEW x \in Sessions, Send(p, x)
  PROVE  Loyal(s)'
<1> DEFINE r == Record(p)
<1>1. /\ at[p] = "sending" /\ x \in todo[p] /\ UNCHANGED <<at, sent, pc, writing, shown, due>>
      /\ todo' = [todo EXCEPT ![p] = @ \ {x}]
  BY DEF Send, hub
<1>2. r \in Records /\ r[1] = p /\ r[2] = sent[p] + 1 /\ r' = r /\ sent[p] \in Nat
  <2>1. r \in Records
    BY <1>1, RecordType DEF Sound
  <2> QED  BY <1>1, <2>1 DEF Record, Sound, TypeOK
<1>3. CASE x # s
  <2>1. queue'[s] = queue[s] /\ missed'[s] = missed[s]
    BY <1>3 DEF Send, Sound, TypeOK
  <2>2. Feed(s)' = Feed(s)
    BY <1>1, <2>1 DEF Feed
  <2>3. ASSUME NEW y \in due[s], Accounted(y, s) PROVE Accounted(y, s)'
    <3>1. y[1] \in Publishers
      BY FeedFacts
    <3>2. s \in todo[y[1]] => s \in todo'[y[1]]
      BY <1>1, <1>3, <3>1 DEF Sound, TypeOK
    <3> QED  BY <1>1, <2>1, <2>2, <2>3, <3>2 DEF Accounted, Record
  <2>4. \A y \in ToSet(Feed(s)) : WasSent(y, s)'
    BY FeedFacts, SentStays DEF Loyal
  <2> QED  BY <1>1, <2>2, <2>3, <2>4 DEF Loyal
<1>4. CASE x = s
  <2>1. \A y \in ToSet(Feed(s)) : y[1] = p => y[2] < r[2]
    <3>1. ASSUME NEW y \in ToSet(Feed(s)), y[1] = p PROVE y[2] < r[2]
      <4>1. y[2] \in Nat /\ WasSent(y, s)
        BY FeedFacts DEF Loyal
      <4> QED  BY <1>1, <1>2, <1>4, <3>1, <4>1 DEF WasSent
    <3> QED  BY <3>1
  <2>2. /\ Ascends(Feed(s)') /\ ToSet(Feed(s)') \subseteq ToSet(Feed(s)) \cup {r}
        /\ ToSet(Feed(s)) \subseteq ToSet(Feed(s)')
        /\ missed[s] \subseteq missed'[s]
        /\ r \in ToSet(Feed(s)') \cup missed'[s]
    <3>1. CASE Len(queue[s]) < Buffer
      <4>1. queue'[s] = Append(queue[s], r) /\ missed' = missed
        BY <1>4, <3>1 DEF Send, Sound, TypeOK
      <4>2. Feed(s)' = Append(Feed(s), r)
        <5>1. Feed(s)' = Taken(s) \o Append(queue[s], r)
          BY <1>1, <4>1 DEF Feed, Taken
        <5>2. Taken(s) \o Append(queue[s], r) = Append(Taken(s) \o queue[s], r)
          BY <1>2, FeedParts, ConcatAppend
        <5>3. Feed(s) = Taken(s) \o queue[s]
          BY FeedParts
        <5> QED  BY <5>1, <5>2, <5>3
      <4>3. Ascends(Append(Feed(s), r)) /\ ToSet(Append(Feed(s), r)) = ToSet(Feed(s)) \cup {r}
        BY <1>2, <2>1, FeedFacts, AppendAscends DEF Loyal
      <4> QED  BY <4>1, <4>2, <4>3
    <3>2. CASE ~(Len(queue[s]) < Buffer)
      <4>1. queue' = queue /\ missed'[s] = missed[s] \cup {r}
        BY <1>4, <3>2 DEF Send, Sound, TypeOK
      <4>2. Feed(s)' = Feed(s)
        BY <1>1, <4>1 DEF Feed
      <4> QED  BY <4>1, <4>2 DEF Loyal
    <3> QED  BY <3>1, <3>2
  <2>3. ASSUME NEW y, y = r PROVE WasSent(y, s)'
    <3>1. y = Record(p)' /\ y[1] = p
      BY <1>2, <2>3
    <3> QED  BY <1>1, <1>4, <3>1 DEF WasSent, Sound, TypeOK
  <2>4. \A y \in ToSet(Feed(s)') : WasSent(y, s)'
    BY <2>2, <2>3, FeedFacts, SentStays DEF Loyal
  <2>5. ASSUME NEW y \in due[s], Accounted(y, s) PROVE Accounted(y, s)'
    <3>1. y[1] \in Publishers
      BY FeedFacts
    <3>2. CASE y = r
      BY <2>2, <3>2 DEF Accounted
    <3>3. CASE y # r
      <4>1. y = Record(y[1]) => y[1] # p
        BY <3>3
      <4>2. y[1] # p => todo'[y[1]] = todo[y[1]]
        BY <1>1, <3>1 DEF Sound, TypeOK
      <4> QED  BY <1>1, <2>2, <2>5, <4>1, <4>2 DEF Accounted, Record
    <3> QED  BY <3>2, <3>3
  <2> QED  BY <1>1, <2>2, <2>4, <2>5 DEF Loyal
<1> QED  BY <1>3, <1>4

-----------------------------------------------------------------------------
(* The handlers.                                                           *)

\* A session that a step does not touch.
LEMMA OthersLoyal ==
  ASSUME Sound, [Next]_vars, NEW s \in Sessions, Loyal(s), UNCHANGED <<publishing, history>>,
         pc'[s] = pc[s], queue'[s] = queue[s], writing'[s] = writing[s], shown'[s] = shown[s]
  PROVE  Loyal(s)'
<1>1. Feed(s)' = Feed(s)
  BY DEF Feed
<1> QED  BY <1>1, SameFeed DEF Loyal

\* A record that the filter drops leaves the feed.
LEMMA SkipLoyal ==
  ASSUME Sound, [Next]_vars, NEW s \in Sessions, Loyal(s), Skip(s)
  PROVE  Loyal(s)'
<1>1. /\ pc[s] = "streaming" /\ queue[s] # <<>> /\ Head(queue[s]) \notin Wants[s]
      /\ UNCHANGED <<publishing, pc, writing, shown, history>> /\ queue'[s] = Tail(queue[s])
  BY DEF Skip, Take, Sound, TypeOK
<1>2. writing[s] = None
  BY <1>1 DEF Loyal
<1>3. queue[s] = <<Head(queue[s])>> \o Tail(queue[s])
      /\ Head(queue[s]) \in Records /\ Tail(queue[s]) \in Seq(Records)
  BY <1>1, TakenApart DEF Sound, TypeOK
<1>4. shown[s] \in Seq(Records)
  BY DEF Sound, TypeOK
<1>5. Feed(s)' = shown[s] \o Tail(queue[s])
  BY <1>1, <1>2, <1>4 DEF Feed
<1>6. Feed(s) = shown[s] \o <<Head(queue[s])>> \o Tail(queue[s])
  <2>1. Feed(s) = shown[s] \o <<>> \o queue[s]
    BY <1>2 DEF Feed
  <2>2. queue[s] \in Seq(Records)
    BY DEF Sound, TypeOK
  <2> QED  BY <1>1, <1>4, <2>1, <2>2, ConcatTaken
<1>7. Ascends(Feed(s)') /\ ToSet(Feed(s)) = ToSet(Feed(s)') \cup {Head(queue[s])}
  <2>1. Ascends(shown[s] \o <<Head(queue[s])>> \o Tail(queue[s]))
    BY <1>6 DEF Loyal
  <2>2. /\ Ascends(shown[s] \o Tail(queue[s]))
        /\ ToSet(shown[s] \o <<Head(queue[s])>> \o Tail(queue[s]))
             = ToSet(shown[s] \o Tail(queue[s])) \cup {Head(queue[s])}
    BY <1>3, <1>4, <2>1, DropAscends
  <2> QED  BY <1>5, <1>6, <2>2
<1> QED  BY <1>1, <1>2, <1>7, ShorterFeed

\* A record that is taken for writing stays in the feed.
LEMMA ReceiveLoyal ==
  ASSUME Sound, [Next]_vars, NEW s \in Sessions, Loyal(s), Receive(s)
  PROVE  Loyal(s)'
<1>1. /\ pc[s] = "streaming" /\ queue[s] # <<>> /\ UNCHANGED <<publishing, shown, history>>
      /\ queue'[s] = Tail(queue[s]) /\ writing'[s] = Head(queue[s]) /\ pc'[s] = "writing"
  BY DEF Receive, Take, Move, Sound, TypeOK
<1>2. writing[s] = None
  BY <1>1 DEF Loyal
<1>3. queue[s] \in Seq(Records) /\ Head(queue[s]) \in Records /\ shown[s] \in Seq(Records)
  BY <1>1, TakenApart DEF Sound, TypeOK
<1>4. Feed(s)' = shown[s] \o <<Head(queue[s])>> \o Tail(queue[s])
  <2>1. writing'[s] # None
    BY <1>1, <1>3
  <2> QED  BY <1>1, <2>1 DEF Feed
<1>5. Feed(s) = shown[s] \o <<Head(queue[s])>> \o Tail(queue[s])
  <2>1. Feed(s) = shown[s] \o <<>> \o queue[s]
    BY <1>2 DEF Feed
  <2> QED  BY <1>1, <1>3, <2>1, ConcatTaken
<1> QED  BY <1>1, <1>4, <1>5, SameFeed

\* So does one that was written.
LEMMA WriteLoyal ==
  ASSUME Sound, [Next]_vars, NEW s \in Sessions, Loyal(s), Write(s)
  PROVE  Loyal(s)'
<1>1. /\ pc[s] = "writing" /\ UNCHANGED <<publishing, queue, history>>
      /\ shown'[s] = Append(shown[s], writing[s]) /\ writing'[s] = None
      /\ pc'[s] = "streaming"
  BY DEF Write, Move, Sound, TypeOK
<1>2. writing[s] \in Records /\ shown[s] \in Seq(Records)
  BY <1>1 DEF Sound, TypeOK
<1>3. shown[s] \o <<writing[s]>> = Append(shown[s], writing[s])
      /\ Append(shown[s], writing[s]) \o <<>> = Append(shown[s], writing[s])
  BY <1>2
<1>4. Feed(s)' = Feed(s)
  BY <1>1, <1>2, <1>3 DEF Feed
<1> QED  BY <1>1, <1>4, SameFeed

\* A client that leaves may leave a record half written.
LEMMA LeaveLoyal ==
  ASSUME Sound, [Next]_vars, NEW s \in Sessions, Loyal(s), Leave(s)
  PROVE  Loyal(s)'
<1>1. /\ pc[s] \in {"streaming", "writing"} /\ UNCHANGED <<publishing, queue, shown, history>>
      /\ writing'[s] = None /\ pc'[s] = "leaving"
  BY DEF Leave, Move, Sound, TypeOK
<1>2. shown[s] \in Seq(Records) /\ queue[s] \in Seq(Records)
      /\ writing[s] \in Records \cup {None}
  BY DEF Sound, TypeOK
<1>3. Feed(s)' = shown[s] \o queue[s]
  BY <1>1, <1>2 DEF Feed
<1>4. CASE writing[s] = None
  <2>1. Feed(s) = shown[s] \o queue[s]
    BY <1>2, <1>4 DEF Feed
  <2> QED  BY <1>1, <1>3, <2>1, SameFeed
<1>5. CASE writing[s] # None
  <2>1. Feed(s) = shown[s] \o <<writing[s]>> \o queue[s]
    BY <1>5 DEF Feed
  <2>2. Ascends(Feed(s)') /\ ToSet(Feed(s)) = ToSet(Feed(s)') \cup {writing[s]}
    BY <1>2, <1>3, <1>5, <2>1, DropAscends DEF Loyal
  <2> QED  BY <1>1, <2>2, ShorterFeed
<1> QED  BY <1>4, <1>5

\* Connections and the mutex leave the feeds alone.
LEMMA LockingLoyal ==
  ASSUME Sound, [Next]_vars, NEW s \in Sessions, Loyal(s), NEW x \in Sessions,
         Connect(x) \/ Locking(x)
  PROVE  Loyal(s)'
<1>1. UNCHANGED <<publishing, stream, history>>
  BY DEF Connect, Locking, Claim, Subscribe, Unsubscribe, Close
<1>2. \/ pc'[s] = pc[s]
      \/ pc[s] = "idle" /\ pc'[s] = "joining"
      \/ pc[s] = "joining" /\ pc'[s] = "streaming"
      \/ pc'[s] \in {"closing", "gone"} /\ pc[s] \in {"leaving", "closing"}
  BY DEF Connect, Locking, Claim, Subscribe, Unsubscribe, Close, Move, Sound, TypeOK
<1>3. Feed(s)' = Feed(s)
  BY <1>1 DEF Feed, stream
<1> QED  BY <1>1, <1>2, <1>3, SameFeed DEF Loyal, stream

\* A handler that streams touches its own session only.
LEMMA HandlerLoyal ==
  ASSUME Sound, [Next]_vars, NEW s \in Sessions, Loyal(s), NEW x \in Sessions,
         Streaming(x) \/ Leave(x)
  PROVE  Loyal(s)'
<1>1. CASE x = s
  BY <1>1, SkipLoyal, ReceiveLoyal, WriteLoyal, LeaveLoyal DEF Streaming
<1>2. CASE x # s
  <2>1. /\ UNCHANGED <<publishing, history>>
        /\ pc'[s] = pc[s] /\ queue'[s] = queue[s] /\ writing'[s] = writing[s]
        /\ shown'[s] = shown[s]
    BY <1>2 DEF Streaming, Leave, Skip, Receive, Write, Take, Move, Sound, TypeOK
  <2> QED  BY <2>1, OthersLoyal
<1> QED  BY <1>1, <1>2

\* Every step keeps every feed loyal.
LEMMA LoyalStep ==
  ASSUME Sound, [Next]_vars, \A s \in Sessions : Loyal(s)
  PROVE  \A s \in Sessions : Loyal(s)'
<1> SUFFICES ASSUME NEW s \in Sessions PROVE Loyal(s)'
  OBVIOUS
<1>1. Loyal(s)
  OBVIOUS
<1>2. ASSUME NEW p \in Publishers, Call(p) \/ Publish(p) PROVE Loyal(s)'
  BY <1>1, <1>2, CallLoyal, RLockLoyal, SendLoyal, RUnlockLoyal DEF Publish
<1>3. ASSUME NEW x \in Sessions, Connect(x) \/ Locking(x) \/ Streaming(x) \/ Leave(x)
      PROVE  Loyal(s)'
  BY <1>1, <1>3, LockingLoyal, HandlerLoyal
<1>4. CASE UNCHANGED vars
  <2>1. UNCHANGED <<publishing, history, pc, queue, writing, shown>>
    BY <1>4 DEF vars, stream
  <2> QED  BY <1>1, <2>1, OthersLoyal
<1> QED  BY <1>2, <1>3, <1>4 DEF Next

\* Initially every feed is empty.
LEMMA LoyalInit ==
  ASSUME Init, NEW s \in Sessions
  PROVE  Loyal(s)
<1>1. Feed(s) = <<>>
  BY DEF Init, Feed
<1>2. Len(Feed(s)) = 0 /\ ToSet(Feed(s)) = {}
  BY <1>1 DEF ToSet
<1> QED  BY <1>2 DEF Loyal, Ascends, Init

\* What a client is shown of the records published while its session lasts is in
\* order, once each, and complete but for those that found its channel full.
THEOREM FeedCorrect == Spec => []FeedFaithful
<1> DEFINE AllLoyal == \A s \in Sessions : Loyal(s)
<1>1. Init => AllLoyal
  BY LoyalInit
<1>2. Sound /\ AllLoyal /\ [Next]_vars => AllLoyal'
  BY LoyalStep
<1>3. AllLoyal => FeedFaithful
  BY DEF Loyal, Ascends, Accounted, FeedFaithful
<1> QED  BY <1>1, <1>2, <1>3, AlwaysSound, PTL DEF Spec
=============================================================================
