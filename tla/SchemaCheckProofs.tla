-------------------------- MODULE SchemaCheckProofs --------------------------
(***************************************************************************)
(* Proofs about SchemaCheck, for any snapshots, types and faults, and any  *)
(* number of stray frames.                                                 *)
(***************************************************************************)
EXTENDS SchemaCheck, TLAPS

-----------------------------------------------------------------------------
(* The difference of two snapshots.                                        *)

\* A schema whose fields are paths.
Schema(s) == DOMAIN s \subseteq Seq(STRING)

\* What a check that passes has made sure of for one tool.
Harmless(b, c) ==
  LET base == Flatten(b)  cur == Flatten(c) IN
  /\ \A p \in DOMAIN b \ DOMAIN c : ~base[p].required
  /\ \A p \in DOMAIN b \cap DOMAIN c : /\ b[p].type # c[p].type => ~base[p].required
                                       /\ cur[p].required => base[p].required
  /\ \A p \in DOMAIN c \ DOMAIN b : ~cur[p].required

\* Without a breaking change no tool is gone and every tool changed harmlessly.
LEMMA NothingBroken ==
  ASSUME NEW b, NEW c, ~HasBreakingChanges(b, c, CompareSnapshots(b, c)), NEW t \in DOMAIN b
  PROVE  t \in DOMAIN c /\ Harmless(b[t], c[t])
<1> DEFINE diff == CompareSnapshots(b, c)
           tool == CompareToolSchemas(b[t], c[t])
<1>1. diff.removed = DOMAIN b \ DOMAIN c
  BY DEF CompareSnapshots
<1>2. t \in DOMAIN c
  BY <1>1 DEF HasBreakingChanges
<1>3. tool # NoChange => t \in DOMAIN diff.changed /\ diff.changed[t] = tool
  BY <1>2 DEF CompareSnapshots
<1>4. /\ \A p \in tool.removed \cup tool.changed : ~Flatten(b[t])[p].required
      /\ tool.newRequired = {}
      /\ \A p \in tool.added : ~Flatten(c[t])[p].required
  <2>1. CASE tool = NoChange
    BY <2>1 DEF NoChange
  <2>2. CASE tool # NoChange
    <3> HIDE DEF diff, tool
    <3>1. ~HasBreakingChanges(b, c, diff)
      BY DEF diff
    <3> QED  BY <1>3, <2>2, <3>1 DEF HasBreakingChanges
  <2> QED  BY <2>1, <2>2
<1>5. Harmless(b[t], c[t])
  BY <1>4 DEF CompareToolSchemas, NewRequired, Harmless, Flatten
<1> QED  BY <1>2, <1>5

\* A snapshot compared with itself shows no breaking change.
LEMMA NothingChanged ==
  ASSUME NEW b
  PROVE  ~HasBreakingChanges(b, b, CompareSnapshots(b, b))
<1>1. \A t \in DOMAIN b : CompareToolSchemas(b[t], b[t]) = NoChange
  BY DEF CompareToolSchemas, NewRequired, NoChange
<1>2. CompareSnapshots(b, b).removed = {}
  BY DEF CompareSnapshots
<1>3. DOMAIN CompareSnapshots(b, b).changed = {}
  BY <1>1 DEF CompareSnapshots
<1> QED  BY <1>2, <1>3 DEF HasBreakingChanges

\* A field that is listed as required is required.
LEMMA ListedIsRequired ==
  ASSUME NEW s, Schema(s), NEW p \in DOMAIN s, s[p].req
  PROVE  Flatten(s)[p].required
<1>1. IsPrefix(p, p)
  BY DEF Schema, IsPrefix
<1> QED  BY <1>1 DEF Flatten

\* What callers could send before a harmless change is refused after it only for
\* want of a field inside a required one, or for the type of an optional one.
LEMMA HarmlessToCallers ==
  ASSUME NEW b, NEW c, Schema(c), Harmless(b, c), NEW types
  PROVE  /\ \A p \in NowMissing(b, c, types) :
              \E q \in DOMAIN b : IsStrictPrefix(q, p) /\ b[q].req
         /\ \A p \in NowMistyped(b, c, types) : ~Flatten(b)[p].required
<1> DEFINE sent(arg) == arg \in Arguments(b, types) /\ Accepts(b, arg)
<1>1. ASSUME NEW arg, sent(arg), NEW p \in Missing(c, arg)
      PROVE  \E q \in DOMAIN b : IsStrictPrefix(q, p) /\ b[q].req
  <2>1. /\ p \in DOMAIN c /\ c[p].req /\ p \notin DOMAIN arg
        /\ Parent(p) = <<>> \/ (Parent(p) \in DOMAIN arg /\ arg[Parent(p)] = "object")
    BY <1>1 DEF Missing
  <2>2. Flatten(c)[p].required
    BY <2>1, ListedIsRequired
  <2>3. p \in DOMAIN b /\ Flatten(b)[p].required
    BY <2>1, <2>2 DEF Harmless
  <2>4. PICK q \in DOMAIN b : IsPrefix(q, p) /\ b[q].req
    BY <2>3 DEF Flatten
  <2>5. q # p
    BY <1>1, <2>1, <2>3, <2>4 DEF Accepts, Missing
  <2> QED  BY <2>4, <2>5 DEF IsStrictPrefix
<1>2. ASSUME NEW arg, sent(arg), NEW p \in Mistyped(c, arg)
      PROVE  ~Flatten(b)[p].required
  <2>1. p \in DOMAIN c /\ p \in DOMAIN arg /\ arg[p] # c[p].type
    BY <1>2 DEF Mistyped
  <2>2. p \in DOMAIN b
    BY <1>2, <2>1 DEF Arguments
  <2>3. arg[p] = b[p].type
    BY <1>2, <2>1, <2>2 DEF Accepts, Mistyped
  <2> QED  BY <2>1, <2>2, <2>3 DEF Harmless
<1> QED  BY <1>1, <1>2 DEF NowMissing, NowMistyped

-----------------------------------------------------------------------------
(* The conversation.                                                       *)

Tools == Versions \cup {NoTools}
Messages == {"initialize", "initialized", "tools/list"}
Frames == [kind : {"result", "error", "message", "empty"}, tools : Tools]

\* Every variable has its type.
TypeOK ==
  /\ transport \in Transports /\ server \in Versions
  /\ stage \in Stages \cup {"diff", "ended"}
  /\ pc \in Running \cup {"ended"}
  /\ asked \in Seq(Messages)
  /\ outbox \in Seq(Frames)
  /\ stray \in 0 .. MaxStray
  /\ files \in [Stages -> Tools] /\ served \in [Stages -> Tools]
  /\ exit \in 0 .. 3
  /\ lied \in BOOLEAN

Unasked == \A i \in DOMAIN outbox : outbox[i].kind = "message"
OneReply == \A i, j \in DOMAIN outbox :
              outbox[i].kind # "message" /\ outbox[j].kind # "message" => i = j

\* How much of what the client said is still unanswered.
Nothing == Len(asked) = 0
Only(m) == Len(asked) = 1 /\ asked[1] = m

\* Who speaks next, and what is left of what was said: a message of the client
\* that waits for its answer is the last one, and while it is unanswered only
\* what nobody asked for is on its way.
Conversation ==
  /\ pc \in {"initialize", "notify"} => Nothing /\ Unasked
  /\ pc = "await initialize" => \/ Only("initialize") /\ Unasked
                                \/ Nothing /\ OneReply
  /\ pc = "await ack" => /\ transport = "http"
                         /\ \/ Only("initialized") /\ Unasked
                            \/ Nothing /\ OneReply
  /\ pc = "tools" => /\ Unasked
                     /\ Nothing \/ (Only("initialized") /\ transport = "stdio")
  /\ pc = "await tools" =>
       \/ /\ Len(asked) = 2 /\ asked[1] = "initialized" /\ asked[2] = "tools/list"
          /\ transport = "stdio" /\ Unasked
       \/ Only("tools/list") /\ Unasked
       \/ /\ Nothing
          /\ \A i \in DOMAIN outbox :
               outbox[i].kind = "result" => outbox[i].tools = served[stage]
  /\ pc = "ended" => Nothing
  /\ transport = "http" => \A i \in DOMAIN outbox : outbox[i].kind # "message"

\* What was written is what was served last.
Written ==
  /\ pc = "ended" <=> stage \notin Stages
  /\ \A s \in Stages : files[s] \in {NoTools, served[s]}
  /\ stage = "baseline" => files["baseline"] = NoTools
  /\ stage \in Stages => files["current"] = NoTools
  /\ stage = "current" => files["baseline"] = served["baseline"]
  /\ stage = "diff" \/ exit \in {0, 1} => \A s \in Stages : files[s] = served[s]
  /\ exit \in {0, 1} => stage = "ended"

\* The exit code is the verdict on the two files.
Judged ==
  /\ exit = 0 => ~HasBreakingChanges(files["baseline"], files["current"],
                     CompareSnapshots(files["baseline"], files["current"]))
  /\ exit = 1 => HasBreakingChanges(files["baseline"], files["current"],
                     CompareSnapshots(files["baseline"], files["current"]))

Honest == ~lied => Conversation /\ Written /\ Judged

\* What taking a frame out of the outbox leaves.
LEMMA FrameRead ==
  ASSUME TypeOK, outbox # <<>>
  PROVE  /\ Head(outbox) \in Frames
         /\ 1 \in DOMAIN outbox /\ Head(outbox) = outbox[1]
         /\ Head(outbox).kind # "message" => ~Unasked
         /\ outbox' = Tail(outbox)
              => /\ outbox' \in Seq(Frames)
                 /\ \A i \in DOMAIN outbox' : i + 1 \in DOMAIN outbox /\ outbox'[i] = outbox[i + 1]
                 /\ OneReply /\ Head(outbox).kind # "message" => Unasked'
<1>1. outbox \in Seq(Frames)
  BY DEF TypeOK
<1>2. /\ Head(outbox) = outbox[1] /\ 1 \in DOMAIN outbox /\ Head(outbox) \in Frames
      /\ outbox' = Tail(outbox) =>
           \A i \in DOMAIN outbox' : i + 1 \in DOMAIN outbox /\ i + 1 # 1
                                     /\ outbox'[i] = outbox[i + 1]
  BY <1>1
<1>3. outbox' = Tail(outbox) /\ OneReply /\ Head(outbox).kind # "message" => Unasked'
  BY <1>2 DEF OneReply, Unasked
<1> QED  BY <1>1, <1>2, <1>3 DEF Unasked

\* What putting one into it leaves.
LEMMA FrameWritten ==
  ASSUME TypeOK, NEW f \in Frames, outbox' = Append(outbox, f)
  PROVE  /\ outbox' \in Seq(Frames)
         /\ Unasked => OneReply'
         /\ f.kind = "message" /\ Unasked => Unasked'
         /\ f.kind = "message" /\ OneReply => OneReply'
         /\ \A i \in DOMAIN outbox' : outbox'[i] = f \/ (i \in DOMAIN outbox /\ outbox'[i] = outbox[i])
<1>1. outbox \in Seq(Frames)
  BY DEF TypeOK
<1>2. \A i \in DOMAIN outbox' : \/ i = Len(outbox) + 1 /\ outbox'[i] = f
                                \/ i \in DOMAIN outbox /\ outbox'[i] = outbox[i]
  BY <1>1
<1>3. Unasked => OneReply'
  BY <1>2 DEF Unasked, OneReply
<1>4. f.kind = "message" /\ Unasked => Unasked'
  BY <1>2 DEF Unasked
<1>5. f.kind = "message" /\ OneReply => OneReply'
  BY <1>2 DEF OneReply
<1> QED  BY <1>1, <1>2, <1>3, <1>4, <1>5

LEMMA Settings == MaxStray \in Nat /\ Transports \subseteq {"stdio", "http"}
BY SchemaCheckAssumption

LEMMA EmptySeqFacts ==
  /\ \A S : <<>> \in Seq(S)
  /\ Len(<<>>) = 0 /\ DOMAIN <<>> = {}
OBVIOUS

LEMMA SeqFacts ==
  ASSUME NEW S, NEW q \in Seq(S)
  PROVE  /\ Len(q) \in Nat
         /\ q = <<>> <=> Len(q) = 0
         /\ \A m \in S : /\ Append(q, m) \in Seq(S) /\ Len(Append(q, m)) = Len(q) + 1
                         /\ Append(q, m)[Len(q) + 1] = m
                         /\ \A i \in 1 .. Len(q) : Append(q, m)[i] = q[i]
         /\ q # <<>> => /\ Head(q) = q[1] /\ Head(q) \in S
                        /\ Tail(q) \in Seq(S) /\ Len(Tail(q)) = Len(q) - 1
                        /\ \A i \in 1 .. Len(q) - 1 : Tail(q)[i] = q[i + 1]
OBVIOUS

\* What the client's queue is after a message was put in, or the first taken out.
LEMMA AskedFacts ==
  ASSUME TypeOK
  PROVE  /\ asked \in Seq(Messages) /\ Len(asked) \in Nat /\ (asked = <<>> <=> Nothing)
         /\ asked # <<>> => Head(asked) = asked[1]
         /\ asked' = <<>> => Nothing'
         /\ \A m \in Messages : asked' = Append(asked, m) =>
              /\ Nothing => Only(m)'
              /\ Len(asked) = 1 => Len(asked') = 2 /\ asked'[1] = asked[1] /\ asked'[2] = m
         /\ asked # <<>> /\ asked' = Tail(asked) =>
              /\ Len(asked) = 1 => Nothing'
              /\ Len(asked) = 2 => Len(asked') = 1 /\ asked'[1] = asked[2]
<1>1. asked \in Seq(Messages)
  BY DEF TypeOK
<1>2. /\ Len(asked) \in Nat /\ (asked = <<>> <=> Nothing)
      /\ asked # <<>> => Head(asked) = asked[1]
  BY <1>1 DEF Nothing
<1>3. asked' = <<>> => Nothing'
  BY EmptySeqFacts DEF Nothing
<1>4. ASSUME NEW m \in Messages, asked' = Append(asked, m)
      PROVE  /\ Nothing => Only(m)'
             /\ Len(asked) = 1 => Len(asked') = 2 /\ asked'[1] = asked[1] /\ asked'[2] = m
  <2>1. /\ Len(asked') = Len(asked) + 1 /\ asked'[Len(asked) + 1] = m
        /\ \A i \in 1 .. Len(asked) : asked'[i] = asked[i]
    BY <1>1, <1>4
  <2> QED  BY <1>2, <2>1 DEF Nothing, Only
<1>5. ASSUME asked # <<>>, asked' = Tail(asked)
      PROVE  /\ Len(asked) = 1 => Nothing'
             /\ Len(asked) = 2 => Len(asked') = 1 /\ asked'[1] = asked[2]
  <2>1. /\ Len(asked') = Len(asked) - 1
        /\ \A i \in 1 .. Len(asked) - 1 : asked'[i] = asked[i + 1]
    BY <1>1, <1>5
  <2> QED  BY <1>2, <2>1 DEF Nothing, Only
<1> QED  BY <1>1, <1>2, <1>3, <1>4, <1>5

\* An answer consumes a message and writes a frame.
LEMMA AnswerType ==
  ASSUME TypeOK, asked # <<>>, NEW f \in Frames, Answer(f)
  PROVE  asked' \in Seq(Messages) /\ outbox' \in Seq(Frames)
BY FrameWritten DEF TypeOK, Answer

LEMMA FrameType ==
  ASSUME NEW kind \in {"result", "error", "message", "empty"}, NEW tools \in Tools
  PROVE  Frame(kind, tools) \in Frames
BY DEF Frame, Frames

\* Every step keeps the types.
LEMMA TypeStep ==
  ASSUME TypeOK, [Next]_vars
  PROVE  TypeOK'
<1> USE EmptySeqFacts, Settings DEF TypeOK, talk
<1> NoTools \in Tools /\ Stages = {"baseline", "current"}
  BY DEF Tools, Stages
<1>1. ASSUME NEW from, NEW message \in Messages, NEW to \in Running, Write(from, message, to)
      PROVE  TypeOK'
  BY <1>1 DEF Write
<1>2. CASE CallInitialize \/ NotifyInitialized \/ CallToolsList
  BY <1>1, <1>2 DEF CallInitialize, NotifyInitialized, CallToolsList, Running, Messages
<1>3. CASE ReadInitialize \/ ReadAck
  BY <1>3, FrameRead DEF ReadInitialize, ReadAck, Running
<1>4. CASE ReadTools
  <2>1. Head(outbox).tools \in Tools
    BY <1>4, FrameRead DEF ReadTools, Frames
  <2>2. files' \in [Stages -> Tools]
    BY <1>4, <2>1 DEF ReadTools
  <2>3. stage' \in Stages \cup {"diff", "ended"} /\ pc' \in Running \cup {"ended"}
    BY <1>4 DEF ReadTools, Running
  <2>4. asked' \in Seq(Messages) /\ outbox' \in Seq(Frames) /\ stray' \in 0 .. MaxStray
    <3>1. asked' = <<>> /\ outbox' = <<>> /\ stray' = 0
      BY <1>4 DEF ReadTools
    <3> QED  BY <3>1
  <2>5. UNCHANGED <<transport, server, exit, served, lied>>
    BY <1>4 DEF ReadTools
  <2> QED  BY <2>2, <2>3, <2>4, <2>5
<1>5. CASE Fail
  BY <1>5 DEF Fail
<1>7. CASE ServerAnswers
  <2>1. server \in Tools
    BY DEF Tools
  <2>2. served' \in [Stages -> Tools]
    BY <1>7, <2>1 DEF ServerAnswers
  <2>3. asked' \in Seq(Messages) /\ outbox' \in Seq(Frames)
    BY <1>7, <2>1, AnswerType, FrameType DEF ServerAnswers
  <2> QED  BY <1>7, <2>2, <2>3 DEF ServerAnswers
<1>8. CASE ServerRefuses
  BY <1>8, AnswerType, FrameType DEF ServerRefuses
<1>9. CASE ServerNotified
  <2>1. asked' \in Seq(Messages) /\ outbox' \in Seq(Frames)
    <3>1. CASE asked' = Tail(asked) /\ UNCHANGED outbox
      BY <1>9, <3>1 DEF ServerNotified
    <3>2. CASE \E kind \in {"result", "empty"} : Answer(Frame(kind, NoTools))
      BY <1>9, <3>2, AnswerType, FrameType DEF ServerNotified
    <3> QED  BY <1>9, <3>1, <3>2 DEF ServerNotified
  <2>2. lied' \in BOOLEAN
    BY <1>9 DEF ServerNotified
  <2> QED  BY <1>9, <2>1, <2>2 DEF ServerNotified
<1>10. CASE ServerChats
  BY <1>10, FrameWritten, FrameType DEF ServerChats
<1>11. CASE Deploy
  BY <1>11 DEF Deploy
<1>12. CASE Diff
  BY <1>12 DEF Diff
<1>13. CASE UNCHANGED vars
  BY <1>13 DEF vars
<1> QED
  BY <1>2, <1>3, <1>4, <1>5, <1>7, <1>8, <1>9, <1>10, <1>11, <1>12, <1>13
     DEF Next, Client, Server, ReadFails, Timeout

\* Every variable keeps its type.
THEOREM TypeCorrect == Spec => []TypeOK
<1>1. Init => TypeOK
  <2> SUFFICES ASSUME Init  PROVE TypeOK
    OBVIOUS
  <2>1. asked \in Seq(Messages) /\ outbox \in Seq(Frames)
    BY EmptySeqFacts DEF Init
  <2>2. files \in [Stages -> Tools] /\ served \in [Stages -> Tools]
    BY DEF Init, Tools
  <2>3. stray \in 0 .. MaxStray
    <3>1. stray = 0
      BY DEF Init
    <3> QED  BY <3>1, Settings
  <2>4. exit \in 0 .. 3
    <3>1. exit = 3
      BY DEF Init
    <3> QED  BY <3>1
  <2>5. lied \in BOOLEAN
    BY DEF Init
  <2>6. stage \in Stages /\ pc \in Running /\ transport \in Transports /\ server \in Versions
    BY DEF Init, Stages, Running
  <2> QED  BY <2>1, <2>2, <2>3, <2>4, <2>5, <2>6 DEF TypeOK
<1> QED  BY <1>1, TypeStep, PTL DEF Spec

\* The steps of the client keep to the conversation.
LEMMA ClientSpeaks ==
  ASSUME TypeOK, Conversation, Written, Client
  PROVE  Conversation'
<1> USE AskedFacts DEF Conversation, Messages
<1>1. CASE CallInitialize
  <2>1. pc' = "await initialize" /\ Only("initialize")' /\ Unasked'
    BY <1>1 DEF CallInitialize, Write, Unasked
  <2>2. UNCHANGED <<transport, outbox>>
    BY <1>1 DEF CallInitialize, Write
  <2> QED  BY <2>1, <2>2
<1>2. CASE NotifyInitialized
  <2>1. /\ Only("initialized")' /\ Unasked' /\ transport' = transport
        /\ pc' = IF transport = "stdio" THEN "tools" ELSE "await ack"
    BY <1>2 DEF NotifyInitialized, Write, Unasked
  <2>2. transport \in {"stdio", "http"} /\ outbox' = outbox
    BY <1>2, Settings DEF TypeOK, NotifyInitialized, Write
  <2> QED  BY <2>1, <2>2
<1>3. CASE CallToolsList
  <2>1. /\ pc' = "await tools" /\ Unasked' /\ UNCHANGED <<transport, outbox>>
        /\ asked' = Append(asked, "tools/list")
    BY <1>3 DEF CallToolsList, Write, Unasked
  <2>2. CASE Nothing
    <3>1. Only("tools/list")'
      BY <2>1, <2>2
    <3> QED  BY <2>1, <3>1
  <2>3. CASE Only("initialized") /\ transport = "stdio"
    <3>1. Len(asked') = 2 /\ asked'[1] = "initialized" /\ asked'[2] = "tools/list"
      BY <2>1, <2>3 DEF Only
    <3> QED  BY <2>1, <2>3, <3>1
  <2> QED  BY <1>3, <2>2, <2>3 DEF CallToolsList, Write
<1>4. CASE ReadInitialize
  <2>1. /\ pc = "await initialize" /\ pc' = "notify" /\ UNCHANGED <<asked, transport>>
        /\ outbox # <<>> /\ outbox' = Tail(outbox) /\ Head(outbox).kind # "message"
    BY <1>4 DEF ReadInitialize, Decodes
  <2>2. Nothing /\ OneReply
    BY <2>1, FrameRead
  <2>3. Unasked' /\ Nothing'
    BY <2>1, <2>2, FrameRead DEF Nothing
  <2> QED  BY <2>1, <2>3, FrameRead
<1>5. CASE ReadAck
  <2>1. /\ pc = "await ack" /\ pc' = "tools" /\ UNCHANGED <<asked, transport>>
        /\ transport = "http" /\ outbox # <<>> /\ outbox' = Tail(outbox)
    BY <1>5 DEF ReadAck
  <2>2. Head(outbox).kind # "message"
    BY <2>1, FrameRead
  <2>3. Nothing /\ OneReply
    BY <2>1, <2>2, FrameRead
  <2>4. Unasked' /\ Nothing'
    BY <2>1, <2>2, <2>3, FrameRead DEF Nothing
  <2> QED  BY <2>1, <2>4, FrameRead
<1>6. CASE ReadTools
  <2>1. pc' \in {"initialize", "ended"} /\ asked' = <<>> /\ outbox' = <<>>
    BY <1>6 DEF ReadTools
  <2>2. Nothing' /\ Unasked' /\ DOMAIN outbox' = {}
    BY <2>1, EmptySeqFacts DEF Unasked
  <2> QED  BY <2>1, <2>2
<1>7. CASE Fail
  <2>1. pc' = "ended" /\ asked' = <<>> /\ outbox' = <<>>
    BY <1>7 DEF Fail
  <2>2. Nothing' /\ DOMAIN outbox' = {}
    BY <2>1, EmptySeqFacts
  <2> QED  BY <2>1, <2>2
<1>8. CASE Diff
  <2>1. pc' = "ended" /\ pc = "ended" /\ UNCHANGED <<asked, outbox, transport>>
    BY <1>8 DEF Diff, Written, talk, Stages
  <2> QED  BY <2>1 DEF Nothing
<1> QED
  BY <1>1, <1>2, <1>3, <1>4, <1>5, <1>6, <1>7, <1>8 DEF Client, ReadFails, Timeout

\* And so do those of an honest server, which answers what it was asked, once.
LEMMA ServerSpeaks ==
  ASSUME TypeOK, Conversation, Written, Server \/ ServerChats, ~lied, ~lied'
  PROVE  Conversation'
<1> USE AskedFacts DEF Conversation, Messages
<1>1. pc' = pc /\ transport' = transport /\ stage' = stage
  BY DEF Server, ServerAnswers, ServerRefuses, ServerNotified, ServerChats
<1>2. transport \in {"stdio", "http"} /\ pc \in Running \cup {"ended"}
  BY Settings DEF TypeOK
<1>3. CASE ServerChats
  <2>1. /\ outbox' = Append(outbox, Frame("message", NoTools)) /\ transport = "stdio"
        /\ UNCHANGED <<asked, served>>
    BY <1>3 DEF ServerChats
  <2>2. /\ Frame("message", NoTools) \in Frames
        /\ Frame("message", NoTools).kind = "message"
    BY FrameType DEF Frame, Tools
  <2>3. (Unasked => Unasked') /\ (OneReply => OneReply')
    BY <2>1, <2>2, FrameWritten
  <2>4. ASSUME \A i \in DOMAIN outbox : outbox[i].kind = "result" => outbox[i].tools = served[stage]
        PROVE  \A i \in DOMAIN outbox' : outbox'[i].kind = "result" => outbox'[i].tools = served'[stage']
    BY <1>1, <2>1, <2>2, <2>4, FrameWritten
  <2>5. /\ Nothing => Nothing'
        /\ \A m : Only(m) => Only(m)'
    BY <2>1 DEF Nothing, Only
  <2> QED  BY <1>1, <2>1, <2>3, <2>4, <2>5
<1>4. CASE ServerNotified
  <2>1. asked # <<>> /\ asked[1] = "initialized" /\ asked' = Tail(asked)
    BY <1>4 DEF ServerNotified, Answer
  <2>2. CASE transport = "stdio"
    <3>1. UNCHANGED <<outbox, served>>
      BY <1>4, <2>2 DEF ServerNotified
    <3>2. \/ pc = "tools" /\ Only("initialized") /\ Unasked
          \/ pc = "await tools" /\ Len(asked) = 2 /\ asked[2] = "tools/list" /\ Unasked
      BY <1>2, <2>1, <2>2 DEF Running, Only
    <3>3. Unasked'
      BY <3>1, <3>2 DEF Unasked
    <3>4. CASE pc = "tools"
      BY <1>1, <2>1, <2>2, <3>2, <3>3, <3>4 DEF Only
    <3>5. CASE pc = "await tools"
      <4>1. Only("tools/list")'
        BY <2>1, <3>2, <3>5 DEF Only
      <4> QED  BY <1>1, <2>2, <3>3, <3>5, <4>1
    <3> QED  BY <3>2, <3>4, <3>5
  <2>3. CASE transport = "http"
    <3>1. PICK kind \in {"result", "empty"} : outbox' = Append(outbox, Frame(kind, NoTools))
      BY <1>4, <2>3 DEF ServerNotified, Answer
    <3>2. Frame(kind, NoTools) \in Frames /\ Frame(kind, NoTools).kind # "message"
      BY FrameType DEF Tools, Frame
    <3>3. pc = "await ack" /\ Only("initialized") /\ Unasked
      BY <1>2, <2>1, <2>3 DEF Running, Only
    <3>4. Nothing' /\ OneReply'
      BY <2>1, <3>1, <3>2, <3>3, FrameWritten DEF Only
    <3>5. \A i \in DOMAIN outbox' : outbox'[i].kind # "message"
      BY <2>3, <3>1, <3>2, FrameWritten
    <3> QED  BY <1>1, <2>3, <3>3, <3>4, <3>5
  <2> QED  BY <1>2, <2>2, <2>3
<1>5. CASE ServerAnswers \/ ServerRefuses
  <2>1. asked # <<>> /\ asked[1] # "initialized" /\ asked' = Tail(asked)
    BY <1>5 DEF ServerAnswers, ServerRefuses, Answer
  <2>2. /\ Unasked /\ Len(asked) = 1
        /\ \/ pc = "await initialize" /\ asked[1] = "initialize"
           \/ pc = "await tools" /\ asked[1] = "tools/list"
    BY <1>2, <2>1 DEF Running, Only
  <2>3. PICK f \in Frames :
          /\ outbox' = Append(outbox, f) /\ f.kind # "message"
          /\ pc = "await tools" /\ f.kind = "result" => f.tools = served'[stage]
    <3>1. CASE ServerRefuses
      <4>1. Frame("error", NoTools) \in Frames /\ Frame("error", NoTools).kind = "error"
        BY FrameType DEF Tools, Frame
      <4>2. outbox' = Append(outbox, Frame("error", NoTools))
        BY <3>1 DEF ServerRefuses, Answer
      <4> QED  BY <4>1, <4>2
    <3>2. CASE ServerAnswers /\ pc = "await tools"
      <4>1. /\ served' = [served EXCEPT ![stage] = server]
            /\ outbox' = Append(outbox, Frame("result", server))
        BY <2>1, <2>2, <3>2 DEF ServerAnswers, Answer
      <4>2. stage \in Stages
        BY <3>2 DEF Written
      <4>3. /\ Frame("result", server) \in Frames /\ Frame("result", server).tools = server
            /\ Frame("result", server).kind = "result"
        BY FrameType DEF TypeOK, Tools, Frame
      <4>4. served'[stage] = server
        BY <4>1, <4>2 DEF TypeOK
      <4> QED  BY <4>1, <4>3, <4>4
    <3>3. CASE ServerAnswers /\ pc = "await initialize"
      <4>1. Frame("result", NoTools) \in Frames /\ Frame("result", NoTools).kind = "result"
        BY FrameType DEF Tools, Frame
      <4>2. outbox' = Append(outbox, Frame("result", NoTools))
        BY <2>1, <2>2, <3>3 DEF ServerAnswers, Answer
      <4> QED  BY <3>3, <4>1, <4>2
    <3> QED  BY <1>5, <2>2, <3>1, <3>2, <3>3
  <2>4. /\ OneReply' /\ \A i \in DOMAIN outbox' : outbox'[i] = f \/ outbox'[i].kind = "message"
    BY <2>2, <2>3, FrameWritten DEF Unasked
  <2>5. transport = "http" => \A i \in DOMAIN outbox' : outbox'[i].kind # "message"
    BY <2>3, FrameWritten
  <2>6. Nothing'
    BY <2>1, <2>2
  <2>7. CASE pc = "await initialize"
    BY <1>1, <2>4, <2>5, <2>6, <2>7
  <2>8. CASE pc = "await tools"
    BY <1>1, <2>3, <2>4, <2>5, <2>6, <2>8
  <2> QED  BY <2>2, <2>7, <2>8
<1> QED  BY <1>3, <1>4, <1>5 DEF Server

\* A file is only written from what was served, and the baseline's before its
\* tools change.
LEMMA FilesWritten ==
  ASSUME TypeOK, Conversation, Written, Next
  PROVE  Written'
<1> USE DEF Written, Stages
<1>1. CASE CallInitialize \/ NotifyInitialized \/ CallToolsList \/ ReadInitialize \/ ReadAck
  BY <1>1 DEF CallInitialize, NotifyInitialized, CallToolsList, Write, ReadInitialize, ReadAck
<1>2. CASE ReadTools
  <2>1. Head(outbox).tools = served[stage] /\ stage \in Stages
    <3>1. /\ pc = "await tools" /\ outbox # <<>> /\ Head(outbox).kind = "result"
      BY <1>2 DEF ReadTools, Decodes
    <3>2. ~Unasked /\ Head(outbox) = outbox[1] /\ 1 \in DOMAIN outbox
      BY <3>1, FrameRead
    <3> QED  BY <3>1, <3>2 DEF Conversation
  <2> QED  BY <1>2, <2>1 DEF ReadTools, TypeOK
<1>3. CASE Fail
  BY <1>3 DEF Fail
<1>4. CASE Diff
  BY <1>4 DEF Diff
<1>5. CASE ServerAnswers
  <2>1. asked # <<>> /\ stage \in Stages
    BY <1>5, AskedFacts DEF ServerAnswers, Conversation
  <2>2. /\ UNCHANGED <<stage, pc, files, exit>>
        /\ \A s \in Stages \ {stage} : served'[s] = served[s]
    BY <1>5, <2>1 DEF ServerAnswers, TypeOK
  <2> QED  BY <2>1, <2>2
<1>6. CASE ServerRefuses \/ ServerNotified \/ ServerChats \/ Deploy
  BY <1>6 DEF ServerRefuses, ServerNotified, ServerChats, Deploy
<1> QED
  BY <1>1, <1>2, <1>3, <1>4, <1>5, <1>6 DEF Next, Client, Server, ReadFails, Timeout

LEMMA VerdictGiven ==
  ASSUME TypeOK, Written, Judged, Next
  PROVE  Judged'
<1> USE DEF Judged
<1>1. CASE Diff
  BY <1>1 DEF Diff, Written
<1>2. CASE Fail
  BY <1>2 DEF Fail
<1>3. CASE ReadTools
  BY <1>3 DEF ReadTools, Written, TypeOK, Stages
<1>4. CASE Next /\ ~Diff /\ ~ReadTools /\ ~Fail
  <2>1. UNCHANGED <<files, exit>>
    BY <1>4 DEF Next, Client, Server, CallInitialize, NotifyInitialized, CallToolsList, Write,
                ReadInitialize, ReadAck, ReadFails, Timeout, ServerAnswers, ServerRefuses,
                ServerNotified, ServerChats, Deploy
  <2> QED  BY <2>1
<1> QED  BY <1>1, <1>2, <1>3, <1>4

LEMMA HonestStep ==
  ASSUME TypeOK, Honest, [Next]_vars
  PROVE  Honest'
<1>1. CASE UNCHANGED vars
  BY <1>1 DEF vars, talk, Honest, Conversation, Nothing, Only, Unasked, OneReply, Written, Judged
<1>2. CASE Next /\ ~lied'
  <2>1. ~lied
    BY <1>2 DEF Next, Client, Server, CallInitialize, NotifyInitialized, CallToolsList, Write,
                ReadInitialize, ReadAck, ReadTools, ReadFails, Timeout, Fail, Diff,
                ServerAnswers, ServerRefuses, ServerNotified, ServerChats, Deploy
  <2>2. Conversation /\ Written /\ Judged
    BY <2>1 DEF Honest
  <2>3. Deploy => Conversation'
    BY <2>2 DEF Deploy, talk, Conversation, Unasked, Nothing
  <2> QED
    BY <1>2, <2>1, <2>2, <2>3, ClientSpeaks, ServerSpeaks, FilesWritten, VerdictGiven
       DEF Next, Honest
<1> QED  BY <1>1, <1>2 DEF Honest

LEMMA HonestCorrect == Spec => []Honest
<1>1. Init => Honest
  BY EmptySeqFacts DEF Init, Honest, Conversation, Nothing, Unasked, Written, Judged, Stages
<1>2. TypeOK /\ Honest /\ [Next]_vars => Honest'
  BY HonestStep
<1> QED  BY <1>1, <1>2, TypeCorrect, PTL DEF Spec

-----------------------------------------------------------------------------
(* The promises.                                                           *)

\* What was written is what was served, whatever else the server says unasked,
\* unless it answers the notification.
THEOREM SnapshotCorrect == Spec => []SnapshotFaithful
<1>1. Honest => SnapshotFaithful
  BY DEF Honest, Written, SnapshotFaithful
<1> QED  BY <1>1, HonestCorrect, PTL

\* The verdict is about what the two servers have.
LEMMA VerdictAboutServed ==
  ASSUME TypeOK, Honest, ~lied, exit \in {0, 1}
  PROVE  (exit = 1) <=> HasBreakingChanges(served["baseline"], served["current"],
                          CompareSnapshots(served["baseline"], served["current"]))
BY DEF Honest, Written, Judged, Stages

\* A build that serves what the baseline served is never blocked.
THEOREM UnchangedCorrect == Spec => []UnchangedPasses
<1>1. TypeOK /\ Honest => UnchangedPasses
  BY VerdictAboutServed, NothingChanged DEF UnchangedPasses
<1> QED  BY <1>1, TypeCorrect, HonestCorrect, PTL

\* A build that passes has broken no caller, but for what the check cannot see.
THEOREM BreakingCorrect == Spec => []BreakingBlocked
<1>1. TypeOK /\ Honest => BreakingBlocked
  <2> SUFFICES ASSUME TypeOK, Honest, Passed, NEW t \in DOMAIN served["baseline"]
               PROVE  /\ t \in DOMAIN served["current"]
                      /\ LET b == served["baseline"][t]  c == served["current"][t] IN
                         /\ \A p \in NowMissing(b, c, Types) :
                              \E q \in DOMAIN b : IsStrictPrefix(q, p) /\ b[q].req
                         /\ \A p \in NowMistyped(b, c, Types) : ~Flatten(b)[p].required
    BY DEF BreakingBlocked
  <2>1. t \in DOMAIN served["current"] /\ Harmless(served["baseline"][t], served["current"][t])
    BY VerdictAboutServed, NothingBroken DEF Passed
  <2>2. Schema(served["current"][t])
    <3>1. served["current"] \in Tools
      BY DEF TypeOK, Stages
    <3>2. served["current"] # NoTools
      BY <2>1, EmptySeqFacts DEF NoTools
    <3> QED  BY <2>1, <3>1, <3>2, SchemaCheckAssumption DEF Schema, Tools
  <2> QED  BY <2>1, <2>2, HarmlessToCallers
<1> QED  BY <1>1, TypeCorrect, HonestCorrect, PTL
=============================================================================
