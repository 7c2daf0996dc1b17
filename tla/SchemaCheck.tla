---------------------------- MODULE SchemaCheck -----------------------------
(***************************************************************************)
(* A schema check as continuous integration runs it: mcpscope snapshot of  *)
(* the baseline server, later of the current build, then mcpscope diff     *)
(* --exit-code.                                                            *)
(*                                                                         *)
(* A snapshot is a conversation: initialize, notifications/initialized,    *)
(* tools/list.  Over stdio the next frame is taken for the answer, by      *)
(* whatever id; over HTTP every POST has an answer of its own, which has   *)
(* to be JSON.                                                             *)
(***************************************************************************)
EXTENDS SchemaDiff

CONSTANTS
  Versions,   \* the snapshots that a server may deserve
  Types,      \* the types of fields
  Transports, \* subset of {"stdio", "http"}
  Faults,     \* of a run: "chatty", "acks", "error", "silent", "empty", "exit"
  MaxStray    \* frames that a chatty server sends unasked, per snapshot

\* The fields of a schema are paths.
ASSUME SchemaCheckAssumption ==
  /\ MaxStray \in Nat
  /\ Transports \subseteq {"stdio", "http"}
  /\ \A v \in Versions : \A t \in DOMAIN v : DOMAIN v[t] \subseteq Seq(STRING)

NoTools == <<>>

VARIABLES
  transport, \* resolveSnapshotTarget: a command or a URL
  server,    \* the tools that the server has now
  stage,     \* "baseline", "current", "diff", "ended"
  pc,        \* where the snapshot is
  asked,     \* the messages that the server has not handled
  outbox,    \* the frames that the server wrote
  stray,     \* how many of them nobody asked for
  files,     \* the two files
  exit,      \* what the check ends with: 0, 1, or 2 for a command that failed
  served,    \* history: the tools of the server when it answered tools/list
  lied       \* history: it answered a notification

talk == <<asked, outbox, stray>>
vars == <<transport, server, stage, pc, talk, files, exit, served, lied>>

Stages == {"baseline", "current"}
Running == {"initialize", "await initialize", "notify", "await ack",
            "tools", "await tools"}

Init ==
  /\ transport \in Transports
  /\ server \in Versions
  /\ stage = "baseline" /\ pc = "initialize"
  /\ asked = <<>> /\ outbox = <<>> /\ stray = 0
  /\ files = [s \in Stages |-> NoTools]
  /\ served = [s \in Stages |-> NoTools]
  /\ exit = 3 /\ lied = FALSE

Frame(kind, tools) == [kind |-> kind, tools |-> tools]

-----------------------------------------------------------------------------
(* The client: runSnapshotFlow.                                            *)

Write(from, message, to) ==
  /\ pc = from /\ pc' = to
  /\ asked' = Append(asked, message)
  /\ UNCHANGED <<transport, server, stage, outbox, stray, files, exit, served, lied>>

CallInitialize == Write("initialize", "initialize", "await initialize")

\* A notification over stdio is only written; a POST waits for its answer.
NotifyInitialized ==
  Write("notify", "initialized", IF transport = "stdio" THEN "tools" ELSE "await ack")

CallToolsList == Write("tools", "tools/list", "await tools")

\* Mutant: a frame without a result is an empty result.
DecodesMutant(frame) == frame.kind # "error"

\* decodeRPCResult: an error, or no result, ends the snapshot.
Decodes(frame) == frame.kind = "result"

\* The command fails, and the check with it.
Fail ==
  /\ stage' = "ended" /\ pc' = "ended" /\ exit' = 2
  /\ asked' = <<>> /\ outbox' = <<>> /\ stray' = 0
  /\ UNCHANGED <<transport, server, files, served, lied>>

ReadInitialize ==
  /\ pc = "await initialize" /\ outbox # <<>> /\ Decodes(Head(outbox))
  /\ pc' = "notify"
  /\ outbox' = Tail(outbox)
  /\ UNCHANGED <<transport, server, stage, asked, stray, files, exit, served, lied>>

\* The answer to the notification is decoded and forgotten, whatever it says.
ReadAck ==
  /\ pc = "await ack" /\ outbox # <<>> /\ Head(outbox).kind # "empty"
  /\ pc' = "tools"
  /\ outbox' = Tail(outbox)
  /\ UNCHANGED <<transport, server, stage, asked, stray, files, exit, served, lied>>

\* The subprocess, if any, has exited with status 0, its unread frames are lost,
\* and the command writes its file.
ReadTools ==
  /\ pc = "await tools" /\ outbox # <<>> /\ Decodes(Head(outbox))
  /\ files' = [files EXCEPT ![stage] = Head(outbox).tools]
  /\ asked' = <<>> /\ outbox' = <<>> /\ stray' = 0
  /\ IF stage = "baseline" THEN stage' = "current" /\ pc' = "initialize"
                           ELSE stage' = "diff" /\ pc' = "ended"
  /\ UNCHANGED <<transport, server, exit, served, lied>>

\* A frame that will not do; or, over stdio, a server that exits with an error
\* once it has answered.
ReadFails ==
  /\ outbox # <<>>
  /\ \/ pc \in {"await initialize", "await tools"} /\ ~Decodes(Head(outbox))
     \/ pc = "await ack" /\ Head(outbox).kind = "empty"
     \/ pc = "await tools" /\ transport = "stdio" /\ "exit" \in Faults
  /\ Fail

\* Mutant: the timeout covers the last call only.
TimeoutMutant ==
  /\ transport = "http" /\ pc = "await tools" /\ outbox = <<>>
  /\ "silent" \in Faults
  /\ Fail

\* The HTTP client gives up after 15 seconds; the stdio client never does.
Timeout ==
  /\ transport = "http" /\ pc \in {"await initialize", "await ack", "await tools"}
  /\ outbox = <<>> /\ "silent" \in Faults
  /\ Fail

-----------------------------------------------------------------------------
(* The server.                                                             *)

Answer(frame) ==
  /\ asked' = Tail(asked)
  /\ outbox' = Append(outbox, frame)

ServerAnswers ==
  /\ asked # <<>> /\ Head(asked) # "initialized"
  /\ IF Head(asked) = "tools/list"
     THEN /\ served' = [served EXCEPT ![stage] = server]
          /\ Answer(Frame("result", server))
     ELSE /\ Answer(Frame("result", NoTools))
          /\ UNCHANGED served
  /\ UNCHANGED <<transport, server, stage, pc, stray, files, exit, lied>>

ServerRefuses ==
  /\ "error" \in Faults
  /\ asked # <<>> /\ Head(asked) # "initialized"
  /\ Answer(Frame("error", NoTools))
  /\ UNCHANGED <<transport, server, stage, pc, stray, files, exit, served, lied>>

\* Over HTTP a notification is acknowledged, with a body or without one; over
\* stdio only a server that takes it for a call writes anything.
ServerNotified ==
  /\ asked # <<>> /\ Head(asked) = "initialized"
  /\ \/ /\ transport = "stdio"
        /\ asked' = Tail(asked)
        /\ UNCHANGED <<outbox, lied>>
     \/ /\ transport = "stdio" /\ "acks" \in Faults
        /\ Answer(Frame("result", NoTools))
        /\ lied' = TRUE
     \/ /\ transport = "http"
        /\ \E kind \in IF "empty" \in Faults THEN {"result", "empty"} ELSE {"result"} :
             Answer(Frame(kind, NoTools))
        /\ UNCHANGED lied
  /\ UNCHANGED <<transport, server, stage, pc, stray, files, exit, served>>

\* A log message or a request of its own, which has no result.
ServerChats ==
  /\ "chatty" \in Faults /\ transport = "stdio"
  /\ stage \in Stages /\ stray < MaxStray
  /\ stray' = stray + 1
  /\ outbox' = Append(outbox, Frame("message", NoTools))
  /\ UNCHANGED <<transport, server, stage, pc, asked, files, exit, served, lied>>

\* The build under test may have other tools than the baseline.
Deploy ==
  /\ stage = "current" /\ pc = "initialize" /\ asked = <<>>
  /\ server' \in Versions
  /\ UNCHANGED <<transport, stage, pc, talk, files, exit, served, lied>>

-----------------------------------------------------------------------------
Diff ==
  /\ stage = "diff" /\ stage' = "ended"
  /\ LET b == files["baseline"]  c == files["current"] IN
     exit' = IF HasBreakingChanges(b, c, CompareSnapshots(b, c)) THEN 1 ELSE 0
  /\ UNCHANGED <<transport, server, pc, talk, files, served, lied>>

Client == \/ CallInitialize \/ NotifyInitialized \/ CallToolsList
          \/ ReadInitialize \/ ReadAck \/ ReadTools \/ ReadFails \/ Timeout \/ Diff

Server == ServerAnswers \/ ServerRefuses \/ ServerNotified

Next == Client \/ Server \/ ServerChats \/ Deploy

Spec == Init /\ [][Next]_vars

\* The commands run; the server is under no obligation.
FairSpec == Spec /\ WF_vars(Client)

-----------------------------------------------------------------------------
(* Properties.                                                             *)

\* A snapshot that was written holds what the server said its tools are.  A
\* server that talks out of turn makes the command fail, and only one that
\* answers the notification makes it write something else.
SnapshotFaithful ==
  \A s \in Stages : files[s] # NoTools \/ stage = "diff" =>
    files[s] = served[s] \/ lied

Passed == exit = 0 /\ ~lied

\* "Fail the workflow if breaking changes are detected": once the check passes,
\* no tool is gone, and what callers could send before is refused only for want
\* of a field inside one that was required before, or for the type of a field
\* that they could leave out.
BreakingBlocked ==
  Passed => \A t \in DOMAIN served["baseline"] :
    /\ t \in DOMAIN served["current"]
    /\ LET b == served["baseline"][t]  c == served["current"][t] IN
       /\ \A p \in NowMissing(b, c, Types) :
            \E q \in DOMAIN b : IsStrictPrefix(q, p) /\ b[q].req
       /\ \A p \in NowMistyped(b, c, Types) : ~Flatten(b)[p].required

\* A build that did not change its tools is never blocked by a difference.
UnchangedPasses ==
  exit = 1 /\ ~lied => served["baseline"] # served["current"]

\* A check over HTTP ends even if the server falls silent.
HttpCheckEnds == transport = "http" ~> stage = "ended"
=============================================================================
