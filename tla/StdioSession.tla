---------------------------- MODULE StdioSession ----------------------------
(***************************************************************************)
(* How the stdio proxy of a single server ends: the end of file that       *)
(* travels from the client to the server and back, the errors that stop a  *)
(* forwarder, and runStdio, which waits for both forwarders and then for   *)
(* the server.  Pipes hold little; whoever writes into a full one waits.   *)
(*                                                                         *)
(*   client --fromClient--> f1 --toServer----> server                      *)
(*   client <---toClient--- f2 <--fromServer-- server                      *)
(*                                                                         *)
(* Nothing ends a forwarder but its own input and its own errors: main.go  *)
(* handles no signal, so that the context is never cancelled.              *)
(*                                                                         *)
(* The names are not those of StdioProxy, so that one module can extend    *)
(* both, see StdioProxyProofs.                                             *)
(***************************************************************************)
EXTENDS Naturals, Sequences

CONSTANTS
  Frames,   \* how many frames the client writes at most
  Capacity, \* how many frames a pipe holds
  Faults    \* of a run: "client", "server", "budget", "store"

ASSUME StdioSessionAssumption == Frames \in Nat /\ Capacity \in Nat \ {0}

VARIABLES
  client,     \* "open"; "closed": its stdin is; "gone": its stdout is, too
  sent,       \* counts the frames it wrote
  fromClient, toServer,   \* the frames in the stdin of the proxy, and of the server
  fromServer, toClient,   \* the frames in the stdout of the server, and of the proxy
  inOpen,     \* whether f1 may still write to toServer
  outOpen,    \* whether stdout is open at the side of the proxy
  server,     \* "ready", "working", "exited" in order or "died"
  f1, f2,     \* where the two forwarders are
  main,       \* runStdio: "running", "ended" or "killed"
  passed,     \* history: frames of the client that reached the server or were refused
  answers,    \* history: frames the server wrote
  delivered   \* history: those of them that f2 wrote to stdout

sessionPipes == <<fromClient, toServer, fromServer, toClient, inOpen, outOpen>>
sessionForwarders == <<f1, f2>>
history == <<passed, answers, delivered>>
sessionVars == <<client, sent, sessionPipes, server, sessionForwarders, main, history>>

\* A frame is whole, or was broken off by the end of its writer.
Frame == {"whole", "cut"}
Gone == {"exited", "died"}
Over == {"returned", "failed"}

InitSession ==
  /\ client = "open" /\ sent = 0
  /\ fromClient = <<>> /\ toServer = <<>> /\ fromServer = <<>> /\ toClient = <<>>
  /\ inOpen = TRUE /\ outOpen = TRUE
  /\ server = "ready"
  /\ f1 = "read" /\ f2 = "read"
  /\ main = "running"
  /\ passed = 0 /\ answers = 0 /\ delivered = 0

HasRoom(pipe) == Len(pipe) < Capacity

-----------------------------------------------------------------------------
(* The client and the server.                                              *)

WriteFrame ==
  /\ client = "open" /\ sent < Frames /\ HasRoom(fromClient)
  /\ fromClient' = Append(fromClient, "whole")
  /\ sent' = sent + 1
  /\ UNCHANGED <<client, toServer, fromServer, toClient, inOpen, outOpen, server,
                 sessionForwarders, main, history>>

ReadStdout ==
  /\ client # "gone" /\ toClient # <<>>
  /\ toClient' = Tail(toClient)
  /\ UNCHANGED <<client, sent, fromClient, toServer, fromServer, inOpen, outOpen, server,
                 sessionForwarders, main, history>>

\* The client is done, or reads the end of its session from stdout.
CloseStdin ==
  /\ client = "open"
  /\ client' = "closed"
  /\ UNCHANGED <<sent, sessionPipes, server, sessionForwarders, main, history>>

SeesEnd == ~outOpen /\ toClient = <<>>

\* The client dies, perhaps in the middle of a frame.
ClientDies ==
  /\ "client" \in Faults /\ client # "gone"
  /\ client' = "gone"
  /\ \/ UNCHANGED fromClient
     \/ client = "open" /\ HasRoom(fromClient) /\ fromClient' = Append(fromClient, "cut")
  /\ UNCHANGED <<sent, toServer, fromServer, toClient, inOpen, outOpen, server,
                 sessionForwarders, main, history>>

ServerReads ==
  /\ server = "ready" /\ toServer # <<>>
  /\ server' = "working"
  /\ toServer' = Tail(toServer)
  /\ UNCHANGED <<client, sent, fromClient, fromServer, toClient, inOpen, outOpen,
                 sessionForwarders, main, history>>

ServerReplies ==
  /\ server = "working" /\ HasRoom(fromServer)
  /\ server' = "ready"
  /\ fromServer' = Append(fromServer, "whole")
  /\ answers' = answers + 1
  /\ UNCHANGED <<client, sent, fromClient, toServer, toClient, inOpen, outOpen,
                 sessionForwarders, main, passed, delivered>>

\* A server ends when its input does, as the protocol has it.
ServerExits ==
  /\ server = "ready" /\ toServer = <<>> /\ ~inOpen
  /\ server' = "exited"
  /\ UNCHANGED <<client, sent, sessionPipes, sessionForwarders, main, history>>

\* It dies, perhaps in the middle of a frame.
ServerDies ==
  /\ "server" \in Faults /\ server \notin Gone
  /\ server' = "died"
  /\ toServer' = <<>>
  /\ \/ UNCHANGED fromServer
     \/ HasRoom(fromServer) /\ fromServer' = Append(fromServer, "cut")
  /\ UNCHANGED <<client, sent, fromClient, toClient, inOpen, outOpen, sessionForwarders,
                 main, history>>

-----------------------------------------------------------------------------
(* forwardStdio, client to server.                                         *)

Running == main = "running"

Read1 ==
  /\ Running /\ f1 = "read" /\ fromClient # <<>>
  /\ fromClient' = Tail(fromClient)
  /\ f1' = IF Head(fromClient) = "cut" THEN "failed" ELSE "budget"
  /\ UNCHANGED <<client, sent, toServer, fromServer, toClient, inOpen, outOpen, server,
                 f2, main, history>>

\* Mutant: the end of the input is not passed on.
End1Mutant ==
  /\ Running /\ f1 = "read" /\ fromClient = <<>> /\ client # "open"
  /\ f1' = "returned"
  /\ UNCHANGED <<client, sent, sessionPipes, server, f2, main, history>>

\* At the end of its input a forwarder closes its output.
End1 ==
  /\ Running /\ f1 = "read" /\ fromClient = <<>> /\ client # "open"
  /\ f1' = "returned" /\ inOpen' = FALSE
  /\ UNCHANGED <<client, sent, fromClient, toServer, fromServer, toClient, outOpen,
                 server, f2, main, history>>

Admit ==
  /\ Running /\ f1 = "budget"
  /\ f1' = "write"
  /\ UNCHANGED <<client, sent, sessionPipes, server, f2, main, history>>

Write1 ==
  /\ Running /\ f1 = "write" /\ server \notin Gone /\ HasRoom(toServer)
  /\ toServer' = Append(toServer, "whole")
  /\ passed' = passed + 1
  /\ f1' = "read"
  /\ UNCHANGED <<client, sent, fromClient, fromServer, toClient, inOpen, outOpen, server,
                 f2, main, answers, delivered>>

\* EPIPE.
Write1Fails ==
  /\ Running /\ f1 = "write" /\ server \in Gone
  /\ f1' = "failed"
  /\ UNCHANGED <<client, sent, sessionPipes, server, f2, main, history>>

\* The budget refuses: the error goes to stdout, and the blocked call to the
\* store.  If either fails the forwarder returns the error.
RefuseFrame ==
  /\ Running /\ f1 = "budget" /\ "budget" \in Faults
  /\ client # "gone" /\ outOpen /\ HasRoom(toClient)
  /\ toClient' = Append(toClient, "whole")
  /\ passed' = passed + 1
  /\ f1' \in {"read"} \cup IF "store" \in Faults THEN {"failed"} ELSE {}
  /\ UNCHANGED <<client, sent, fromClient, toServer, fromServer, inOpen, outOpen, server,
                 f2, main, answers, delivered>>

\* f2 has closed stdout.
RefuseFails ==
  /\ Running /\ f1 = "budget" /\ "budget" \in Faults
  /\ ~outOpen
  /\ f1' = "failed"
  /\ UNCHANGED <<client, sent, sessionPipes, server, f2, main, history>>

-----------------------------------------------------------------------------
(* forwardStdio, server to client.                                         *)

Read2 ==
  /\ Running /\ f2 = "read" /\ fromServer # <<>>
  /\ fromServer' = Tail(fromServer)
  /\ f2' = IF Head(fromServer) = "cut" THEN "failed" ELSE "write"
  /\ UNCHANGED <<client, sent, fromClient, toServer, toClient, inOpen, outOpen, server,
                 f1, main, history>>

\* Mutant: the server is waited for while frames of it are unread.
End2Mutant ==
  /\ Running /\ f2 = "read" /\ server \in Gone
  /\ f2' = "returned" /\ outOpen' = FALSE
  /\ UNCHANGED <<client, sent, fromClient, toServer, fromServer, toClient, inOpen, server,
                 f1, main, history>>

End2 ==
  /\ Running /\ f2 = "read" /\ fromServer = <<>> /\ server \in Gone
  /\ f2' = "returned" /\ outOpen' = FALSE
  /\ UNCHANGED <<client, sent, fromClient, toServer, fromServer, toClient, inOpen, server,
                 f1, main, history>>

Write2 ==
  /\ Running /\ f2 = "write" /\ client # "gone" /\ HasRoom(toClient)
  /\ toClient' = Append(toClient, "whole")
  /\ delivered' = delivered + 1
  /\ f2' = "read"
  /\ UNCHANGED <<client, sent, fromClient, toServer, fromServer, inOpen, outOpen, server,
                 f1, main, passed, answers>>

-----------------------------------------------------------------------------
(* runStdio.                                                               *)

\* What remains when the process is gone: the server loses its input.
Exit(how) == main' = how /\ inOpen' = FALSE /\ outOpen' = FALSE

\* A write to a broken standard output ends a Go program.
Sigpipe ==
  /\ Running /\ client = "gone"
  /\ \/ f2 = "write"
     \/ f1 = "budget" /\ "budget" \in Faults /\ outOpen
  /\ Exit("killed")
  /\ UNCHANGED <<client, sent, fromClient, toServer, fromServer, toClient, server,
                 sessionForwarders, history>>

BothOver == f1 \in Over /\ f2 \in Over

\* Both forwarders have returned and the server has been waited for.
Finish ==
  /\ Running /\ BothOver /\ server \in Gone
  /\ Exit("ended")
  /\ UNCHANGED <<client, sent, fromClient, toServer, fromServer, toClient, server,
                 sessionForwarders, history>>

Forward1 == Read1 \/ End1 \/ Admit \/ Write1 \/ Write1Fails \/ RefuseFrame \/ RefuseFails
Forward2 == Read2 \/ End2 \/ Write2
Server == ServerReads \/ ServerReplies \/ ServerExits

NextSession ==
  \/ WriteFrame \/ ReadStdout \/ CloseStdin \/ ClientDies
  \/ Server \/ ServerDies
  \/ Forward1 \/ Forward2 \/ Sigpipe \/ Finish

SpecSession == InitSession /\ [][NextSession]_sessionVars

\* The goroutines run, the client reads and leaves a session that has ended,
\* the server works and ends with its input.  Nothing else must happen.
FairSession ==
  /\ SpecSession
  /\ WF_sessionVars(Forward1) /\ WF_sessionVars(Forward2) /\ WF_sessionVars(Sigpipe \/ Finish)
  /\ WF_sessionVars(ReadStdout) /\ WF_sessionVars(CloseStdin /\ SeesEnd)
  /\ WF_sessionVars(Server)

-----------------------------------------------------------------------------
(* Properties.                                                             *)

\* Every variable has its type.
SessionTypeOK ==
  /\ client \in {"open", "closed", "gone"} /\ sent \in 0 .. Frames
  /\ \A p \in {fromClient, toServer, fromServer, toClient} :
       p \in Seq(Frame) /\ Len(p) <= Capacity
  /\ inOpen \in BOOLEAN /\ outOpen \in BOOLEAN
  /\ server \in {"ready", "working"} \cup Gone
  /\ f1 \in {"read", "budget", "write"} \cup Over /\ f2 \in {"read", "write"} \cup Over
  /\ main \in {"running", "ended", "killed"}

\* A session that ends by itself, with no forwarder failed, has lost nothing:
\* the server got or the budget refused every frame of the client, and the
\* client got every answer of the server.
NothingCutOff ==
  main = "ended" /\ f1 = "returned" /\ f2 = "returned"
  => passed = sent /\ delivered = answers

\* The proxy outlives neither end of its session, whichever ends first and
\* however full the pipes are, unless a forwarder fails while the ends live:
\* runStdio goes on waiting for the other forwarder then, until both ends are
\* gone.
Failed == f2 = "failed" \/ (f1 = "failed" /\ server \notin Gone)
SessionEnds ==
  /\ []~Failed => ((client # "open" \/ server \in Gone) ~> main # "running")
  /\ (client = "gone" /\ server \in Gone) ~> main # "running"
=============================================================================
