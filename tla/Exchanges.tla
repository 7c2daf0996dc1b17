----------------------------- MODULE Exchanges ------------------------------
(***************************************************************************)
(* What the proxies promise of the traces they keep, with no mention of    *)
(* ids, of a table keyed by them, of clocks or of queues: a call is opened *)
(* once, when its request is captured, and closed at most once, by one     *)
(* message that becomes one trace with it.  A call that waits may be       *)
(* dropped at any time, and one whose capture fails is never opened: in    *)
(* both cases nothing is taken for its answer any more.                    *)
(***************************************************************************)
CONSTANTS
  Calls,   \* what a client may call
  Entries, \* the traces there may be
  None     \* the call of a trace that is about a message only

VARIABLES
  begun, \* the calls whose capture was tried
  open,  \* those of them that wait for the message that closes them
  log    \* the traces

Init == begun = {} /\ open = {} /\ log = {}

\* No trace is about c yet.
NoTrace(c) == \A u \in log : u.call # c

\* A request is captured; other calls may be given up at that moment.
Open(c) ==
  /\ c \notin begun /\ NoTrace(c)
  /\ begun' = begun \cup {c}
  /\ c \in open' /\ open' \subseteq open \cup {c}
  /\ UNCHANGED log

\* The capture of a request fails.
Miss(c) ==
  /\ c \notin begun /\ c \notin open
  /\ begun' = begun \cup {c}
  /\ UNCHANGED <<open, log>>

Drop == open' \subseteq open /\ UNCHANGED <<begun, log>>

\* One trace, of a message that has none.
Enter(t) ==
  /\ \A u \in log : u.message # t.message
  /\ log' = log \cup {t}
  /\ UNCHANGED begun

\* The message that is taken for the answer.
Close(t) ==
  /\ t.call \in open /\ NoTrace(t.call)
  /\ open' \subseteq open \ {t.call}
  /\ Enter(t)

\* A call that is refused was never opened, and never will be.
Refuse(t) ==
  /\ t.call \notin begun /\ NoTrace(t.call)
  /\ t.message[1] = "refusal"
  /\ open' \subseteq open
  /\ Enter(t)

\* Any other message.
Alone(t) ==
  /\ t.call = None
  /\ open' \subseteq open
  /\ Enter(t)

Next ==
  \/ \E c \in Calls : Open(c) \/ Miss(c)
  \/ Drop
  \/ \E t \in Entries : Close(t) \/ Refuse(t) \/ Alone(t)

Spec == Init /\ [][Next]_<<begun, open, log>>
=============================================================================
