---------------------------- MODULE MCStdioProxy ----------------------------
(***************************************************************************)
(* Instances of StdioProxy for TLC: three calls of the client, and one     *)
(* question that the server asks while it works on the first.              *)
(***************************************************************************)
EXTENDS StdioProxy, TLC

CONSTANTS c1, c2, c3, s1

\* Both sides count from one.
BothCountIds == (c1 :> 1) @@ (c2 :> 2) @@ (c3 :> 3) @@ (s1 :> 1)

ServesFirst == (s1 :> c1)

LastRefused == {<<"request", c3>>}

\* A call whose log line may fail, and an answer and a refusal whose trace the
\* store may not take.
LogMayFail == {<<"request", c1>>}
StoreMayFail == {<<"result", c2>>, <<"refusal", c3>>}
=============================================================================
