---------------------------- MODULE MCSupervisor ----------------------------
(***************************************************************************)
(* Instances of Supervisor for TLC: ten ports, two or three servers.       *)
(***************************************************************************)
EXTENDS Supervisor

Name(word, numbers) == [word |-> word, numbers |-> numbers]
Url(word, numbers) == [kind |-> "url", base |-> Name(word, numbers)]
Binary(word) == [kind |-> "binary", base |-> Name(word, <<>>)]
Blank == [kind |-> "blank", base |-> Name("server", <<>>)]

\* Different names, the same name twice, a name that falls together with it,
\* and an empty value.
UrlFleets ==
  {<<Url("a", <<>>), Url("b", <<1>>)>>, <<Url("a", <<>>), Url("a", <<>>)>>,
   <<Url("a", <<>>), Url("a", <<>>), Url("a", <<2>>)>>, <<Url("a", <<>>), Blank>>}

BinaryFleets == {<<Url("a", <<>>), Binary("b")>>}

AllFleets == UrlFleets \cup BinaryFleets

SomeNames == {Name("a", <<>>), Name("a", <<2>>), Name("b", <<>>)}
=============================================================================
