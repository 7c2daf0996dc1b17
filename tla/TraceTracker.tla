---------------------------- MODULE TraceTracker ----------------------------
(***************************************************************************)
(* The request/response pairing of internal/proxy (traceTracker): a table  *)
(* of the requests whose response has not been captured, keyed by the      *)
(* JSON-RPC id.  Operators only: the proxies apply them, each in one step, *)
(* because Record runs under the tracker's mutex.                          *)
(***************************************************************************)
EXTENDS Naturals

CONSTANTS
  Ids,        \* JSON-RPC ids
  StaleAfter, \* age at which a pending request is dropped: 15 minutes
  None        \* no request under that id

NothingPending == [i \in Ids |-> None]

\* Mutant: the boundary counts as stale.
FreshMutant(pending, t) ==
  [i \in Ids |-> IF pending[i] # None /\ pending[i].at + StaleAfter <= t
                 THEN None ELSE pending[i]]

\* evictStaleLocked, run before every record with the time of that record.
Fresh(pending, t) ==
  [i \in Ids |-> IF pending[i] # None /\ pending[i].at + StaleAfter < t
                 THEN None ELSE pending[i]]

\* A client's message with a method: it replaces whatever had its id.
Remember(pending, id, request, t) ==
  [Fresh(pending, t) EXCEPT ![id] = request]

\* Mutant: a matched request is left in the table.
ForgetMutant(pending, id, t) == Fresh(pending, t)

\* Mutant: a match empties the table.
ForgetAllMutant(pending, id, t) == NothingPending

\* A server's message: the request under its id, if any, leaves the table ...
Forget(pending, id, t) == [Fresh(pending, t) EXCEPT ![id] = None]

\* Mutant: the message is paired with any request that is pending.
MatchMutant(pending, id, t) ==
  IF \E i \in Ids : Fresh(pending, t)[i] # None
  THEN Fresh(pending, t)[CHOOSE i \in Ids : Fresh(pending, t)[i] # None]
  ELSE None

\* ... and makes one trace with it.
Match(pending, id, t) == Fresh(pending, t)[id]
=============================================================================
