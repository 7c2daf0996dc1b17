----------------------------- MODULE TraceStore -----------------------------
(***************************************************************************)
(* How traces are stored and swept: persistTraceRecord of internal/proxy   *)
(* over the traces table of internal/store.  Every capture of every worker *)
(* and every POST to /api/ingest runs it in a goroutine of its own: insert *)
(* the trace, delete what is older than the retention age, trim to the     *)
(* trace cap.  Nothing holds the three statements together, each may fail  *)
(* (the context of a request whose client hung up is enough), and the      *)
(* first failure skips the rest.  The record was published before, see     *)
(* module EventHub.                                                        *)
(***************************************************************************)
EXTENDS Naturals, FiniteSets

CONSTANTS
  Records,  \* the traces of a run
  Sdk,      \* those that an SDK posts, with a timestamp and an id of its choice
  IdOf,     \* the primary key of each; a retried POST repeats it
  MaxAge,   \* RetentionMaxAge; 0 turns it off
  MaxCount, \* MaxTraceCount; 0 turns it off
  MaxTime,  \* the clock stops here
  Faults    \* the disturbances of a run: "store", "future"

Times == 0 .. MaxTime

ASSUME TraceStoreAssumption ==
  /\ IsFiniteSet(Records) /\ Sdk \subseteq Records
  /\ MaxAge \in Nat /\ MaxCount \in Nat /\ MaxTime \in Nat

VARIABLES
  now,     \* the clock
  rows,    \* the traces table
  created, \* created_at of each trace
  pc       \* where each persistTraceRecord is

vars == <<now, rows, created, pc>>

\* Ended without an insert: "rejected"; ended between insert and trim: "unswept".
Ended == {"done", "rejected", "unswept"}
Places == {"idle", "insert", "expire", "trim"} \cup Ended

Init ==
  /\ now = 0
  /\ rows = {}
  /\ created = [r \in Records |-> 0]
  /\ pc = [r \in Records |-> "idle"]

Goto(r, from, to) == pc[r] = from /\ pc' = [pc EXCEPT ![r] = to]

-----------------------------------------------------------------------------
\* The timestamp of an SDK is taken as it is, even from the future.
Dates(r) ==
  IF r \notin Sdk THEN {now} ELSE IF "future" \in Faults THEN Times ELSE 0 .. now

\* A request is received: its trace will carry this time, whenever the answer
\* comes.
Receive(r) ==
  /\ Goto(r, "idle", "insert")
  /\ \E t \in Dates(r) : created' = [created EXCEPT ![r] = t]
  /\ UNCHANGED <<now, rows>>

Taken(r) == \E x \in rows : IdOf[x] = IdOf[r]

Insert(r) ==
  /\ Goto(r, "insert", "expire")
  /\ ~Taken(r)
  /\ rows' = rows \cup {r}
  /\ UNCHANGED <<now, created>>

\* The id is in the table already, or the store fails.
InsertFails(r) ==
  /\ Goto(r, "insert", "rejected")
  /\ Taken(r) \/ "store" \in Faults
  /\ UNCHANGED <<now, rows, created>>

Older(x, r) == created[x] + MaxAge < created[r]

\* DeleteOlderThan: the cutoff is counted from the time of the new record.
Expire(r) ==
  /\ Goto(r, "expire", "trim")
  /\ rows' = IF MaxAge > 0 THEN {x \in rows : ~Older(x, r)} ELSE rows
  /\ UNCHANGED <<now, created>>

\* Mutant: the oldest are kept.
NewestMutant(keep) ==
  /\ keep \subseteq rows
  /\ Cardinality(keep) = MaxCount
  /\ \A x \in keep, y \in rows \ keep : created[x] <= created[y]

\* ORDER BY created_at DESC LIMIT -1 OFFSET keep: which of two traces of the
\* same time stays is up to SQLite.
Newest(keep) ==
  /\ keep \subseteq rows
  /\ Cardinality(keep) = MaxCount
  /\ \A x \in keep, y \in rows \ keep : created[x] >= created[y]

\* Mutant: the trim leaves one trace too many.
TrimMutant(r) ==
  /\ Goto(r, "trim", "done")
  /\ IF MaxCount > 0 /\ Cardinality(rows) > MaxCount + 1
     THEN \E keep \in SUBSET rows : Newest(keep) /\ rows' = keep
     ELSE UNCHANGED rows
  /\ UNCHANGED <<now, created>>

Trim(r) ==
  /\ Goto(r, "trim", "done")
  /\ IF MaxCount > 0 /\ Cardinality(rows) > MaxCount
     THEN \E keep \in SUBSET rows : Newest(keep) /\ rows' = keep
     ELSE UNCHANGED rows
  /\ UNCHANGED <<now, created>>

\* DeleteOlderThan or TrimToCount fails: the trace stays, unswept.
SweepFails(r) ==
  /\ "store" \in Faults
  /\ pc[r] \in {"expire", "trim"}
  /\ Goto(r, pc[r], "unswept")
  /\ UNCHANGED <<now, rows, created>>

Tick ==
  /\ now < MaxTime
  /\ now' = now + 1
  /\ UNCHANGED <<rows, created, pc>>

Persist(r) ==
  Insert(r) \/ InsertFails(r) \/ Expire(r) \/ Trim(r) \/ SweepFails(r)

Next == (\E r \in Records : Receive(r) \/ Persist(r)) \/ Tick

Spec == Init /\ [][Next]_vars

-----------------------------------------------------------------------------
(* Properties.                                                             *)

\* Every variable has its type, and the primary key is one.
TypeOK ==
  /\ now \in Times
  /\ rows \subseteq Records
  /\ \A x, y \in rows : x # y => IdOf[x] # IdOf[y]
  /\ created \in [Records -> Times]
  /\ pc \in [Records -> Places]

\* The traces whose insert has not been followed by their own trim.
Unswept == {r \in Records : pc[r] \in {"expire", "trim", "unswept"}}

\* "trace cap": the table passes maxTraces by at most one trace for every
\* persistTraceRecord that is under way or was cut short.  Once a quiet table
\* was swept without errors, the cap holds.
CapHeld == MaxCount > 0 => Cardinality(rows) <= MaxCount + Cardinality(Unswept)

\* The traces that passed their insert.
Inserted == {r \in Records : pc[r] \in {"expire", "trim", "done", "unswept"}}

\* How late it is: by the clock, or by the date that an SDK gave to a trace that
\* was inserted.
Claimed == {now} \cup {created[r] : r \in Sdk \cap Inserted}

Outlived(x) == MaxAge > 0 /\ \E t \in Claimed : created[x] + MaxAge < t

Outnumbered(x) ==
  MaxCount > 0 /\ Cardinality({y \in rows \ {x} : created[y] >= created[x]}) >= MaxCount

\* "trace retention duration": a stored trace is deleted only when it is older
\* than retainFor, or when maxTraces others are at least as young.  Older, by the
\* clock, unless an SDK dates a trace ahead of it: that takes what is too old at
\* its date, however young by the clock, and only once it is inserted itself.
OnlyOldDeleted == [][\A x \in rows \ rows' : Outlived(x) \/ Outnumbered(x)]_vars
=============================================================================
