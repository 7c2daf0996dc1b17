---------------------------- MODULE TraceReader -----------------------------
(***************************************************************************)
(* Paging through the stored traces: a client of /api/traces (the Load     *)
(* More button of the dashboard, or page and per_page, which count the     *)
(* same offsets) asks for a page, then for the one at next_offset, until   *)
(* has_more is false.  Each page is one SELECT, and between two pages the  *)
(* captures of module TraceStore insert, expire and trim traces.           *)
(***************************************************************************)
EXTENDS TraceStore

CONSTANTS
  Wanted, \* the traces that match the filter of the query
  Limit   \* limit, or per_page: 1 to 200

ASSUME TraceReaderAssumption == Wanted \subseteq Records /\ Limit \in Nat \ {0}

VARIABLES
  reader, \* "new", "more" when the last page had more after it, or "ended"
  offset, \* next_offset of the last page
  shown,  \* the traces on the pages so far
  kept    \* history: the traces wanted that were stored all along, from the first page

readerVars == <<reader, offset, shown, kept>>
allVars == <<vars, readerVars>>

InitReader ==
  /\ Init
  /\ reader = "new" /\ offset = 0 /\ shown = {} /\ kept = {}

-----------------------------------------------------------------------------
Found == rows \cap Wanted

\* Mutant: ascending order.
FirstMutant(s, from, n) ==
  /\ s \subseteq from
  /\ Cardinality(s) = IF n < Cardinality(from) THEN n ELSE Cardinality(from)
  /\ \A x \in s, y \in from \ s : created[x] <= created[y]

\* ORDER BY created_at DESC: s are the n first of them, or all if there are fewer.
\* Which of two traces of the same time comes first can differ in every query.
First(s, from, n) ==
  /\ s \subseteq from
  /\ Cardinality(s) = IF n < Cardinality(from) THEN n ELSE Cardinality(from)
  /\ \A x \in s, y \in from \ s : created[x] >= created[y]

\* LIMIT n OFFSET k of the rows found.
Selects(s, k, n) ==
  \E before \in SUBSET Found : First(before, Found, k) /\ First(s, Found \ before, n)

\* handleTraceList: one more than the limit is asked for, to know has_more.
Page ==
  /\ reader \in {"new", "more"}
  /\ \E selected \in SUBSET Found, items \in SUBSET Found :
       /\ Selects(selected, offset, Limit + 1)
       /\ First(items, selected, Limit)
       /\ reader' = IF Cardinality(selected) > Limit THEN "more" ELSE "ended"
       /\ offset' = offset + Cardinality(items)
       /\ shown' = shown \cup items
  /\ kept' = IF reader = "new" THEN Found ELSE kept
  /\ UNCHANGED vars

\* Everything else that happens to the table.
Store ==
  /\ Next
  /\ kept' = kept \cap rows'
  /\ UNCHANGED <<reader, offset, shown>>

NextReader == Page \/ Store

SpecReader == InitReader /\ [][NextReader]_allVars

-----------------------------------------------------------------------------
(* Properties.                                                             *)

\* No other trace that the reader wants has its time.
Distinct(x) ==
  \A y \in Wanted \ {x} : pc[y] # "idle" => created[y] # created[x]

\* A trace that is stored from the first page to the last is on one of them,
\* however many are inserted, at whatever time, and deleted between the pages: what
\* is deleted is always at the end of the list, and what is inserted only moves
\* others to later pages.
NothingSkipped ==
  reader = "ended" => \A x \in kept : Distinct(x) => x \in shown
=============================================================================
