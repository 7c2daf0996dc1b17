----------------------------- MODULE SchemaDiff -----------------------------
(***************************************************************************)
(* mcpscope diff: what it says of two snapshots of tool schemas.           *)
(*                                                                         *)
(* A field is its path, a sequence of names.  A schema maps its fields,    *)
(* whose parents are all fields of type "object", to their type and to     *)
(* whether the parent's "required" lists them.  A snapshot maps the names  *)
(* of tools to schemas.                                                    *)
(***************************************************************************)
EXTENDS Naturals, Sequences, SequencesExt, FiniteSets

\* A field counts as required if it, or a field above it, is listed.
Flatten(schema) ==
  [p \in DOMAIN schema |->
     [type |-> schema[p].type,
      required |-> \E q \in DOMAIN schema : IsPrefix(q, p) /\ schema[q].req]]

\* Mutant: only a field whose type changes as well is looked at.
NewRequiredMutant(base, cur) ==
  {p \in DOMAIN base \cap DOMAIN cur :
     ~base[p].required /\ cur[p].required /\ base[p].type # cur[p].type}

NewRequired(base, cur) ==
  {p \in DOMAIN base \cap DOMAIN cur : ~base[p].required /\ cur[p].required}

CompareToolSchemas(baseline, current) ==
  LET base == Flatten(baseline)  cur == Flatten(current) IN
  [added |-> DOMAIN cur \ DOMAIN base,
   removed |-> DOMAIN base \ DOMAIN cur,
   changed |-> {p \in DOMAIN base \cap DOMAIN cur : base[p].type # cur[p].type},
   newRequired |-> NewRequired(base, cur),
   noLongerReq |-> NewRequired(cur, base)]

NoChange == [added |-> {}, removed |-> {}, changed |-> {}, newRequired |-> {},
             noLongerReq |-> {}]

\* Mutant: tools that are still there count as removed.
CompareSnapshotsMutant(baseline, current) ==
  LET both == DOMAIN baseline \cap DOMAIN current
      compared == [t \in both |-> CompareToolSchemas(baseline[t], current[t])] IN
  [added |-> DOMAIN current \ DOMAIN baseline,
   removed |-> DOMAIN baseline,
   changed |-> [t \in {x \in both : compared[x] # NoChange} |-> compared[t]]]

CompareSnapshots(baseline, current) ==
  LET both == DOMAIN baseline \cap DOMAIN current
      compared == [t \in both |-> CompareToolSchemas(baseline[t], current[t])] IN
  [added |-> DOMAIN current \ DOMAIN baseline,
   removed |-> DOMAIN baseline \ DOMAIN current,
   changed |-> [t \in {x \in both : compared[x] # NoChange} |-> compared[t]]]

HasBreakingChanges(baseline, current, diff) ==
  \/ diff.removed # {}
  \/ \E t \in DOMAIN diff.changed :
       LET base == Flatten(baseline[t])  cur == Flatten(current[t]) IN
       \/ \E p \in diff.changed[t].removed \cup diff.changed[t].changed : base[p].required
       \/ diff.changed[t].newRequired # {}
       \/ \E p \in diff.changed[t].added : cur[p].required

-----------------------------------------------------------------------------
(* What a schema means to a caller, by JSON Schema.                        *)

Parent(p) == Front(p)
Present(arg, p) == p = <<>> \/ p \in DOMAIN arg

\* The arguments that callers of a schema may send: some of its fields, those
\* inside another one only in an object.
Arguments(schema, types) ==
  LET sent == {fs \in SUBSET DOMAIN schema :
                 \A p \in fs : Parent(p) = <<>> \/ Parent(p) \in fs} IN
  {arg \in UNION {[fs -> types] : fs \in sent} :
     \A p \in DOMAIN arg : Parent(p) = <<>> \/ arg[Parent(p)] = "object"}

\* Fields that the schema requires in an argument and that are not there.
Missing(schema, arg) ==
  {p \in DOMAIN schema : /\ schema[p].req /\ p \notin DOMAIN arg
                         /\ Parent(p) = <<>> \/ (Parent(p) \in DOMAIN arg
                                                 /\ arg[Parent(p)] = "object")}

Mistyped(schema, arg) ==
  {p \in DOMAIN schema \cap DOMAIN arg : arg[p] # schema[p].type}

Accepts(schema, arg) == Missing(schema, arg) = {} /\ Mistyped(schema, arg) = {}

\* Fields for the lack of which the current schema refuses what the baseline
\* accepts, and fields whose type it no longer accepts.
NowMissing(baseline, current, types) ==
  UNION {Missing(current, arg) :
           arg \in {x \in Arguments(baseline, types) : Accepts(baseline, x)}}

NowMistyped(baseline, current, types) ==
  UNION {Mistyped(current, arg) :
           arg \in {x \in Arguments(baseline, types) : Accepts(baseline, x)}}
=============================================================================
