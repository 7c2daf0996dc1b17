--------------------------- MODULE MCSchemaCheck ----------------------------
(***************************************************************************)
(* Instances of SchemaCheck for TLC: one tool, a field with a field inside *)
(* it, and one beside it.                                                  *)
(***************************************************************************)
EXTENDS SchemaCheck, TLC

Outer == <<"a">>
Inner == <<"a", "b">>
Beside == <<"c">>
TwoTypes == {"object", "string"}

Leaf == [type : {"string"}, req : BOOLEAN]
Node == [type : TwoTypes, req : BOOLEAN]

\* All the schemas whose inner field has an object around it.
Schemas ==
  {s \in UNION {[fs -> Node] : fs \in SUBSET {Outer, Inner, Beside}} :
     /\ Inner \in DOMAIN s => /\ Outer \in DOMAIN s /\ s[Outer].type = "object"
                              /\ s[Inner] \in Leaf
     /\ Beside \in DOMAIN s => s[Beside] \in Leaf}

AllVersions == {NoTools} \cup {("t" :> s) : s \in Schemas}
=============================================================================
