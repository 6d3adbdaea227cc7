---------------------------- MODULE MCFormFacade ----------------------------
(***************************************************************************)
(* Small instances of FormFacade for TLC: one nullable control below the   *)
(* fixed object, one below the root, and a list of at most two items.      *)
(***************************************************************************)
EXTENDS FormFacade, TLC

CONSTANTS top, field, v1, v2, t1, tx

MCControl == {top, field}
MCParse == (t1 :> v1) @@ (tx :> Unparsable)
MCBlockedParse == (tx :> Unparsable)
MCNoOptions == <<>>
MCListSeed == <<>>

Tree0(atTop, group, atField, list, values) ==
  [value |-> (top :> atTop) @@ (field :> atField),
   group |-> group, list |-> list, items |-> values]

MCGroupSeed == Tree0(Absent, "object", v1, "array", <<v1>>)
MCHostData ==
  { Tree0(v1, "object", Null, "array", <<v1, v1>>),
    Tree0(v1, "object", Absent, "array", <<v1, v2>>) }
MCWriteSets == {{}, {field}, {"group"}, {"root"}}

(* A schema that wants a field, which is not v2, and two equal items.      *)
MCViolationsOf(d) ==
  (IF d.value[field] \in {Absent, v2} THEN {At(field)} ELSE {})
    \cup {AtItem(i) : i \in {i \in 2..Count(d) : d.items[i] # d.items[1]}}

Blocking(l) == [at |-> l, blocking |-> TRUE]
Advisory(l) == [at |-> l, blocking |-> FALSE]
MCFinding == {Blocking(AtItem(1)), Advisory(AtItem(2)), Advisory(At("root"))}
MCBatches ==
  {{}, {Blocking(AtItem(1)), Advisory(AtItem(2))}, {Advisory(At("root"))}}
MCUserBatches == {{}, {Blocking(AtItem(1)), Advisory(AtItem(2))}}
MCHostBatches == {{Blocking(AtItem(1)), Advisory(AtItem(2))}}
MCHostWrites == {{field}, {"root"}}
MCHostDocuments ==
  { Tree0(v1, "object", Null, "array", <<v1, v2>>),
    Tree0(v1, "object", Absent, "array", <<v1>>) }
MCImmediate == {[validation |-> "immediate", external |-> "immediate"]}
(* A multiple choice, with data out of order and a value that is no option.*)
MCOptions == <<v1, v2>>
MCChoiceData ==
  { Tree0(v1, "object", v1, "array", <<v2, v1>>),
    Tree0(v1, "object", Null, "array", <<Mismatch>>) }
MCPolicies ==
  {[validation |-> "immediate", external |-> "immediate"],
   [validation |-> "touched", external |-> "submission"]}
=============================================================================
