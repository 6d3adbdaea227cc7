---------------------------- MODULE MCHostDraft ----------------------------
(***************************************************************************)
(* Small instances of HostDraft for TLC: one control below the root, one   *)
(* below the fixed object, and a list of at most two items.                *)
(***************************************************************************)
EXTENDS HostDraft, TLC

CONSTANTS top, field, v1, v2, t1, tx

MCControl == {top, field}
MCParse == (t1 :> v1) @@ (tx :> Unparsable)
MCNoOptions == <<>>
MCListSeed == <<v2>>

Tree0(atTop, group, atField, list, values) ==
  [value |-> (top :> atTop) @@ (field :> atField),
   group |-> group, list |-> list, items |-> values]

MCGroupSeed == Tree0(Absent, "object", v1, "array", <<v1>>)
MCHostData ==
  { Tree0(v1, "object", v1, "array", <<v1, v2>>),
    Tree0(v1, "object", Absent, "array", <<v2>>),
    Tree0(Absent, "absent", Absent, "absent", <<>>) }
=============================================================================
