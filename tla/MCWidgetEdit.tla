---------------------------- MODULE MCWidgetEdit ----------------------------
(***************************************************************************)
(* A small instance of WidgetEdit: two values, a text that is another      *)
(* spelling of the first, one that is too long, and one that does not      *)
(* parse; two options.                                                     *)
(***************************************************************************)
EXTENDS WidgetEdit, TLC

CONSTANTS v1, v2, t1, t1b, t2, tl, tx

MCTexts == {Blank, t1, t1b, t2, tl, tx}
MCTextValues == {v1, v2}
MCParse == (Blank :> Absent) @@ (t1 :> v1) @@ (t1b :> v1) @@ (t2 :> v2)
           @@ (tl :> v2) @@ (tx :> Unparsable)
MCTooLong == {tl}
MCSpelled == (v1 :> t1) @@ (v2 :> t2)
MCOptions == {"left", "right"}
=============================================================================
