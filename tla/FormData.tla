------------------------------ MODULE FormData ------------------------------
(***************************************************************************)
(* The canonical form data of a form, and the operations on it that the    *)
(* engine composes: setting and taking a bound value, and counting the     *)
(* items of a bound array.                                                 *)
(*                                                                         *)
(* The data is the JSON value of one generated definition that has every   *)
(* kind of bound node the engine tells apart:                              *)
(*                                                                         *)
(*   { top controls ..., "group": { grouped controls ..., "list": [..] } } *)
(*                                                                         *)
(*   - static controls, bound below the root object or below "group";      *)
(*   - "group", a fixed object, which may be absent or hold another shape; *)
(*   - "list", an array inside the fixed object, every item of which is    *)
(*     the value of one item-template control; with Options # <<>> it is a *)
(*     multiple choice over these options, in option order.                *)
(*                                                                         *)
(* Scalars are compared as json_values_equal compares them: two values the *)
(* engine treats as equal (1 and 1.0) are one element of Value.            *)
(***************************************************************************)
EXTENDS Naturals, Sequences, FiniteSets

CONSTANTS
  Control,       \* the static controls
  Grouped,       \* those of them that are bound below the fixed object
  ItemTemplate,  \* the control of the item template of the list
  TextControl,   \* the controls edited as text: string, number and integer
  Nullable,      \* the controls that accept null
  Value,         \* the non-null scalars compatible with the controls
  Null,          \* JSON null
  Mismatch,      \* a scalar or structure no control is compatible with
  Absent,        \* the absence of a value
  Options,       \* the choices of the list; <<>> unless it is multiple choice
  MinItems,      \* minItems of the list, 0 when not declared
  MaxItems       \* maxItems of the list

ASSUME FormDataAssumption ==
  /\ Grouped \subseteq Control
  /\ ItemTemplate \notin Control
  /\ TextControl \subseteq Control \cup {ItemTemplate}
  /\ Nullable \subseteq Control \cup {ItemTemplate}
  /\ Null \notin Value
  /\ Mismatch \notin Value \cup {Null}
  /\ Absent \notin Value \cup {Null, Mismatch}
  /\ Options \in Seq(Value)
  /\ MinItems \in Nat
  /\ MaxItems \in Nat
-----------------------------------------------------------------------------
Scalar == Value \cup {Null, Mismatch}

(* "mismatch" is a present value of another shape than the node's.         *)
Data ==
  [ value : [Control -> Scalar \cup {Absent}],
    group : {"absent", "mismatch", "object"},
    list  : {"absent", "mismatch", "array"},
    items : Seq(Scalar) ]

(* What a JSON tree is: nothing is present below a value that is absent or *)
(* no object, and only an array has items.                                 *)
IsTree(d) ==
  /\ d.group # "object" =>
       /\ \A c \in Grouped : d.value[c] = Absent
       /\ d.list = "absent"
  /\ d.list # "array" => d.items = <<>>

Tree == {d \in Data : IsTree(d)}

MultipleChoice == Options # <<>>

(* binding_parent_is_object, for the binding of a control and of the list. *)
ParentIsObject(d, c) == c \in Grouped => d.group = "object"
ListParentIsObject(d) == d.group = "object"

(* control_value_is_compatible: null is compatible where it is accepted.   *)
Accepts(c, v) == v \in Value \/ (v = Null /\ c \in Nullable)

(* set_bound_value and take_bound_value at the binding of a control.       *)
SetControl(d, c, v) == [d EXCEPT !.value[c] = v]
TakeControl(d, c) == [d EXCEPT !.value[c] = Absent]

(* The same at the fixed object, whose new contents are those of g, ...    *)
SetGroup(d, g) ==
  [d EXCEPT !.value = [c \in Control |-> IF c \in Grouped THEN g.value[c]
                                                          ELSE d.value[c]],
            !.group = "object",
            !.list  = g.list,
            !.items = g.items]
(* Mutant: only the object goes, what lies below it is left behind.        *)
TakeGroupAlone(d) == [d EXCEPT !.group = "absent"]
TakeGroup(d) ==
  [d EXCEPT !.value = [c \in Control |-> IF c \in Grouped THEN Absent
                                                          ELSE d.value[c]],
            !.group = "absent",
            !.list  = "absent",
            !.items = <<>>]

(* ... and at the list.                                                    *)
SetList(d, values) == [d EXCEPT !.list = "array", !.items = values]
TakeList(d) == [d EXCEPT !.list = "absent", !.items = <<>>]

(* The values of the list, and their number as resolve(..).map_or(0, len). *)
Count(d) == Len(d.items)

(* The position of a value among the options, 0 if it is none of them.     *)
OptionPosition(v) ==
  IF \E k \in 1..Len(Options) : Options[k] = v
  THEN CHOOSE k \in 1..Len(Options) :
         Options[k] = v /\ \A j \in 1..k - 1 : Options[j] # v
  ELSE 0

(* Mutant: a toggled choice always goes to the end.                        *)
InsertionAtEnd(values, k) == Len(values) + 1

(* Where toggling includes the option at position k: before the first item *)
(* whose option comes later, else at the end.                              *)
InsertionPoint(values, k) ==
  LET later == {i \in 1..Len(values) : OptionPosition(values[i]) > k}
  IN  IF later = {} THEN Len(values) + 1
      ELSE CHOOSE i \in later : \A j \in later : i <= j

(* The one enumeration of the positions I in ascending order.              *)
Ascending(I) ==
  {p \in [1..Cardinality(I) -> I] :
     \A j, k \in 1..Cardinality(I) : j < k => p[j] < p[k]}
=============================================================================
