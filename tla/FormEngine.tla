----------------------------- MODULE FormEngine -----------------------------
(***************************************************************************)
(* The runtime form of crates/schemaform/src/engine.rs: canonical form     *)
(* data, the edit state of every control instance, the stable identities   *)
(* of array items, and the two revisions, under every operation that the   *)
(* facade calls on it.                                                     *)
(*                                                                         *)
(* An operation the engine refuses leaves the form as it was, so a refusal *)
(* is a disabled action.  The operations run to completion one at a time   *)
(* (every one takes &mut self), in any order the caller likes.             *)
(***************************************************************************)
EXTENDS FormData, SequencesExt

CONSTANTS
  Text,         \* what a user can type
  Unparsable,   \* the result of parsing text that is no number
  Parse,        \* the parser of the text controls
  NoText,       \* the absence of an edit buffer
  ItemSeed,     \* the value of a newly appended or inserted item
  ListSeed,     \* the items of a newly materialized list
  GroupSeed,    \* data with the contents of a newly materialized group
  HostData,     \* form data a caller supplies as a whole
  WriteSets,    \* the sets of bindings a host transaction may write
  MaxRevision,  \* bound on the state revision, hence on changing calls
  MaxIdentity   \* bound on the item identities a behaviour allocates

ASSUME FormEngineAssumption ==
  /\ Unparsable \notin Value \cup {Absent}
  /\ Parse \in [Text -> Value \cup {Unparsable}]
  /\ NoText \notin Text
  /\ ItemSeed \in Scalar
  /\ ListSeed \in Seq(Scalar)
  /\ GroupSeed \in Tree /\ GroupSeed.group = "object"
  /\ HostData \subseteq Tree
  /\ WriteSets \subseteq SUBSET (Control \cup {"root", "group", "list"})
  /\ MaxRevision \in Nat
  /\ MaxIdentity \in Nat

VARIABLES
  formData,             \* the canonical form data
  baseline,             \* the form data reset restores
  controls,             \* the edit state of every static control
  items,                \* the item states of the list, in list order
  arrayTouched,         \* whether the multiple choice has been blurred
  baselineIdentities,   \* the item identities reset restores
  nextItemIdentity,     \* the next identity to allocate
  submissionAttempted,  \* whether a submission has been prepared
  dataRevision,         \* advances with the form data
  stateRevision         \* advances with any observable change

topologyVars == <<items, baselineIdentities, nextItemIdentity>>
vars == <<formData, baseline, controls, items, arrayTouched,
          baselineIdentities, nextItemIdentity, submissionAttempted,
          dataRevision, stateRevision>>
-----------------------------------------------------------------------------
(* ControlState: the text being edited, whether that text is blocked from  *)
(* becoming form data because it does not parse, and whether the user has  *)
(* left the control.                                                       *)
ControlState ==
  [buffer : Text \cup {NoText}, blocked : BOOLEAN, touched : BOOLEAN]
ItemState == [identity : Nat, control : ControlState]

Untouched == [buffer |-> NoText, blocked |-> FALSE, touched |-> FALSE]

FinalizeEditBuffer(s) == IF s.blocked THEN s ELSE [s EXCEPT !.buffer = NoText]
ClearEditState(s) == [s EXCEPT !.buffer = NoText, !.blocked = FALSE]

(* fresh_array_items: n item states with the next n identities.            *)
FreshItems(n) ==
  [i \in 1..n |-> [identity |-> nextItemIdentity + i - 1,
                   control  |-> Untouched]]

Identities == [i \in 1..Len(items) |-> items[i].identity]

(* Mutant: the items are counted in the data that is being replaced.       *)
ReconcileWithOldCount(d) ==
  /\ items' = FreshItems(Count(formData))
  /\ nextItemIdentity' = nextItemIdentity + Count(formData)

(* reconcile_authoritative_arrays at or above the list, for new data d.    *)
ReconcileArrays(d) ==
  /\ items' = FreshItems(Count(d))
  /\ nextItemIdentity' = nextItemIdentity + Count(d)

(* Mutant: the state revision advances with the data only.                 *)
AdvanceWithData(dataChanged, stateChanged) ==
  /\ dataRevision' = dataRevision + (IF dataChanged THEN 1 ELSE 0)
  /\ stateRevision' = stateRevision + (IF dataChanged THEN 1 ELSE 0)

AdvanceRevisions(dataChanged, stateChanged) ==
  /\ dataRevision' = dataRevision + (IF dataChanged THEN 1 ELSE 0)
  /\ stateRevision' = stateRevision + (IF stateChanged THEN 1 ELSE 0)

Swap(s, i, j) == [s EXCEPT ![i] = s[j], ![j] = s[i]]
-----------------------------------------------------------------------------
(* create_form.                                                            *)
Init ==
  /\ formData \in HostData
  /\ baseline = formData
  /\ controls = [c \in Control |-> Untouched]
  /\ nextItemIdentity = 1 + Count(formData)
  /\ items = [i \in 1..Count(formData) |-> [identity |-> i,
                                            control  |-> Untouched]]
  /\ arrayTouched = FALSE
  /\ baselineIdentities = [i \in 1..Count(formData) |-> i]
  /\ submissionAttempted = FALSE
  /\ dataRevision = 0
  /\ stateRevision = 0
-----------------------------------------------------------------------------
(* Editing text.  A control takes text over a compatible value, over null  *)
(* where it accepts null, and over an absent value whose parent exists.    *)
TakesText(c, current, parentIsObject) ==
  /\ c \in TextControl
  /\ current = Absent => parentIsObject
  /\ current # Absent => Accepts(c, current)

(* Text that parses to a new value replaces the data; text that does not   *)
(* parse blocks the control; either way the text becomes the edit buffer.  *)
Replaces(text, current) == Parse[text] \notin {Unparsable, current}
Typed(s, text) ==
  [s EXCEPT !.buffer = text, !.blocked = (Parse[text] = Unparsable)]

EditText(c, text) ==
  /\ TakesText(c, formData.value[c], ParentIsObject(formData, c))
  /\ LET replaced == Replaces(text, formData.value[c])
     IN  /\ formData' = IF replaced THEN SetControl(formData, c, Parse[text])
                                    ELSE formData
         /\ controls' = [controls EXCEPT ![c] = Typed(@, text)]
         /\ AdvanceRevisions(replaced, replaced \/ controls' # controls)
  /\ UNCHANGED <<baseline, topologyVars, arrayTouched, submissionAttempted>>

EditItemText(i, text) ==
  /\ i \in 1..Len(items)
  /\ TakesText(ItemTemplate, formData.items[i], TRUE)
  /\ LET replaced == Replaces(text, formData.items[i])
     IN  /\ formData' = IF replaced
                        THEN [formData EXCEPT !.items[i] = Parse[text]]
                        ELSE formData
         /\ items' = [items EXCEPT ![i].control = Typed(@, text)]
         /\ AdvanceRevisions(replaced, replaced \/ items' # items)
  /\ UNCHANGED <<baseline, controls, arrayTouched, baselineIdentities,
                 nextItemIdentity, submissionAttempted>>

(* set_value: setting the value the control already has does nothing, not  *)
(* even to its edit state; any other value discards the edit state.        *)
SetValue(c, v) ==
  /\ Accepts(c, v)
  /\ formData.value[c] = Absent => ParentIsObject(formData, c)
  /\ IF formData.value[c] = v
     THEN UNCHANGED vars
     ELSE /\ formData' = SetControl(formData, c, v)
          /\ controls' = [controls EXCEPT ![c] = ClearEditState(@)]
          /\ AdvanceRevisions(TRUE, TRUE)
          /\ UNCHANGED <<baseline, topologyVars, arrayTouched,
                         submissionAttempted>>

SetItemValue(i, v) ==
  /\ i \in 1..Len(items)
  /\ Accepts(ItemTemplate, v)
  /\ IF formData.items[i] = v
     THEN UNCHANGED vars
     ELSE /\ formData' = [formData EXCEPT !.items[i] = v]
          /\ items' = [items EXCEPT ![i].control = ClearEditState(@)]
          /\ AdvanceRevisions(TRUE, TRUE)
          /\ UNCHANGED <<baseline, controls, arrayTouched,
                         baselineIdentities, nextItemIdentity,
                         submissionAttempted>>
-----------------------------------------------------------------------------
(* Presence operations.  Each one changes the data, so both revisions      *)
(* advance; the list is reconciled whenever it lies at or below the        *)
(* binding, and removal and replacement discard the edit states there.     *)
(* Mutant: the edit states below a removed or replaced object stay.        *)
LeaveGroupedEdits == controls' = controls

ClearGroupedEdits ==
  controls' = [c \in Control |-> IF c \in Grouped
                                 THEN ClearEditState(controls[c])
                                 ELSE controls[c]]

RemoveControlValue(c) ==
  /\ formData.value[c] # Absent
  /\ formData' = TakeControl(formData, c)
  /\ controls' = [controls EXCEPT ![c] = ClearEditState(@)]
  /\ AdvanceRevisions(TRUE, TRUE)
  /\ UNCHANGED <<baseline, topologyVars, arrayTouched, submissionAttempted>>

RemoveGroup ==
  /\ formData.group # "absent"
  /\ formData' = TakeGroup(formData)
  /\ ReconcileArrays(formData')
  /\ ClearGroupedEdits
  /\ AdvanceRevisions(TRUE, TRUE)
  /\ UNCHANGED <<baseline, arrayTouched, baselineIdentities,
                 submissionAttempted>>

RemoveList ==
  /\ formData.list # "absent"
  /\ formData' = TakeList(formData)
  /\ ReconcileArrays(formData')
  /\ AdvanceRevisions(TRUE, TRUE)
  /\ UNCHANGED <<baseline, controls, arrayTouched, baselineIdentities,
                 submissionAttempted>>

MaterializeGroup ==
  /\ formData.group = "absent"
  /\ formData' = SetGroup(formData, GroupSeed)
  /\ ReconcileArrays(formData')
  /\ AdvanceRevisions(TRUE, TRUE)
  /\ UNCHANGED <<baseline, controls, arrayTouched, baselineIdentities,
                 submissionAttempted>>

MaterializeList ==
  /\ formData.list = "absent"
  /\ ListParentIsObject(formData)
  /\ formData' = SetList(formData, ListSeed)
  /\ ReconcileArrays(formData')
  /\ AdvanceRevisions(TRUE, TRUE)
  /\ UNCHANGED <<baseline, controls, arrayTouched, baselineIdentities,
                 submissionAttempted>>

ReplaceGroup(g) ==
  /\ formData.group = "mismatch"
  /\ formData' = SetGroup(formData, g)
  /\ ReconcileArrays(formData')
  /\ ClearGroupedEdits
  /\ AdvanceRevisions(TRUE, TRUE)
  /\ UNCHANGED <<baseline, arrayTouched, baselineIdentities,
                 submissionAttempted>>

ReplaceList(values) ==
  /\ \/ formData.list = "mismatch"
     \/ formData.list = "array" /\ MultipleChoice
  /\ formData' = SetList(formData, values)
  /\ ReconcileArrays(formData')
  /\ AdvanceRevisions(TRUE, TRUE)
  /\ UNCHANGED <<baseline, controls, arrayTouched, baselineIdentities,
                 submissionAttempted>>
-----------------------------------------------------------------------------
(* Collection operations on a present list.                                *)
CanAppend == formData.list = "array" /\ Count(formData) < MaxItems
CanRemove ==
  /\ formData.list = "array"
  /\ Count(formData) > MinItems

(* Mutant: a new item is identified by its place at the end of the list.   *)
PositionalItem == [identity |-> Len(items) + 1, control |-> Untouched]

NewItem == [identity |-> nextItemIdentity, control |-> Untouched]

(* append_array_item, and insert_array_item_before the item at position i; *)
(* both put a seeded value and an item with a fresh identity there.        *)
InsertItem(i) ==
  /\ CanAppend
  /\ formData' = [formData EXCEPT !.items = InsertAt(@, i, ItemSeed)]
  /\ items' = InsertAt(items, i, NewItem)
  /\ nextItemIdentity' = nextItemIdentity + 1
  /\ AdvanceRevisions(TRUE, TRUE)
  /\ UNCHANGED <<baseline, controls, arrayTouched, baselineIdentities,
                 submissionAttempted>>

AppendArrayItem == InsertItem(Len(items) + 1)
InsertArrayItemBefore(i) == i \in 1..Len(items) /\ InsertItem(i)

RemoveArrayItem(i) ==
  /\ CanRemove
  /\ i \in 1..Len(items)
  /\ formData' = [formData EXCEPT !.items = RemoveAt(@, i)]
  /\ items' = RemoveAt(items, i)
  /\ AdvanceRevisions(TRUE, TRUE)
  /\ UNCHANGED <<baseline, controls, arrayTouched, baselineIdentities,
                 nextItemIdentity, submissionAttempted>>

(* Mutant: the values swap, the item states stay where they are.           *)
MoveValuesOnly(i, j) ==
  /\ i \in 1..Len(items)
  /\ j \in {i - 1, i + 1} \cap (1..Len(items))
  /\ formData' = [formData EXCEPT !.items = Swap(@, i, j)]
  /\ AdvanceRevisions(formData.items[i] # formData.items[j], TRUE)
  /\ UNCHANGED <<baseline, controls, items, arrayTouched,
                 baselineIdentities, nextItemIdentity, submissionAttempted>>

(* move_array_item: values and item states swap together; the data changes *)
(* only if the two values differ.                                          *)
MoveArrayItem(i, j) ==
  /\ i \in 1..Len(items)
  /\ j \in {i - 1, i + 1} \cap (1..Len(items))
  /\ formData' = [formData EXCEPT !.items = Swap(@, i, j)]
  /\ items' = Swap(items, i, j)
  /\ AdvanceRevisions(formData.items[i] # formData.items[j], TRUE)
  /\ UNCHANGED <<baseline, controls, arrayTouched, baselineIdentities,
                 nextItemIdentity, submissionAttempted>>

(* toggle_array_choice, over an absent list (which has no members) too.    *)
CanToggleChoice ==
  /\ MultipleChoice
  /\ \/ formData.list = "array"
     \/ formData.list = "absent" /\ ListParentIsObject(formData)

Carrying(v) == {i \in 1..Count(formData) : formData.items[i] = v}

IncludeChoice(v) ==
  /\ CanToggleChoice
  /\ OptionPosition(v) # 0
  /\ Carrying(v) = {}
  /\ LET at == InsertionPoint(formData.items, OptionPosition(v))
     IN  /\ formData' = SetList(formData, InsertAt(formData.items, at, v))
         /\ items' = InsertAt(items, at, NewItem)
  /\ nextItemIdentity' = nextItemIdentity + 1
  /\ AdvanceRevisions(TRUE, TRUE)
  /\ UNCHANGED <<baseline, controls, arrayTouched, baselineIdentities,
                 submissionAttempted>>

ExcludeChoice(v) ==
  /\ CanToggleChoice
  /\ OptionPosition(v) # 0
  /\ Carrying(v) # {}
  /\ \E kept \in Ascending((1..Count(formData)) \ Carrying(v)) :
       /\ formData' = [formData EXCEPT
                         !.items = [k \in DOMAIN kept |-> @[kept[k]]]]
       /\ items' = [k \in DOMAIN kept |-> items[kept[k]]]
  /\ AdvanceRevisions(TRUE, TRUE)
  /\ UNCHANGED <<baseline, controls, arrayTouched, baselineIdentities,
                 nextItemIdentity, submissionAttempted>>
-----------------------------------------------------------------------------
(* Interaction, submission and the form's lifecycle.                       *)
Blur(c) ==
  /\ controls' = [controls EXCEPT
                    ![c] = [FinalizeEditBuffer(@) EXCEPT !.touched = TRUE]]
  /\ AdvanceRevisions(FALSE, controls' # controls)
  /\ UNCHANGED <<formData, baseline, topologyVars, arrayTouched,
                 submissionAttempted>>

BlurItem(i) ==
  /\ i \in 1..Len(items)
  /\ items' = [items EXCEPT
        ![i].control = [FinalizeEditBuffer(@) EXCEPT !.touched = TRUE]]
  /\ AdvanceRevisions(FALSE, items' # items)
  /\ UNCHANGED <<formData, baseline, controls, arrayTouched,
                 baselineIdentities, nextItemIdentity, submissionAttempted>>

BlurArray ==
  /\ MultipleChoice
  /\ arrayTouched' = TRUE
  /\ AdvanceRevisions(FALSE, ~arrayTouched)
  /\ UNCHANGED <<formData, baseline, controls, topologyVars,
                 submissionAttempted>>

(* The snapshot is the form data when no control is blocked.               *)
ParseBlocked ==
  \/ \E c \in Control : controls[c].blocked
  \/ \E i \in 1..Len(items) : items[i].control.blocked

PrepareSubmission ==
  /\ submissionAttempted' = TRUE
  /\ controls' = [c \in Control |-> FinalizeEditBuffer(controls[c])]
  /\ items' = [i \in 1..Len(items) |->
                 [items[i] EXCEPT !.control = FinalizeEditBuffer(@)]]
  /\ AdvanceRevisions(FALSE, \/ ~submissionAttempted
                             \/ controls' # controls
                             \/ items' # items)
  /\ UNCHANGED <<formData, baseline, arrayTouched, baselineIdentities,
                 nextItemIdentity>>

Reset ==
  /\ formData' = baseline
  /\ controls' = [c \in Control |-> Untouched]
  /\ arrayTouched' = FALSE
  /\ items' = [i \in 1..Len(baselineIdentities) |->
                 [identity |-> baselineIdentities[i], control |-> Untouched]]
  /\ submissionAttempted' = FALSE
  /\ AdvanceRevisions(formData # baseline,
                      \/ formData # baseline
                      \/ submissionAttempted
                      \/ arrayTouched
                      \/ controls' # controls
                      \/ items' # items)
  /\ UNCHANGED <<baseline, baselineIdentities, nextItemIdentity>>

Reinitialize(d) ==
  /\ formData' = d
  /\ baseline' = d
  /\ controls' = [c \in Control |-> Untouched]
  /\ arrayTouched' = FALSE
  /\ ReconcileArrays(d)
  /\ baselineIdentities' = [i \in 1..Count(d) |-> nextItemIdentity + i - 1]
  /\ submissionAttempted' = FALSE
  /\ AdvanceRevisions(TRUE, TRUE)
-----------------------------------------------------------------------------
(* apply_host_transaction: the candidate a transaction built, the bindings *)
(* it wrote, the items it wrote, and what it did to the list: replaced it  *)
(* as a whole, or kept existing items (by identity) among fresh ones.      *)
Fresh == 0

(* A write at a node reaches every control at or below it.                 *)
Overlaps(w, c) == w = c \/ w = "root" \/ (w = "group" /\ c \in Grouped)

(* The checks made before anything is changed.                             *)
ValidTopology(d, topology) ==
  /\ Len(topology) = Count(d)
  /\ \A i \in 1..Len(topology) :
       topology[i] # Fresh =>
         /\ \E j \in 1..Len(items) : items[j].identity = topology[i]
         /\ \A j \in 1..Len(topology) : topology[j] = topology[i] => j = i

(* Mutant: every fresh item of a transaction gets the next identity.       *)
NoneFreshBefore(topology, i) == 0

FreshBefore(topology, i) ==
  Cardinality({j \in 1..i - 1 : topology[j] = Fresh})

ItemOf(identity) ==
  items[CHOOSE j \in 1..Len(items) : items[j].identity = identity]

(* Mutant: a write leaves the edit state of the item it writes.            *)
NotRewritten(s, itemWrites) == s

Rewritten(s, itemWrites) ==
  IF s.identity \in itemWrites
  THEN [s EXCEPT !.control = ClearEditState(@)] ELSE s

PreservedItems(topology, itemWrites) ==
  [i \in 1..Len(topology) |->
     IF topology[i] = Fresh
     THEN [identity |-> nextItemIdentity + FreshBefore(topology, i),
           control  |-> Untouched]
     ELSE Rewritten(ItemOf(topology[i]), itemWrites)]

ApplyHostTransaction(d, writes, itemWrites, replace, topology) ==
  /\ ~replace => ValidTopology(d, topology)
  /\ formData' = d
  /\ controls' = [c \in Control |->
                    IF \E w \in writes : Overlaps(w, c)
                    THEN ClearEditState(controls[c]) ELSE controls[c]]
  /\ IF replace
     THEN ReconcileArrays(d)
     ELSE /\ items' = PreservedItems(topology, itemWrites)
          /\ nextItemIdentity' =
               nextItemIdentity + FreshBefore(topology, Len(topology) + 1)
  /\ AdvanceRevisions(formData # d,
                      \/ formData # d
                      \/ replace \/ Identities # topology
                      \/ controls' # controls
                      \/ \E i \in 1..Len(items) :
                           Rewritten(items[i], itemWrites) # items[i])
  /\ UNCHANGED <<baseline, arrayTouched, baselineIdentities,
                 submissionAttempted>>

(* What the caller, a host transaction, records about its candidate: every *)
(* control and every kept item whose value it changed is written, and a    *)
(* list that changed without its items being named is replaced.            *)
RecordsChanges(d, writes, itemWrites, replace, topology) ==
  /\ \A c \in Control :
       \/ d.value[c] = formData.value[c]
       \/ \E w \in writes : Overlaps(w, c)
  /\ d.group # formData.group => writes \cap {"group", "root"} # {}
  /\ d.list # formData.list => replace
  /\ ~replace =>
       /\ topology \in Seq(Nat)
       /\ ValidTopology(d, topology)
       /\ \A i \in 1..Len(topology), j \in 1..Len(items) :
            \/ topology[i] # items[j].identity
            \/ d.items[i] = formData.items[j]
            \/ topology[i] \in itemWrites
-----------------------------------------------------------------------------
(* The lists of length n of kept identities and fresh items.               *)
Topologies(n) ==
  [1..n -> {Fresh} \cup {items[i].identity : i \in 1..Len(items)}]

EditControl ==
  \E c \in Control :
    \/ \E text \in Text : EditText(c, text)
    \/ \E v \in Value \cup {Null} : SetValue(c, v)
    \/ RemoveControlValue(c)
    \/ Blur(c)

EditItem ==
  \E i \in 1..Len(items) :
    \/ \E text \in Text : EditItemText(i, text)
    \/ \E v \in Value \cup {Null} : SetItemValue(i, v)
    \/ BlurItem(i)

ChangePresence ==
  \/ RemoveGroup
  \/ RemoveList
  \/ MaterializeGroup
  \/ MaterializeList
  \/ \E g \in HostData : g.group = "object" /\ ReplaceGroup(g)
  \/ \E g \in HostData : g.list = "array" /\ ReplaceList(g.items)

ChangeCollection ==
  \/ AppendArrayItem
  \/ \E i \in 1..Len(items) :
       \/ InsertArrayItemBefore(i)
       \/ RemoveArrayItem(i)
       \/ MoveArrayItem(i, i - 1)
       \/ MoveArrayItem(i, i + 1)
  \/ \E v \in Value : IncludeChoice(v) \/ ExcludeChoice(v)
  \/ BlurArray

HostTransaction ==
  \E d \in HostData, writes \in WriteSets,
     itemWrites \in SUBSET {items[i].identity : i \in 1..Len(items)} :
    \/ /\ RecordsChanges(d, writes, itemWrites, TRUE, <<>>)
       /\ ApplyHostTransaction(d, writes, itemWrites, TRUE, <<>>)
    \/ \E topology \in Topologies(Count(d)) :
         /\ RecordsChanges(d, writes, itemWrites, FALSE, topology)
         /\ ApplyHostTransaction(d, writes, itemWrites, FALSE, topology)

UserOperation == EditControl \/ EditItem \/ ChangePresence \/ ChangeCollection

Lifecycle == PrepareSubmission \/ Reset \/ \E d \in HostData : Reinitialize(d)

Bounded == stateRevision < MaxRevision /\ nextItemIdentity <= MaxIdentity

Next == Bounded /\ (UserOperation \/ Lifecycle \/ HostTransaction)
Spec == Init /\ [][Next]_vars

(* The same form without host transactions, which TLC explores deeper.     *)
UserNext == Bounded /\ (UserOperation \/ Lifecycle)
UserSpec == Init /\ [][UserNext]_vars
-----------------------------------------------------------------------------
TypeOK ==
  /\ formData \in Tree
  /\ baseline \in Tree
  /\ controls \in [Control -> ControlState]
  /\ items \in Seq(ItemState)
  /\ arrayTouched \in BOOLEAN
  /\ baselineIdentities \in Seq(Nat)
  /\ nextItemIdentity \in Nat
  /\ submissionAttempted \in BOOLEAN
  /\ dataRevision \in Nat
  /\ stateRevision \in Nat

(* The list has exactly one item state per value, whatever created,        *)
(* replaced or removed the list or an ancestor of it; and so will it after *)
(* a reset.  (Every view indexes the data by the position of an identity.) *)
TopologyMatchesData ==
  /\ Len(items) = Count(formData)
  /\ Len(baselineIdentities) = Count(baseline)

(* An identity names one item: the items now in the list, and those reset  *)
(* restores, are pairwise distinct, and a fresh identity is none of them.  *)
IdentitiesDistinct ==
  /\ \A i, j \in 1..Len(items) :
       items[i].identity = items[j].identity => i = j
  /\ \A i, j \in 1..Len(baselineIdentities) :
       baselineIdentities[i] = baselineIdentities[j] => i = j
  /\ \A i \in 1..Len(items) : items[i].identity \in 1..nextItemIdentity - 1
  /\ \A i \in 1..Len(baselineIdentities) :
       baselineIdentities[i] \in 1..nextItemIdentity - 1

(* The text being edited never outlives the value it edits: text that is   *)
(* not blocked is a rendering of the value in the form data, and blocked   *)
(* text stands over a value the control could still replace by typing.     *)
(* Otherwise an edit buffer would show text that is not what is submitted, *)
(* or a parse blocker would block a submission from nowhere.               *)
DescribesValue(s, c, current, parentIsObject) ==
  /\ s.blocked => s.buffer # NoText
  /\ s.buffer # NoText =>
       IF s.blocked THEN TakesText(c, current, parentIsObject)
                    ELSE current = Parse[s.buffer]

EditStatesDescribeValues ==
  /\ \A c \in Control :
       DescribesValue(controls[c], c, formData.value[c],
                      ParentIsObject(formData, c))
  /\ \A i \in 1..Len(items) :
       DescribesValue(items[i].control, ItemTemplate, formData.items[i], TRUE)

(* Every call advances each revision at most once: the data revision       *)
(* whenever the form data changed, the state revision whenever anything    *)
(* observable did.  Observers that compare revisions miss nothing.         *)
observable == <<formData, baseline, controls, items, arrayTouched,
                submissionAttempted, dataRevision>>

RevisionStep ==
  /\ dataRevision' \in {dataRevision, dataRevision + 1}
  /\ stateRevision' \in {stateRevision, stateRevision + 1}
  /\ formData' # formData => dataRevision' # dataRevision
  /\ observable' # observable => stateRevision' # stateRevision
RevisionsTellChanges == [][RevisionStep]_vars

(* An identity that enters the list is newly allocated, or restored by a   *)
(* reset: no other call brings a removed item's identity back, so a caller *)
(* that kept it cannot be made to act on another item.                     *)
IdentitiesNeverReused ==
  [][\A i \in 1..Len(items') :
       \/ \E j \in 1..Len(items) : items[j].identity = items'[i].identity
       \/ items'[i].identity >= nextItemIdentity
       \/ Reset /\ items'[i].identity \in
                     {baselineIdentities[j] : j \in 1..Len(baselineIdentities)}
    ]_vars

(* Including choices one by one leaves them in option order, whatever the  *)
(* order of checking and whatever else the list holds.                     *)
InOptionOrder(values) ==
  \A i, j \in 1..Len(values) :
    i < j /\ OptionPosition(values[i]) # 0 /\ OptionPosition(values[j]) # 0
      => OptionPosition(values[i]) <= OptionPosition(values[j])

ChoicesStayInOptionOrder ==
  [][\A v \in Value :
       IncludeChoice(v) /\ InOptionOrder(formData.items)
         => InOptionOrder(formData'.items)]_vars

(* A collection operation moves values and item states together: an item   *)
(* that stays in the list keeps its value, its edit buffer, its blocker    *)
(* and its blur, wherever it ends up.                                      *)
SurvivorsKeepTheirState ==
  [][ChangeCollection =>
       \A i \in 1..Len(items), j \in 1..Len(items') :
         items[i].identity = items'[j].identity =>
           /\ items'[j] = items[i]
           /\ formData'.items[j] = formData.items[i]]_vars
=============================================================================
