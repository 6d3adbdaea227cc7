----------------------------- MODULE FormFacade -----------------------------
(***************************************************************************)
(* The public form of crates/schemaform/src/lib.rs: every operation of     *)
(* UserActions and of the host, each of which composes a check of what is  *)
(* allowed, one operation of the engine (FormEngine), the validation and   *)
(* external findings that go with the new form data, and the transition    *)
(* that tells an observer which nodes to read again.                       *)
(*                                                                         *)
(* The nodes are those of the generated user interface: the root (bound to *)
(* nothing), the controls, the fixed object, the list and its items.       *)
(***************************************************************************)
EXTENDS FormEngine, Bags

CONSTANTS
  Source,             \* the sources of external findings
  Finding,            \* external findings: where, and whether they block
  Batches,            \* the sets of findings a source may supply at once
  MaxActiveFindings,  \* max_active_findings
  MaxBuffers,         \* active_edit_buffers
  Required,           \* the nodes whose value must not be removed
  WriteOnly,          \* the nodes annotated writeOnly
  AnnotatedReadOnly,  \* the nodes annotated readOnly
  Policies,           \* the finding visibility policies a host may choose
  ViolationsOf(_)     \* the validator: where the findings of data lie

StaticNode == Control \cup {"root", "group", "list"}
Visibility == {"immediate", "touched", "submission"}

(* Where a finding lies: at a static node, or at an index of the list.     *)
At(n) == [node |-> n, index |-> 0]
AtItem(i) == [node |-> "list", index |-> i]
Locations == [node : StaticNode, index : {0}] \cup [node : {"list"}, index : Nat]

ASSUME FormFacadeAssumption ==
  /\ Control \cap {"root", "group", "list"} = {}
  /\ Finding \subseteq [at : Locations, blocking : BOOLEAN]
  /\ Batches \subseteq SUBSET Finding
  /\ \A F \in Batches : IsFiniteSet(F)
  /\ MaxActiveFindings \in Nat
  /\ MaxBuffers \in Nat
  /\ Required \subseteq Control \cup {"group", "list"}
  /\ WriteOnly \cup AnnotatedReadOnly \subseteq
       Control \cup {"group", "list", ItemTemplate}
  /\ Policies \subseteq [validation : Visibility, external : Visibility]

VARIABLES
  validated,   \* the form data the retained validation outcome is about
  external,    \* the batch of external findings of every source
  readOnly,    \* whether the host made the whole form read-only
  visibility,  \* the finding visibility policy
  transition   \* the nodes the last operation told its caller about

findingVars == <<validated, external>>
hostSettings == <<readOnly, visibility>>
facadeVars == <<vars, validated, external, readOnly, visibility, transition>>

NoBatch == [revision |-> 0, findings |-> EmptyBag]
NoBatches == [s \in Source |-> NoBatch]
-----------------------------------------------------------------------------
(* What each node allows (NodeView::allowed_operations, is_read_only).     *)
Writable(n) ==
  /\ ~readOnly
  /\ n \notin AnnotatedReadOnly
  /\ n \in Grouped \cup {"list", ItemTemplate} => "group" \notin AnnotatedReadOnly
  /\ n = ItemTemplate => "list" \notin AnnotatedReadOnly

CanSetValue(c, current, parentIsObject) ==
  /\ current = Absent => parentIsObject
  /\ \/ current = Absent
     \/ current = Null /\ c \in Nullable
     \/ current \in Value /\ c \notin TextControl

CanSetNull(c, current, parentIsObject) ==
  /\ c \in Nullable /\ current # Null
  /\ current = Absent => parentIsObject

CanReplaceValue(c, current) ==
  \/ current = Mismatch
  \/ current = Null /\ c \notin Nullable
  \/ current \in Value /\ c \in WriteOnly

ScalarOperations(c, current, parentIsObject, removable) ==
  IF ~Writable(c) THEN {}
  ELSE {o \in {"input_text", "set_value", "set_null", "remove", "replace"} :
          CASE o = "input_text" -> TakesText(c, current, parentIsObject)
            [] o = "set_value"  -> CanSetValue(c, current, parentIsObject)
            [] o = "set_null"   -> CanSetNull(c, current, parentIsObject)
            [] o = "remove"     -> removable /\ current # Absent
            [] o = "replace"    -> CanReplaceValue(c, current)}

ControlAllows(c) ==
  ScalarOperations(c, formData.value[c], ParentIsObject(formData, c),
                   c \notin Required)
ItemAllows(i) == ScalarOperations(ItemTemplate, formData.items[i], TRUE, FALSE)

GroupAllows ==
  IF ~Writable("group") THEN {}
  ELSE {o \in {"replace", "remove", "materialize"} :
          CASE o = "replace"     -> formData.group = "mismatch"
            [] o = "remove"      -> formData.group # "absent" /\ "group" \notin Required
            [] o = "materialize" -> formData.group = "absent"}

HoldsOtherThanOptions ==
  \E i \in 1..Count(formData) : OptionPosition(formData.items[i]) = 0

ListAllows ==
  IF ~Writable("list") THEN {}
  ELSE {o \in {"append", "remove_item", "move", "toggle", "replace", "remove",
               "materialize"} :
          CASE o = "append"      -> CanAppend
            [] o = "remove_item" -> CanRemove
            [] o = "move"        -> formData.list = "array" /\ Count(formData) > 1
            [] o = "toggle"      -> CanToggleChoice
            [] o = "replace"     -> \/ formData.list = "mismatch"
                                    \/ /\ formData.list = "array"
                                       /\ MultipleChoice
                                       /\ HoldsOtherThanOptions
            [] o = "remove"      -> formData.list # "absent" /\ "list" \notin Required
            [] o = "materialize" -> /\ formData.list = "absent"
                                    /\ ListParentIsObject(formData)}
-----------------------------------------------------------------------------
(* What is touched (binding_is_touched) and therefore visible where.       *)
TouchedAt(l) ==
  \/ l.index = 0 /\ l.node \in Control /\ controls[l.node].touched
  \/ l.node = "list" /\ MultipleChoice /\ arrayTouched
  \/ l.index \in 1..Len(items) /\ items[l.index].control.touched

VisibleAt(policy, l) ==
  \/ policy = "immediate"
  \/ submissionAttempted
  \/ policy = "touched" /\ TouchedAt(l)

(* The locations a static node presents (finding_attached): its own; for a *)
(* multiple choice those of its items; for the root those of no node.      *)
Presents(n, l) ==
  \/ l = At(n)
  \/ n = "list" /\ MultipleChoice /\ l.node = "list" /\ l.index > 0
  \/ n = "root" /\ l.index > Len(items)

FindingsWhere(presented(_)) ==
  [validation |-> {l \in ViolationsOf(validated) :
                     presented(l) /\ VisibleAt(visibility.validation, l)},
   external   |-> [s \in Source |->
     LET shown == {f \in BagToSet(external[s].findings) :
                     presented(f.at) /\ VisibleAt(visibility.external, f.at)}
     IN  [f \in shown |-> external[s].findings[f]]]]

NodeFindings(n) == LET on(l) == Presents(n, l) IN FindingsWhere(on)
ItemFindings(i) == LET on(l) == l = AtItem(i) IN FindingsWhere(on)
ShowsExternal(findings) == \E s \in Source : findings.external[s] # EmptyBag

(* The part of form data below a node, and what NodeView shows of it.      *)
Below(d, n) ==
  CASE n \in Control -> d.value[n]
    [] n = "group"   -> <<d.group, [c \in Grouped |-> d.value[c]], d.list, d.items>>
    [] n = "list"    -> <<d.list, d.items>>
    [] n = "root"    -> "unbound"

Observe(n) ==
  [data     |-> Below(formData, n),
   dirty    |-> Below(formData, n) # Below(baseline, n),
   findings |-> NodeFindings(n),
   readOnly |-> ~Writable(n),
   state    |-> IF n \in Control THEN controls[n] ELSE Untouched,
   touched  |-> n = "list" /\ arrayTouched,
   children |-> IF n = "list" THEN Identities ELSE <<>>,
   allowed  |-> CASE n \in Control -> ControlAllows(n)
                  [] n = "group"   -> GroupAllows
                  [] n = "list"    -> ListAllows
                  [] n = "root"    -> {}]

ItemIds == {items[i].identity : i \in 1..Len(items)}
IndexOf(identity) == CHOOSE i \in 1..Len(items) : items[i].identity = identity
BaselineItem(i) == IF i \in 1..Count(baseline) THEN baseline.items[i] ELSE Absent

(* An item's binding is that of its index.                                 *)
ObserveItem(identity) ==
  LET i == IndexOf(identity)
  IN  [index    |-> i,
       data     |-> formData.items[i],
       dirty    |-> formData.items[i] # BaselineItem(i),
       findings |-> ItemFindings(i),
       state    |-> items[i].control,
       allowed  |-> ItemAllows(i)]
-----------------------------------------------------------------------------
(* Transitions: the nodes that changed and are still there, and the items  *)
(* that are gone.  (A transition also carries the revisions before and     *)
(* after, which are the variables' own.)                                   *)
Tell(nodes, changedItems, removed) ==
  transition' = [nodes |-> nodes, items |-> changedItems, removed |-> removed]

TellNothing == Tell({}, {}, {})
Revised == <<dataRevision', stateRevision'>> # <<dataRevision, stateRevision>>
DataRevised == dataRevision' # dataRevision

(* The nodes with another visible validation finding than before.          *)
ValidationShown(n) == NodeFindings(n).validation
ItemValidationShown(identity) == ItemFindings(IndexOf(identity)).validation

Revalidated == {n \in StaticNode : ValidationShown(n)' # ValidationShown(n)}
RevalidatedItems ==
  {id \in ItemIds' :
     id \in ItemIds => ItemValidationShown(id)' # ItemValidationShown(id)}

(* visible_external_finding_targets, of which the root is left out.        *)
ExternalTargets ==
  {n \in StaticNode \ {"root"} : ShowsExternal(NodeFindings(n))}
ExternalItemTargets ==
  {id \in ItemIds : ShowsExternal(ItemFindings(IndexOf(id)))}

(* node_observations before, changed_nodes after.                          *)
TellObserved ==
  Tell({n \in StaticNode : Observe(n)' # Observe(n)},
       {id \in ItemIds' : id \in ItemIds => ObserveItem(id)' # ObserveItem(id)},
       ItemIds \ ItemIds')

(* user_transition, for an edit at a control (and no item) or at an item   *)
(* (and no control): the target, with the data its ancestors and whatever  *)
(* showed an external finding, and every change of validation findings.    *)
TellUser(target, targetItems, ancestors) ==
  Tell((IF Revised THEN target ELSE {})
         \cup (IF DataRevised THEN ancestors \cup ExternalTargets ELSE {})
         \cup Revalidated,
       (IF Revised THEN targetItems ELSE {})
         \cup (IF DataRevised THEN ExternalItemTargets ELSE {})
         \cup RevalidatedItems,
       {})

(* apply_structural_edit: all nodes on a path with the binding.            *)
TellStructure(path) ==
  Tell(path \cup ExternalTargets \cup Revalidated, ItemIds', ItemIds \ ItemIds')

(* The array operations: the array and the items named, through            *)
(* host_changed_nodes.                                                     *)
TellArray(changedItems, removed) ==
  Tell({"list"} \cup (IF DataRevised THEN ExternalTargets ELSE {}) \cup Revalidated,
       ((changedItems \cup (IF DataRevised THEN ExternalItemTargets ELSE {}))
          \cap ItemIds') \cup RevalidatedItems,
       removed)
-----------------------------------------------------------------------------
(* Mutant: validation runs on the data before the edit.                    *)
RevalidateBefore == validated' = IF DataRevised THEN formData ELSE validated
(* Mutant: findings about the old data are kept.                           *)
KeepFindings == external' = external

(* After an operation of the engine: new data is validated again, and the  *)
(* external findings, which were about the old data, are dropped.          *)
Revalidate == validated' = IF DataRevised THEN formData' ELSE validated
ClearFindings == external' = IF DataRevised THEN NoBatches ELSE external
Settle == Revalidate /\ ClearFindings /\ UNCHANGED hostSettings

(* The findings of a bag one by one, each with a number among its equals.  *)
Copies(bag) == UNION {{f} \X (1..bag[f]) : f \in BagToSet(bag)}

(* The same when the data is as it was, but items moved: every finding at  *)
(* an item's index moves to where the item now is.                         *)
Moved(batch, Keep(_), Where(_)) ==
  LET kept  == {copy \in Copies(batch.findings) : Keep(copy[1].at)}
      To(f) == [f EXCEPT !.at = Where(f.at)]
  IN  IF kept = {} THEN NoBatch
      ELSE [revision |-> batch.revision,
            findings |-> [f \in {To(copy[1]) : copy \in kept} |->
                            Cardinality({copy \in kept : To(copy[1]) = f})]]

(* Mutant: findings stay at the index when the item moves.                 *)
LeaveFindings(i, j) == external' = external

(* move_external_findings: the two neighbours exchange theirs.             *)
SwapFindings(i, j) ==
  LET Keep(l) == TRUE
      Where(l) == IF l = AtItem(i) THEN AtItem(j)
                  ELSE IF l = AtItem(j) THEN AtItem(i) ELSE l
  IN  external' = [s \in Source |-> Moved(external[s], Keep, Where)]

(* Mutant: findings stay at the index when a host draft moves items.       *)
LeaveAllFindings(topology, unmatched) == external' = external

(* rebase_external_findings_for_topologies, to a list of identities.  What *)
(* lies at an item that is gone is removed or stays at its index.          *)
RebaseFindings(topology, unmatched) ==
  LET Gone(l) ==
        /\ l.index \in 1..Len(items)
        /\ \A j \in 1..Len(topology) : topology[j] # items[l.index].identity
      Keep(l) == Gone(l) => unmatched = "preserve"
      Where(l) ==
        IF l.index \in 1..Len(items) /\ ~Gone(l)
        THEN AtItem(CHOOSE j \in 1..Len(topology) :
                      topology[j] = items[l.index].identity)
        ELSE l
  IN  external' = [s \in Source |-> Moved(external[s], Keep, Where)]
-----------------------------------------------------------------------------
(* UserActions.  Text is refused when it would need one buffer too many.   *)
Buffers ==
  Cardinality({c \in Control : controls[c].buffer # NoText})
    + Cardinality({i \in 1..Len(items) : items[i].control.buffer # NoText})
(* Mutant: one buffer too many.                                            *)
RoomForOneMore(s) == s.buffer # NoText \/ Buffers <= MaxBuffers
RoomFor(s) == s.buffer # NoText \/ Buffers < MaxBuffers

Above(c) == IF c \in Grouped THEN {"group"} ELSE {}

InputText(c, text) ==
  /\ "input_text" \in ControlAllows(c)
  /\ RoomFor(controls[c])
  /\ EditText(c, text)
  /\ Settle
  /\ TellUser({c}, {}, Above(c))

InputItemText(i, text) ==
  /\ i \in 1..Len(items)
  /\ "input_text" \in ItemAllows(i)
  /\ RoomFor(items[i].control)
  /\ EditItemText(i, text)
  /\ Settle
  /\ TellUser({}, {items[i].identity}, {"list", "group"})

(* set_value, set_null and replace_value of a scalar.                      *)
AssignValue(c, v) ==
  /\ \/ v \in Value /\ ControlAllows(c) \cap {"set_value", "replace"} # {}
     \/ v = Null /\ "set_null" \in ControlAllows(c)
  /\ SetValue(c, v)
  /\ Settle
  /\ TellUser({c}, {}, Above(c))

AssignItemValue(i, v) ==
  /\ i \in 1..Len(items)
  /\ \/ v \in Value /\ ItemAllows(i) \cap {"set_value", "replace"} # {}
     \/ v = Null /\ "set_null" \in ItemAllows(i)
  /\ SetItemValue(i, v)
  /\ Settle
  /\ TellUser({}, {items[i].identity}, {"list", "group"})

RemoveValue(c) ==
  /\ "remove" \in ControlAllows(c)
  /\ RemoveControlValue(c)
  /\ Settle
  /\ TellUser({c}, {}, Above(c))

BlurControl(c) ==
  /\ Writable(c)
  /\ Blur(c)
  /\ UNCHANGED <<findingVars, hostSettings>>
  /\ Tell(IF Revised THEN {c} ELSE {}, {}, {})

BlurItemControl(i) ==
  /\ i \in 1..Len(items)
  /\ Writable(ItemTemplate)
  /\ BlurItem(i)
  /\ UNCHANGED <<findingVars, hostSettings>>
  /\ Tell({}, IF Revised THEN {items[i].identity} ELSE {}, {})

BlurList ==
  /\ Writable("list")
  /\ BlurArray
  /\ UNCHANGED <<findingVars, hostSettings>>
  /\ Tell(IF Revised THEN {"list"} ELSE {}, {}, {})

StructuralEdit ==
  \/ /\ \/ "remove" \in GroupAllows /\ RemoveGroup
        \/ "materialize" \in GroupAllows /\ MaterializeGroup
        \/ /\ "replace" \in GroupAllows
           /\ \E g \in HostData : g.group = "object" /\ ReplaceGroup(g)
     /\ Settle
     /\ TellStructure(Grouped \cup {"group", "list"})
  \/ /\ \/ "remove" \in ListAllows /\ RemoveList
        \/ "materialize" \in ListAllows /\ MaterializeList
        \/ /\ "replace" \in ListAllows
           /\ \E g \in HostData : g.list = "array" /\ ReplaceList(g.items)
     /\ Settle
     /\ TellStructure({"group", "list"})

(* Mutant: the first item that is shifted is not counted among them.       *)
ShiftedAfter(i) == {items[k].identity : k \in i + 1..Len(items)}
(* The items from index i on, which an insertion or removal there shifts.  *)
Shifted(i) == {items[k].identity : k \in i..Len(items)}

AddItem(i) ==
  /\ "append" \in ListAllows
  /\ i \in 1..Len(items) + 1
  /\ IF i > Len(items) THEN AppendArrayItem ELSE InsertArrayItemBefore(i)
  /\ Settle
  /\ TellArray({nextItemIdentity} \cup Shifted(i), {})

RemoveItemAt(i) ==
  /\ "remove_item" \in ListAllows
  /\ RemoveArrayItem(i)
  /\ Settle
  /\ TellArray(Shifted(i + 1), {items[i].identity})

MoveItemTo(i, j) ==
  /\ "move" \in ListAllows
  /\ MoveArrayItem(i, j)
  /\ IF DataRevised THEN Settle
     ELSE /\ SwapFindings(i, j)
          /\ UNCHANGED <<validated, hostSettings>>
  /\ TellArray({items[i].identity, items[j].identity}, {})

ToggleChoice(v) ==
  /\ "toggle" \in ListAllows
  /\ \/ /\ IncludeChoice(v)
        /\ Settle
        /\ TellArray({nextItemIdentity} \cup
                       Shifted(InsertionPoint(formData.items, OptionPosition(v))),
                     {})
     \/ /\ ExcludeChoice(v)
        /\ Settle
        /\ TellArray({items[k].identity :
                        k \in {k \in 1..Len(items) :
                                 \E i \in Carrying(v) : i < k}},
                     {items[i].identity : i \in Carrying(v)})

(* The operations of the list.                                             *)
ArrayOperation ==
  \/ \E i \in 1..Len(items) + 1 : AddItem(i)
  \/ \E i \in 1..Len(items) :
       \/ RemoveItemAt(i)
       \/ MoveItemTo(i, i - 1)
       \/ MoveItemTo(i, i + 1)
  \/ \E v \in Value : ToggleChoice(v)
-----------------------------------------------------------------------------
(* The host.  apply_external_findings replaces one source's batch, which   *)
(* must be about the present data; an equal batch changes nothing.         *)
Active(batches) ==
  UNION {{s} \X Copies(batches[s].findings) : s \in Source}
FindingCount(batches) == Cardinality(Active(batches))

(* Mutant: a batch is counted without those of the other sources.          *)
ApplyWithinOwnLimit(s, revision, F) ==
  /\ revision = dataRevision
  /\ external' = [external EXCEPT ![s] =
                    IF F = {} THEN NoBatch
                    ELSE [revision |-> revision, findings |-> SetToBag(F)]]
  /\ Cardinality(F) <= MaxActiveFindings
  /\ AdvanceRevisions(FALSE, external' # external)
  /\ UNCHANGED <<formData, baseline, controls, topologyVars, arrayTouched,
                 submissionAttempted, validated, hostSettings>>
  /\ Tell({n \in StaticNode :
             (NodeFindings(n).external)' # NodeFindings(n).external},
          {id \in ItemIds : (ItemFindings(IndexOf(id)).external)'
                              # ItemFindings(IndexOf(id)).external},
          {})

ApplyExternalFindings(s, revision, F) ==
  /\ revision = dataRevision
  /\ external' = [external EXCEPT ![s] =
                    IF F = {} THEN NoBatch
                    ELSE [revision |-> revision, findings |-> SetToBag(F)]]
  /\ FindingCount(external') <= MaxActiveFindings
  /\ AdvanceRevisions(FALSE, external' # external)
  /\ UNCHANGED <<formData, baseline, controls, topologyVars, arrayTouched,
                 submissionAttempted, validated, hostSettings>>
  /\ Tell({n \in StaticNode :
             (NodeFindings(n).external)' # NodeFindings(n).external},
          {id \in ItemIds : (ItemFindings(IndexOf(id)).external)'
                              # ItemFindings(IndexOf(id)).external},
          {})

(* A setting a host makes changes no more than what the form shows.        *)
MarkStateChanged(changed) ==
  /\ AdvanceRevisions(FALSE, changed)
  /\ UNCHANGED <<formData, baseline, controls, topologyVars, arrayTouched,
                 submissionAttempted, findingVars>>

SetReadOnly(flag) ==
  /\ readOnly' = flag
  /\ MarkStateChanged(flag # readOnly)
  /\ UNCHANGED visibility
  /\ TellObserved

SetFindingVisibility(policy) ==
  /\ visibility' = policy
  /\ MarkStateChanged(policy # visibility)
  /\ UNCHANGED readOnly
  /\ TellObserved

(* Mutant: text in an item that does not parse does not block.             *)
ControlBlockers ==
  [parse      |-> {c \in Control : controls[c].blocked},
   validation |-> ViolationsOf(validated),
   external   |-> {s \in Source :
                     \E f \in BagToSet(external[s].findings) : f.blocking}]

(* finalize_submission: what blocks, once the engine has finalized the     *)
(* edit buffers.  Gated and advisory submission differ in what they return *)
(* when something does, not in what they do to the form.                   *)
Blockers ==
  [parse      |-> {c \in Control : controls[c].blocked},
   parseItems |-> {id \in ItemIds : items[IndexOf(id)].control.blocked},
   validation |-> ViolationsOf(validated),
   external   |-> {s \in Source :
                     \E f \in BagToSet(external[s].findings) : f.blocking}]

Ready == \A category \in DOMAIN Blockers : Blockers[category] = {}

FinalizeSubmission ==
  /\ PrepareSubmission
  /\ UNCHANGED <<findingVars, hostSettings>>
  /\ TellObserved

ResetForm ==
  /\ Reset
  /\ Revalidate
  /\ IF DataRevised THEN external' = NoBatches
                    ELSE RebaseFindings(Identities', "preserve")
  /\ UNCHANGED hostSettings
  /\ TellObserved

ReinitializeForm(d) ==
  /\ Reinitialize(d)
  /\ external' = NoBatches
  /\ validated' = formData'
  /\ UNCHANGED hostSettings
  /\ TellObserved

(* try_transact, for a draft FormEngine expects (RecordsChanges) that      *)
(* wrote the items at the given indices before it moved any: HostDraft has *)
(* the drafts in detail.  The nodes told are those whose data, parent or   *)
(* cleared edit state the writes reach, and those whose item moved.        *)
WrittenItems(writes, indices) ==
  IF writes \cap {"root", "group", "list"} # {}
  THEN ItemIds ELSE {items[i].identity : i \in indices}

Edited(s) == s.buffer # NoText \/ s.blocked
HasFindingAt(l) ==
  \E s \in Source : \E f \in BagToSet(external[s].findings) : f.at = l

DirectlyChanged(d, writes) ==
  {n \in StaticNode \ {"root"} :
     \/ Below(formData, n) # Below(d, n)
     \/ n \in Grouped \cup {"list"} /\ formData.group # d.group
        /\ "object" \in {formData.group, d.group}
     \/ /\ n \in Control /\ Edited(controls[n])
        /\ \E w \in writes : Overlaps(w, n)
     \/ formData # d /\ HasFindingAt(At(n))}

(* Mutant: an item whose edit state a write cleared is not told.           *)
ChangedValuesOnly(d, writes, indices) ==
  {items[i].identity : i \in {i \in 1..Len(items) :
     \/ i > Count(d)
     \/ i \in 1..Count(d) /\ d.items[i] # formData.items[i]
     \/ formData # d /\ HasFindingAt(AtItem(i))}}

DirectlyChangedItems(d, writes, indices) ==
  {items[i].identity : i \in {i \in 1..Len(items) :
     \/ i > Count(d)
     \/ i \in 1..Count(d) /\ d.items[i] # formData.items[i]
     \/ /\ Edited(items[i].control)
        /\ items[i].identity \in WrittenItems(writes, indices)
     \/ formData # d /\ HasFindingAt(AtItem(i))}}

(* The items a topology keeps at another index.                            *)
MovedItems(topology) ==
  {topology[j] : j \in {j \in 1..Len(topology) :
     topology[j] \in ItemIds /\ IndexOf(topology[j]) # j}}

Transact(d, writes, indices, replace, topology) ==
  LET itemWrites == WrittenItems(writes, indices)
      structural == IF replace THEN Len(items) + Count(d) > 0
                               ELSE topology # Identities
  IN  /\ RecordsChanges(d, writes, itemWrites, replace, topology)
      /\ ApplyHostTransaction(d, writes, itemWrites, replace, topology)
      /\ Revalidate
      /\ IF DataRevised THEN external' = NoBatches
                        ELSE RebaseFindings(topology, "remove")
      /\ UNCHANGED hostSettings
      /\ IF ~Revised THEN TellNothing
         ELSE Tell(DirectlyChanged(d, writes) \cup Revalidated
                     \cup (IF structural THEN {"list"} ELSE {}),
                   ((DirectlyChangedItems(d, writes, indices)
                       \cup (IF structural THEN MovedItems(topology) ELSE {}))
                      \cap ItemIds') \cup RevalidatedItems,
                   ItemIds \ ItemIds')
-----------------------------------------------------------------------------
FacadeInit ==
  /\ Init
  /\ validated = formData
  /\ external = NoBatches
  /\ readOnly = FALSE
  /\ visibility \in Policies
  /\ transition = [nodes |-> {}, items |-> {}, removed |-> {}]

UserAction ==
  \/ \E c \in Control :
       \/ \E text \in Text : InputText(c, text)
       \/ \E v \in Value \cup {Null} : AssignValue(c, v)
       \/ RemoveValue(c)
       \/ BlurControl(c)
  \/ \E i \in 1..Len(items) :
       \/ \E text \in Text : InputItemText(i, text)
       \/ \E v \in Value \cup {Null} : AssignItemValue(i, v)
       \/ BlurItemControl(i)
  \/ BlurList
  \/ StructuralEdit
  \/ ArrayOperation

HostAction ==
  \/ \E s \in Source, F \in Batches, revision \in 0..dataRevision :
       ApplyExternalFindings(s, revision, F)
  \/ \E flag \in BOOLEAN : SetReadOnly(flag)
  \/ \E policy \in Policies : SetFindingVisibility(policy)
  \/ FinalizeSubmission
  \/ ResetForm
  \/ \E d \in HostData : ReinitializeForm(d)

(* A write at or above the list writes its items: no index adds to it.     *)
HostTransact ==
  \E d \in HostData, writes \in WriteSets, indices \in SUBSET (1..Len(items)) :
    /\ writes \cap {"root", "group", "list"} # {} => indices = {}
    /\ \/ Transact(d, writes, indices, TRUE, <<>>)
       \/ \E topology \in Topologies(Count(d)) :
            Transact(d, writes, indices, FALSE, topology)

FacadeNext == Bounded /\ (UserAction \/ HostAction \/ HostTransact)
FacadeSpec == FacadeInit /\ [][FacadeNext]_facadeVars

(* The same form without host transactions, which TLC explores deeper.     *)
UserFacadeNext == Bounded /\ (UserAction \/ HostAction)
UserFacadeSpec == FacadeInit /\ [][UserFacadeNext]_facadeVars
-----------------------------------------------------------------------------
FacadeTypeOK ==
  /\ TypeOK
  /\ validated \in Tree
  /\ \A s \in Source : /\ IsABag(external[s].findings)
                       /\ BagToSet(external[s].findings) \subseteq
                            [at : Locations, blocking : BOOLEAN]
                       /\ external[s].revision \in Nat
  /\ readOnly \in BOOLEAN
  /\ visibility \in Policies

(* The validation outcome is about the form data as it is: no operation    *)
(* leaves a finding of data that was, or misses one of data that is.       *)
ValidationDescribesData == validated = formData

(* Active external findings are about the present data, whatever operation *)
(* changed it and whatever moved them: none outlives the data it is about. *)
ExternalFindingsAreCurrent ==
  \A s \in Source :
    external[s] # NoBatch => external[s].revision = dataRevision

(* What the form retains stays within its limits: that on findings is over *)
(* all sources, though a batch replaces those of one and moving findings   *)
(* with their items adds none; that on edit buffers is checked only while  *)
(* text is typed, for no other operation creates one.                      *)
RetainedWithinLimits ==
  /\ FindingCount(external) <= MaxActiveFindings
  /\ Buffers <= MaxBuffers

(* An operation that leaves the data alone leaves every finding with its   *)
(* item: what was said of an item that is still there is said of it at its *)
(* new index.                                                              *)
OfItem(s, identity) ==
  [blocking \in BOOLEAN |->
     LET f == [at |-> AtItem(IndexOf(identity)), blocking |-> blocking]
     IN  IF BagIn(f, external[s].findings) THEN external[s].findings[f] ELSE 0]

FindingsFollowItems ==
  [][/\ ~DataRevised
     /\ \A s \in Source, F \in Batches :
          ~ApplyExternalFindings(s, dataRevision, F)
     => \A s \in Source, id \in ItemIds \cap ItemIds', blocking \in BOOLEAN :
          OfItem(s, id)'[blocking] >= OfItem(s, id)[blocking]]_facadeVars

(* A submission that is ready submits what the user sees: every edit       *)
(* buffer there was is a rendering of the submitted value, none is left,   *)
(* and the submitted data is valid and has no blocking external finding.   *)
ReadySubmitsWhatIsShown ==
  [][FinalizeSubmission /\ Ready' =>
       /\ \A c \in Control :
            /\ controls'[c].buffer = NoText
            /\ controls[c].buffer # NoText =>
                 Parse[controls[c].buffer] = formData'.value[c]
       /\ \A i \in 1..Len(items) :
            /\ items'[i].control.buffer = NoText
            /\ items[i].control.buffer # NoText =>
                 Parse[items[i].control.buffer] = formData'.items[i]
       /\ ViolationsOf(formData') = {}]_facadeVars

(* What an operation tells is what FormContract promises to observers of   *)
(* the controls, the list and the items: nothing they show changes, comes  *)
(* or goes untold, and an empty transition leaves alone what a summary of  *)
(* all findings and the form's read-only state show.                       *)
Followed == {<<"node", n>> : n \in Control \cup {"list"}}
PresentItems == {<<"item", id>> : id \in ItemIds}
ShownByForm ==
  [f \in Followed \cup PresentItems |->
     IF f \in Followed THEN Observe(f[2]) ELSE ObserveItem(f[2])]
ShownByWhole ==
  <<readOnly, submissionAttempted, Identities,
    [n \in StaticNode |-> NodeFindings(n)],
    [i \in 1..Len(items) |-> ItemFindings(i)], ParseBlocked>>
Told ==
  [changed |-> (Followed \cap {<<"node", n>> : n \in transition.nodes})
                 \cup {<<"item", id>> : id \in transition.items},
   removed |-> {<<"item", id>> : id \in transition.removed}]

Contract == INSTANCE FormContract WITH
  Node       <- Followed,
  items      <- PresentItems,
  shown      <- ShownByForm,
  whole      <- ShownByWhole,
  revision   <- <<dataRevision, stateRevision>>,
  transition <- Told

ImplementsContract == Contract!ContractSpec

(* A node without its findings.                                            *)
Unpresented(observed) == [observed EXCEPT !.findings = "elsewhere"]

(* The same for a multiple choice, which presents the findings of its      *)
(* items: their own nodes are not shown, and are told about their place,   *)
(* data and state only.  (Blurring such an item itself, which no widget    *)
(* does, may reveal a finding at the list without naming it.)              *)
ChoiceChangesAreTold ==
  [][(\A i \in 1..Len(items) : ~BlurItemControl(i)) =>
       /\ \A n \in (Control \cup {"list"}) \ transition'.nodes :
            Observe(n)' = Observe(n)
       /\ \A id \in ItemIds' \ transition'.items :
            /\ id \in ItemIds
            /\ Unpresented(ObserveItem(id))' = Unpresented(ObserveItem(id))
       /\ transition'.removed = ItemIds \ ItemIds']_facadeVars

(* "changed contains extant instances that should be reread": a node that  *)
(* shows more than itself is among them when what it shows changes.  The   *)
(* fixed object shows the data below it, the root the findings that lie at *)
(* no other node, and a multiple choice those of its items.                *)
Presenters == {"group", "root"} \cup IF Options = <<>> THEN {} ELSE {"list"}

PresentersAreTold ==
  [][\A n \in Presenters :
       Observe(n)' # Observe(n) => n \in transition'.nodes]_facadeVars
=============================================================================
