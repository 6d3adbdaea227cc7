----------------------------- MODULE HostDraft -----------------------------
(***************************************************************************)
(* A host transaction of the facade (HostTransaction in lib.rs) over the   *)
(* form of FormEngine: an isolated candidate that a caller edits one       *)
(* operation at a time, which is then committed as a whole or dropped.     *)
(*                                                                         *)
(* FormEngine takes a transaction's candidate, writes and topology as a    *)
(* given (RecordsChanges).  Here they come about, and DraftRecordsChanges  *)
(* says that every draft that can be committed is one FormEngine expects.  *)
(*                                                                         *)
(* The transaction borrows the form mutably, so nothing else happens to    *)
(* the form while a draft is open.                                         *)
(***************************************************************************)
EXTENDS FormEngine

CONSTANTS
  MaxOperations,  \* host_operations_per_transaction
  NoDraft         \* no transaction is open

ASSUME HostDraftAssumption == MaxOperations \in Nat

VARIABLE draft

hostVars == <<vars, draft>>

Drafts ==
  [ data       : Tree,          \* the candidate
    topology   : Seq(Nat),      \* an identity, or Fresh, per item
    replaced   : BOOLEAN,       \* authoritative_replacement
    writes     : SUBSET (Control \cup {"root", "group", "list"}),
    itemWrites : SUBSET Nat,    \* the identities of the items written
    valid      : BOOLEAN,       \* FALSE once an operation was invalid
    operations : 0..MaxOperations + 1 ]
-----------------------------------------------------------------------------
(* begin_operation: an operation too many leaves the candidate alone, and  *)
(* after it or an invalid operation the others do nothing.                 *)
Accepting == draft # NoDraft /\ draft.valid /\ draft.operations <= MaxOperations

Perform(edited) ==
  /\ Accepting
  /\ draft' = [(IF draft.operations < MaxOperations THEN edited ELSE draft)
                 EXCEPT !.operations = draft.operations + 1]

Poisoned == [draft EXCEPT !.valid = FALSE]
PerformIf(allowed, edited) == Perform(IF allowed THEN edited ELSE Poisoned)

Existing == {draft.topology[i] : i \in 1..Len(draft.topology)} \ {Fresh}
ListOf(d) == <<d.list, d.items>>
AllFresh(n) == [i \in 1..n |-> Fresh]

(* update_authoritative_arrays, for a write at or above the list: a list   *)
(* whose value the write changed is all fresh, unless it is the original.  *)
Reconciled(data) ==
  IF ListOf(data) = ListOf(draft.data) THEN draft
  ELSE LET changed == ListOf(data) # ListOf(formData)
       IN  [draft EXCEPT !.replaced = changed,
                         !.topology = IF changed THEN AllFresh(Count(data))
                                                 ELSE Identities]

(* A write at or above the list writes every existing item.                *)
WriteAbove(data, w) ==
  [Reconciled(data) EXCEPT !.data = data,
                           !.writes = @ \cup {w},
                           !.itemWrites = @ \cup Existing]
-----------------------------------------------------------------------------
(* set and remove, at a control, the fixed object, the list and an item;   *)
(* replace_all.  g is form data with the value to set there.  A property   *)
(* can be set where its parent is an object, and removed where present.    *)
(* Mutant: a value that was set is not recorded as written.                *)
SetControlUnrecorded(c, v) ==
  PerformIf(ParentIsObject(draft.data, c),
            [draft EXCEPT !.data = SetControl(@, c, v)])

SetControlTo(c, v) ==
  PerformIf(ParentIsObject(draft.data, c),
            [draft EXCEPT !.data = SetControl(@, c, v),
                          !.writes = @ \cup {c}])

DropControl(c) ==
  PerformIf(draft.data.value[c] # Absent,
            [draft EXCEPT !.data = TakeControl(@, c),
                          !.writes = @ \cup {c}])

PutGroup(d, g) == [SetGroup(d, g) EXCEPT !.group = g.group]
PutList(d, g) == [d EXCEPT !.list = g.list, !.items = g.items]

SetGroupTo(g) ==
  Perform(WriteAbove(PutGroup(draft.data, g), "group"))

DropGroup ==
  PerformIf(draft.data.group # "absent",
            WriteAbove(TakeGroup(draft.data), "group"))

SetListTo(g) ==
  PerformIf(ListParentIsObject(draft.data),
            WriteAbove(PutList(draft.data, g), "list"))

DropList ==
  PerformIf(draft.data.list # "absent",
            WriteAbove(TakeList(draft.data), "list"))

SetRoot(d) == Perform(WriteAbove(d, "root"))

(* An index is resolved in the candidate, and the item there is written.   *)
(* (The binding itself covers no static control.)                          *)
HasItem(i) == i \in 1..Count(draft.data)

(* Mutant: an item written by its index is not recorded as written.        *)
SetItemUnrecorded(i, v) ==
  PerformIf(HasItem(i), [draft EXCEPT !.data.items[i] = v])

SetItemTo(i, v) ==
  PerformIf(HasItem(i),
            [draft EXCEPT !.data.items[i] = v,
                          !.itemWrites = @ \cup ({draft.topology[i]} \ {Fresh})])
-----------------------------------------------------------------------------
(* The array methods: they name an item by its identity, and edit values   *)
(* and topology alike (array_parts, and the check that the two agree).     *)
ArrayParts ==
  /\ draft.data.list = "array"
  /\ Count(draft.data) = Len(draft.topology)

Holds(identity, i) ==
  i \in 1..Len(draft.topology) /\ draft.topology[i] = identity
PositionOf(identity) == CHOOSE i \in 1..Len(draft.topology) : Holds(identity, i)
Kept(identity) == identity \in Existing

InsertFresh(i, v) ==
  [draft EXCEPT !.data.items = InsertAt(@, i, v),
                !.topology = InsertAt(@, i, Fresh)]

AppendItem(v) == PerformIf(ArrayParts, InsertFresh(Len(draft.topology) + 1, v))

InsertItemBefore(identity, v) ==
  PerformIf(ArrayParts /\ Kept(identity), InsertFresh(PositionOf(identity), v))

(* Mutant: the value goes, its place in the topology stays.                *)
RemoveItemValue(identity) ==
  PerformIf(ArrayParts /\ Kept(identity),
            [draft EXCEPT !.data.items = RemoveAt(@, PositionOf(identity))])

RemoveItem(identity) ==
  PerformIf(ArrayParts /\ Kept(identity),
            [draft EXCEPT !.data.items = RemoveAt(@, PositionOf(identity)),
                          !.topology = RemoveAt(@, PositionOf(identity))])

(* move_item_up (by = -1) and move_item_down (by = 1).                     *)
MoveItem(identity, by) ==
  LET i == PositionOf(identity)
  IN  PerformIf(/\ ArrayParts /\ Kept(identity)
                /\ i + by \in 1..Len(draft.topology),
                [draft EXCEPT !.data.items = Swap(@, i, i + by),
                              !.topology = Swap(@, i, i + by)])
-----------------------------------------------------------------------------
(* try_transact opens a draft of the current form, and commits it unless   *)
(* an operation was invalid or one too many.  A caller that returns an     *)
(* error, and data over the runtime limits, roll it back as well.          *)
Begin ==
  /\ draft = NoDraft
  /\ draft' = [data |-> formData, topology |-> Identities,
               replaced |-> FALSE, writes |-> {}, itemWrites |-> {},
               valid |-> TRUE, operations |-> 0]
  /\ UNCHANGED vars

Commit ==
  /\ Accepting
  /\ ApplyHostTransaction(draft.data, draft.writes, draft.itemWrites,
                          draft.replaced, draft.topology)
  /\ draft' = NoDraft

Rollback ==
  /\ draft # NoDraft
  /\ draft' = NoDraft
  /\ UNCHANGED vars
-----------------------------------------------------------------------------
HostInit == Init /\ draft = NoDraft

WriteBinding ==
  \/ \E c \in Control :
       \/ \E v \in Scalar : SetControlTo(c, v)
       \/ DropControl(c)
  \/ \E g \in HostData : SetGroupTo(g) \/ SetListTo(g) \/ SetRoot(g)
  \/ DropGroup
  \/ DropList
  \/ \E i \in 1..MaxItems, v \in Scalar : SetItemTo(i, v)

EditArray ==
  \/ \E v \in Value : AppendItem(v)
  \/ \E identity \in 1..nextItemIdentity - 1 :
       \/ \E v \in Value : InsertItemBefore(identity, v)
       \/ RemoveItem(identity)
       \/ MoveItem(identity, -1)
       \/ MoveItem(identity, 1)

Caller == draft = NoDraft /\ UserNext /\ UNCHANGED draft
Operation == (WriteBinding \/ EditArray) /\ UNCHANGED vars
Transaction == (Bounded /\ Begin) \/ Operation \/ Commit \/ Rollback

HostNext == Caller \/ Transaction
HostSpec == HostInit /\ [][HostNext]_hostVars

(* Transactions that use no array method.                                  *)
WriteNext == (Bounded /\ Begin) \/ (WriteBinding /\ UNCHANGED vars) \/ Commit
WriteSpec == HostInit /\ [][WriteNext]_hostVars
-----------------------------------------------------------------------------
(* While a draft can still be committed, its topology names one item per   *)
(* value of the candidate's list, and no item twice: the commit's own      *)
(* checks never fail, so a valid transaction is never refused for its      *)
(* topology.                                                               *)
DraftTopologyAgrees ==
  draft # NoDraft =>
    /\ draft \in Drafts
    /\ Len(draft.topology) = Count(draft.data)
    /\ \A i, j \in 1..Len(draft.topology) :
         draft.topology[i] = draft.topology[j] /\ draft.topology[i] # Fresh
           => i = j

(* A draft accounts for every difference between the candidate and the     *)
(* form: what changed is covered by a write, by a replaced list, or by a   *)
(* topology that carries each kept item's value with it unless the item is *)
(* recorded as written.  The edit states a commit keeps rest on this.      *)
DraftRecordsChanges ==
  draft # NoDraft =>
    RecordsChanges(draft.data, draft.writes, draft.itemWrites,
                   draft.replaced, draft.topology)

(* "Arrays restored unchanged retain their topology": a transaction whose  *)
(* writes leave the list as it was keeps the identities of its items.      *)
RestoredListKeepsIdentities ==
  [][Commit /\ ListOf(formData') = ListOf(formData)
       => Identities' = Identities]_hostVars
=============================================================================
