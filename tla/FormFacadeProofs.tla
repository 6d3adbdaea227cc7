-------------------------- MODULE FormFacadeProofs --------------------------
(***************************************************************************)
(* Theorems about FormFacade, for every value of its constants: the form's *)
(* own invariant survives what the facade adds; the validation outcome and *)
(* the external findings it retains are about the present form data; the   *)
(* findings and the edit buffers stay within their limits, and the         *)
(* findings with their items.  Then, that FormFacade implements            *)
(* FormContract for every form whose list is no multiple choice: whatever  *)
(* operation is performed, every control, the list and every item that     *)
(* shows anything else than before is told, and an operation that tells of *)
(* nothing left everything as it was.  A form with a multiple choice tells *)
(* as much of everything but the findings of its items, which the list     *)
(* presents.                                                               *)
(***************************************************************************)
EXTENDS FormFacade, FormEngineProofs, FunctionTheorems

(* The inductive invariant of the facade: that of the form, the two        *)
(* properties of what it retains, and that every source has a batch.       *)
FInv ==
  /\ IInv
  /\ ValidationDescribesData
  /\ ExternalFindingsAreCurrent
  /\ external = [s \in Source |-> external[s]]

-----------------------------------------------------------------------------
(* What an operation of the facade does with the validation outcome and    *)
(* the external findings, when it is made of an operation of the engine:   *)
(* keep both of unchanged data, or renew both for new data, or move the    *)
(* findings of unchanged data with their items.                            *)
FindingsMoved ==
  \/ \E i, j \in 1..Len(items) : SwapFindings(i, j)
  \/ \E topology \in Seq(Nat), unmatched \in {"remove", "preserve"} :
       RebaseFindings(topology, unmatched)

Retains ==
  \/ ~DataRevised /\ UNCHANGED findingVars
  \/ Settle
  \/ Revalidate /\ IF DataRevised THEN external' = NoBatches ELSE FindingsMoved
  \/ validated' = formData' /\ external' = NoBatches

(* Moving findings makes no batch about other data.                        *)
LEMMA MovedIsCurrent ==
  ASSUME FInv, FindingsMoved, ~DataRevised
  PROVE  /\ ExternalFindingsAreCurrent'
         /\ external' = [s \in Source |-> external'[s]]
<1>1. dataRevision' = dataRevision
  BY DEF DataRevised
<1>2. Copies(NoBatch.findings) = {}
  BY DEF NoBatch, EmptyBag, SetToBag, BagToSet, Copies
<1>3. ASSUME NEW i, NEW j, SwapFindings(i, j)
      PROVE  /\ external' = [s \in Source |-> external'[s]]
             /\ \A s \in Source :
                  \/ external'[s] = NoBatch
                  \/ /\ external'[s].revision = external[s].revision
                     /\ external[s] # NoBatch
  <2>1. ASSUME NEW s \in Source
        PROVE  \/ external'[s] = NoBatch
               \/ /\ external'[s].revision = external[s].revision
                  /\ Copies(external[s].findings) # {}
    BY <1>3, <2>1 DEF SwapFindings, Moved
  <2>2. external' = [s \in Source |-> external'[s]]
    BY <1>3 DEF SwapFindings
  <2> QED
    BY <1>2, <2>1, <2>2
<1>4. ASSUME NEW topology, NEW unmatched, RebaseFindings(topology, unmatched)
      PROVE  /\ external' = [s \in Source |-> external'[s]]
             /\ \A s \in Source :
                  \/ external'[s] = NoBatch
                  \/ /\ external'[s].revision = external[s].revision
                     /\ external[s] # NoBatch
  <2>1. ASSUME NEW s \in Source
        PROVE  \/ external'[s] = NoBatch
               \/ /\ external'[s].revision = external[s].revision
                  /\ Copies(external[s].findings) # {}
    BY <1>4, <2>1 DEF RebaseFindings, Moved
  <2>2. external' = [s \in Source |-> external'[s]]
    BY <1>4 DEF RebaseFindings
  <2> QED
    BY <1>2, <2>1, <2>2
<1> QED
  BY <1>1, <1>3, <1>4 DEF FindingsMoved, FInv, ExternalFindingsAreCurrent

(* Whatever an operation does of these, both are about the data after it.  *)
LEMMA RetainsPreserves ==
  ASSUME FInv, RevisionStep, Retains
  PROVE  /\ ValidationDescribesData' /\ ExternalFindingsAreCurrent'
         /\ external' = [s \in Source |-> external'[s]]
<1>1. ~DataRevised => UNCHANGED <<formData, dataRevision>>
  BY DEF RevisionStep, DataRevised
<1>2. /\ external' = NoBatches => external' = [s \in Source |-> external'[s]]
      /\ external' = NoBatches => ExternalFindingsAreCurrent'
  BY DEF NoBatches, ExternalFindingsAreCurrent
<1>3. UNCHANGED <<external, dataRevision>> =>
        /\ ExternalFindingsAreCurrent'
        /\ external' = [s \in Source |-> external'[s]]
  BY DEF FInv, ExternalFindingsAreCurrent
<1>4. CASE ~DataRevised /\ UNCHANGED findingVars
  BY <1>1, <1>3, <1>4 DEF findingVars, FInv, ValidationDescribesData
<1>5. CASE Settle
  BY <1>1, <1>2, <1>3, <1>5
  DEF Settle, Revalidate, ClearFindings, FInv, ValidationDescribesData
<1>6. CASE /\ Revalidate
           /\ IF DataRevised THEN external' = NoBatches ELSE FindingsMoved
  BY <1>1, <1>2, <1>6, MovedIsCurrent
  DEF Revalidate, FInv, ValidationDescribesData
<1>7. CASE validated' = formData' /\ external' = NoBatches
  BY <1>2, <1>7 DEF ValidationDescribesData
<1> QED
  BY <1>4, <1>5, <1>6, <1>7 DEF Retains

-----------------------------------------------------------------------------
(* Every action of a user is one operation of the engine.                  *)
LEMMA UserActionOperates ==
  IInv /\ UserAction => UserOperation /\ Retains
<1> SUFFICES ASSUME IInv, UserAction PROVE UserOperation /\ Retains
  OBVIOUS
<1> DEFINE Kept == ~DataRevised /\ UNCHANGED findingVars
<1>1. ASSUME NEW n, AdvanceRevisions(FALSE, n) PROVE ~DataRevised
  BY <1>1 DEF AdvanceRevisions, DataRevised, IInv, TypeOK
<1>2. ASSUME NEW c \in Control
      PROVE  /\ \A text \in Text : InputText(c, text) => EditControl /\ Settle
             /\ \A v \in Value \cup {Null} :
                  AssignValue(c, v) => EditControl /\ Settle
             /\ RemoveValue(c) => EditControl /\ Settle
             /\ BlurControl(c) => EditControl /\ Kept
  BY <1>1 DEF InputText, AssignValue, RemoveValue, BlurControl, EditControl,
              Blur
<1>3. ASSUME NEW i \in 1..Len(items)
      PROVE  /\ \A text \in Text :
                  InputItemText(i, text) => EditItem /\ Settle
             /\ \A v \in Value \cup {Null} :
                  AssignItemValue(i, v) => EditItem /\ Settle
             /\ BlurItemControl(i) => EditItem /\ Kept
  BY <1>1 DEF InputItemText, AssignItemValue, BlurItemControl, EditItem,
              BlurItem
<1>4. BlurList => ChangeCollection /\ Kept
  BY <1>1 DEF BlurList, ChangeCollection, BlurArray
<1>5. StructuralEdit => ChangePresence /\ Settle
  BY DEF StructuralEdit, ChangePresence
<1>6. ArrayOperation => ChangeCollection /\ Retains
  <2>1. ASSUME NEW i \in 1..Len(items) + 1, AddItem(i)
        PROVE  ChangeCollection /\ Settle
    BY <2>1 DEF AddItem, ChangeCollection, InsertArrayItemBefore
  <2>2. ASSUME NEW i \in 1..Len(items), RemoveItemAt(i)
        PROVE  ChangeCollection /\ Settle
    BY <2>2 DEF RemoveItemAt, ChangeCollection
  <2>3. ASSUME NEW i \in 1..Len(items), NEW j \in {i - 1, i + 1},
               MoveItemTo(i, j)
        PROVE  ChangeCollection /\ Retains
    <3>1. MoveArrayItem(i, j) /\ j \in 1..Len(items)
      BY <2>3 DEF MoveItemTo, MoveArrayItem
    <3>2. ChangeCollection
      BY <2>3, <3>1 DEF ChangeCollection
    <3>3. CASE DataRevised
      BY <2>3, <3>2, <3>3 DEF MoveItemTo, Retains
    <3>4. CASE ~DataRevised
      BY <2>3, <3>1, <3>2, <3>4
      DEF MoveItemTo, Retains, FindingsMoved, Revalidate
    <3> QED
      BY <3>2, <3>3, <3>4
  <2>4. ASSUME NEW v \in Value, ToggleChoice(v)
        PROVE  ChangeCollection /\ Settle
    BY <2>4 DEF ToggleChoice, ChangeCollection
  <2> QED
    BY <2>1, <2>2, <2>3, <2>4 DEF ArrayOperation, Retains
<1> QED
  BY <1>2, <1>3, <1>4, <1>5, <1>6 DEF UserAction, UserOperation, Retains

-----------------------------------------------------------------------------
(* A call of the host is an operation of the engine, or changes none of    *)
(* the form's state but its revision.                                      *)
SettingsChanged ==
  /\ UNCHANGED <<formData, baseline, controls, topologyVars, arrayTouched,
                 submissionAttempted>>
  /\ \E changed \in BOOLEAN : AdvanceRevisions(FALSE, changed)

(* Read-only and visibility leave form and findings alone.                 *)
LEMMA SettingsPreserve ==
  ASSUME IInv, SettingsChanged
  PROVE  IInv' /\ UNCHANGED <<formData, dataRevision>>
<1>1. dataRevision' = dataRevision /\ stateRevision' \in Nat
  BY DEF SettingsChanged, AdvanceRevisions, IInv, TypeOK
<1> QED
  BY <1>1 DEF SettingsChanged, topologyVars, IInv, TypeOK,
              TopologyMatchesData, IdentitiesDistinct, Count

(* The identities of the items are a topology.                             *)
LEMMA IdentitiesType ==
  /\ IInv => Identities \in Seq(Nat) /\ Len(Identities) = Len(items)
  /\ IInv' => Identities' \in Seq(Nat) /\ Len(Identities') = Len(items')
<1>1. ASSUME NEW s \in Seq(ItemState)
      PROVE  /\ [i \in 1..Len(s) |-> s[i].identity] \in Seq(Nat)
             /\ Len([i \in 1..Len(s) |-> s[i].identity]) = Len(s)
  <2>1. Len(s) \in Nat /\ \A i \in 1..Len(s) : s[i] \in ItemState
    BY LenProperties
  <2>2. \A i \in 1..Len(s) : s[i].identity \in Nat
    BY <2>1 DEF ItemState
  <2> QED
    BY <2>1, <2>2
<1> QED
  BY <1>1 DEF IInv, TypeOK, Identities

(* A submission, a reset or a reinitialization is one of the engine.       *)
Lifecycled ==
  FinalizeSubmission \/ ResetForm \/ \E d \in HostData : ReinitializeForm(d)

LEMMA LifecycledOperates ==
  ASSUME FInv, Lifecycled
  PROVE  Lifecycle /\ Retains
<1>1. FinalizeSubmission => Lifecycle /\ Retains
  <2>1. ASSUME NEW n, AdvanceRevisions(FALSE, n) PROVE ~DataRevised
    BY <2>1 DEF AdvanceRevisions, DataRevised, FInv, IInv, TypeOK
  <2> QED
    BY <2>1 DEF FinalizeSubmission, PrepareSubmission, Lifecycle, Retains
<1>2. ResetForm => Lifecycle /\ Retains
  <2> SUFFICES ASSUME ResetForm PROVE Lifecycle /\ Retains
    OBVIOUS
  <2>1. Lifecycle
    BY DEF ResetForm, Lifecycle
  <2>2. Identities' \in Seq(Nat)
    BY <2>1, LifecyclePreserves, IdentitiesType DEF FInv
  <2> QED
    BY <2>1, <2>2 DEF ResetForm, Retains, FindingsMoved
<1>3. ASSUME NEW d \in HostData, ReinitializeForm(d)
      PROVE  Lifecycle /\ Retains
  BY <1>3 DEF ReinitializeForm, Lifecycle, Retains
<1> QED
  BY <1>1, <1>2, <1>3 DEF Lifecycled

(* A call of the host is an operation of the form, or a setting.           *)
LEMMA HostActionOperates ==
  ASSUME FInv, HostAction
  PROVE  \/ Lifecycle /\ Retains
         \/ /\ SettingsChanged
            /\ UNCHANGED validated
            /\ \/ UNCHANGED external
               \/ ExternalFindingsAreCurrent'
            /\ external' = [s \in Source |-> external'[s]]
<1> DEFINE Setting == /\ SettingsChanged
                      /\ UNCHANGED validated
                      /\ \/ UNCHANGED external
                         \/ ExternalFindingsAreCurrent'
                      /\ external' = [s \in Source |-> external'[s]]
<1>1. ASSUME NEW s \in Source, NEW F \in Batches, NEW revision,
             ApplyExternalFindings(s, revision, F)
      PROVE  Setting
  <2>1. SettingsChanged /\ UNCHANGED validated /\ revision = dataRevision
    BY <1>1 DEF ApplyExternalFindings, SettingsChanged
  <2>2. dataRevision' = dataRevision
    BY <2>1, SettingsPreserve DEF FInv
  <2> DEFINE batch == IF F = {} THEN NoBatch
                      ELSE [revision |-> revision, findings |-> SetToBag(F)]
  <2>3. batch = NoBatch \/ batch.revision = dataRevision
    BY <2>1
  <2>4. external' = [external EXCEPT ![s] = batch]
    BY <1>1 DEF ApplyExternalFindings
  <2> HIDE DEF batch
  <2>5. /\ external' = [r \in Source |-> external'[r]]
        /\ \A r \in Source :
             external'[r] = IF r = s THEN batch ELSE external[r]
    BY <2>4 DEF FInv
  <2>6. ExternalFindingsAreCurrent'
    BY <2>2, <2>3, <2>5 DEF FInv, ExternalFindingsAreCurrent
  <2> QED
    BY <2>1, <2>5, <2>6
<1>2. ASSUME NEW flag \in BOOLEAN, SetReadOnly(flag) PROVE Setting
  BY <1>2
  DEF SetReadOnly, MarkStateChanged, SettingsChanged, findingVars, FInv
<1>3. ASSUME NEW policy \in Policies, SetFindingVisibility(policy)
      PROVE  Setting
  BY <1>3
  DEF SetFindingVisibility, MarkStateChanged, SettingsChanged, findingVars, FInv
<1>4. Lifecycled => Lifecycle /\ Retains
  BY LifecycledOperates
<1> QED
  BY <1>1, <1>2, <1>3, <1>4 DEF HostAction, Lifecycled

(* A committed host transaction.                                           *)
LEMMA TransactPreserves ==
  ASSUME FInv, NEW d \in HostData, NEW writes, NEW indices,
         NEW replace \in BOOLEAN, NEW topology \in Seq(Nat),
         Transact(d, writes, indices, replace, topology)
  PROVE  IInv' /\ RevisionStep /\ Retains
<1>1. ApplyHostTransaction(d, writes, WrittenItems(writes, indices),
                           replace, topology)
  BY DEF Transact
<1>2. Retains
  BY DEF Transact, Retains, FindingsMoved
<1>3. d \in Tree
  BY FormEngineAssumption DEF FormEngineAssumption
<1> QED
  BY <1>1, <1>2, <1>3, HostStepPreserves, HostStepRevises DEF FInv

(* A transaction keeps the invariant and revises like an operation.        *)
LEMMA HostTransactPreserves ==
  ASSUME FInv, HostTransact
  PROVE  IInv' /\ RevisionStep /\ Retains
<1>1. PICK d \in HostData, writes \in WriteSets,
           indices \in SUBSET (1..Len(items)) :
        \/ Transact(d, writes, indices, TRUE, <<>>)
        \/ \E topology \in Topologies(Count(d)) :
             Transact(d, writes, indices, FALSE, topology)
  BY DEF HostTransact
<1>2. <<>> \in Seq(Nat)
  BY EmptySeq
<1> QED
  BY <1>1, <1>2, TransactPreserves, TopologyIsSequence DEF FInv

-----------------------------------------------------------------------------
(* A new form has an outcome about its data and no findings.               *)
LEMMA FacadeInitInvariant == FacadeInit => FInv
<1> SUFFICES ASSUME FacadeInit PROVE FInv
  OBVIOUS
<1>1. external = [s \in Source |-> NoBatch]
  BY DEF FacadeInit, NoBatches
<1> QED
  BY <1>1, InitInvariant
  DEF FacadeInit, FInv, ValidationDescribesData, ExternalFindingsAreCurrent

(* Every call of the facade preserves the invariant.                       *)
LEMMA FacadeNextPreserves == FInv /\ [FacadeNext]_facadeVars => FInv'
<1> SUFFICES ASSUME FInv, [FacadeNext]_facadeVars PROVE FInv'
  OBVIOUS
<1>1. ASSUME IInv', RevisionStep, Retains PROVE FInv'
  BY <1>1, RetainsPreserves DEF FInv
<1>2. CASE UserAction
  BY <1>1, <1>2, UserActionOperates, UserOperationPreserves,
     UserOperationRevises DEF FInv
<1>3. CASE HostAction
  <2>1. CASE Lifecycle /\ Retains
    BY <1>1, <2>1, LifecyclePreserves, LifecycleRevises DEF FInv
  <2>2. CASE /\ SettingsChanged
             /\ UNCHANGED validated
             /\ UNCHANGED external \/ ExternalFindingsAreCurrent'
             /\ external' = [s \in Source |-> external'[s]]
    BY <2>2, SettingsPreserve
    DEF FInv, ValidationDescribesData, ExternalFindingsAreCurrent
  <2> QED
    BY <1>3, <2>1, <2>2, HostActionOperates
<1>4. CASE HostTransact
  BY <1>1, <1>4, HostTransactPreserves
<1>5. CASE UNCHANGED facadeVars
  <2>1. IInv'
    BY <1>5, NextPreserves DEF FInv, facadeVars
  <2> QED
    BY <1>5, <2>1 DEF FInv, facadeVars, vars, ValidationDescribesData,
                      ExternalFindingsAreCurrent
<1> QED
  BY <1>2, <1>3, <1>4, <1>5 DEF FacadeNext

(* The form keeps its invariant under everything the facade does with it.  *)
THEOREM FacadeInvariant == FacadeSpec => []FInv
BY FacadeInitInvariant, FacadeNextPreserves, PTL DEF FacadeSpec

(* The list has one item state per value whatever the public interface is  *)
(* used for, host transactions and settings included.                      *)
THEOREM FacadeTopologyAgreement == FacadeSpec => []TopologyMatchesData
<1>1. FInv => TopologyMatchesData
  BY DEF FInv, IInv
<1> QED
  BY <1>1, FacadeInvariant, PTL

(* The retained validation outcome is about the present form data: no path *)
(* of the facade changes the data and leaves the validation behind.        *)
THEOREM ValidationCurrent == FacadeSpec => []ValidationDescribesData
<1>1. FInv => ValidationDescribesData
  BY DEF FInv
<1> QED
  BY <1>1, FacadeInvariant, PTL

(* So are the external findings: no batch outlives the data it is about.   *)
THEOREM ExternalFindingsCurrent == FacadeSpec => []ExternalFindingsAreCurrent
<1>1. FInv => ExternalFindingsAreCurrent
  BY DEF FInv
<1> QED
  BY <1>1, FacadeInvariant, PTL
-----------------------------------------------------------------------------
(* The text being edited goes with its value under the facade too, ...     *)
FacadeEditInv == FInv /\ EditStatesDescribeValues

(* Every step of the facade leaves text with the value it stands over.     *)
LEMMA FacadeEditInvPreserved ==
  FacadeEditInv /\ [FacadeNext]_facadeVars => FacadeEditInv'
<1> SUFFICES ASSUME FacadeEditInv, [FacadeNext]_facadeVars
             PROVE  EditStatesDescribeValues'
  BY FacadeNextPreserves DEF FacadeEditInv
<1>1. FInv /\ IInv /\ EditInv
  BY DEF FacadeEditInv, FInv, EditInv
<1>2. CASE UserOperation \/ Lifecycle
  BY <1>1, <1>2, OperationKeepsEditInv DEF EditInv
<1>3. CASE SettingsChanged
  BY <1>1, <1>3 DEF SettingsChanged, topologyVars, EditInv,
                    EditStatesDescribeValues
<1>4. CASE UserAction
  BY <1>1, <1>2, <1>4, UserActionOperates
<1>5. CASE HostAction
  BY <1>1, <1>2, <1>3, <1>5, HostActionOperates
<1>6. ASSUME NEW d \in HostData, NEW writes, NEW indices,
             NEW replace \in BOOLEAN, NEW topology \in Seq(Nat),
             Transact(d, writes, indices, replace, topology)
      PROVE  EditStatesDescribeValues'
  <2>1. d \in Tree
    BY FormEngineAssumption DEF FormEngineAssumption
  <2>2. /\ RecordsChanges(d, writes, WrittenItems(writes, indices), replace,
                          topology)
        /\ ApplyHostTransaction(d, writes, WrittenItems(writes, indices),
                                replace, topology)
    BY <1>6 DEF Transact
  <2> QED
    BY <1>1, <2>1, <2>2, HostStepKeepsEditInv DEF EditInv
<1>7. CASE HostTransact
  <2>1. PICK d \in HostData, writes \in WriteSets,
             indices \in SUBSET (1..Len(items)) :
          \/ Transact(d, writes, indices, TRUE, <<>>)
          \/ \E topology \in Topologies(Count(d)) :
               Transact(d, writes, indices, FALSE, topology)
    BY <1>7 DEF HostTransact
  <2>2. <<>> \in Seq(Nat)
    BY EmptySeq
  <2> QED
    BY <1>1, <1>6, <2>1, <2>2, TopologyIsSequence
<1>8. CASE UNCHANGED facadeVars
  BY <1>1, <1>8 DEF facadeVars, vars, EditInv, EditStatesDescribeValues
<1> QED
  BY <1>4, <1>5, <1>7, <1>8 DEF FacadeNext

(* Text goes with its value whatever is called.                            *)
LEMMA FacadeEditInvariant == FacadeSpec => []FacadeEditInv
<1>1. FacadeInit => FacadeEditInv
  BY FacadeInitInvariant, EditInvInitial DEF FacadeInit, FacadeEditInv, EditInv
<1> QED
  BY <1>1, FacadeEditInvPreserved, PTL DEF FacadeSpec

(* ... which makes a submission one of what the user sees.                 *)
LEMMA FinalizedText ==
  ASSUME NEW s \in ControlState, NEW c, NEW v, NEW p, DescribesValue(s, c, v, p),
         ~FinalizeEditBuffer(s).blocked
  PROVE  /\ FinalizeEditBuffer(s).buffer = NoText
         /\ s.buffer # NoText => Parse[s.buffer] = v
<1>1. s.blocked = FALSE
  BY DEF FinalizeEditBuffer, ControlState
<1> QED
  BY <1>1 DEF FinalizeEditBuffer, ControlState, DescribesValue

(* A form that is ready has nothing left that blocks.                      *)
LEMMA ReadyMeans ==
  ASSUME Ready', IdentitiesDistinct'
  PROVE  /\ \A c \in Control : ~controls'[c].blocked
         /\ \A i \in 1..Len(items') : ~items'[i].control.blocked
         /\ ViolationsOf(validated') = {}
<1>1. /\ {c \in Control : controls'[c].blocked} = {}
      /\ {id \in ItemIds' : items'[IndexOf(id)'].control.blocked} = {}
      /\ ViolationsOf(validated') = {}
  BY DEF Ready, Blockers
<1>2. ASSUME NEW i \in 1..Len(items') PROVE ~items'[i].control.blocked
  <2>1. (CHOOSE k \in 1..Len(items') : items'[k].identity = items'[i].identity) = i
    BY DEF IdentitiesDistinct
  <2>2. items'[i].identity \in ItemIds'
    BY DEF ItemIds
  <2> QED
    BY <1>1, <2>1, <2>2 DEF IndexOf
<1> QED
  BY <1>1, <1>2

(* A submission that is ready has no text left, and every text there was   *)
(* parses to the submitted value; the submitted data has no violation,     *)
(* although the outcome is that of an earlier validation.                  *)
THEOREM ReadySubmits == FacadeSpec => ReadySubmitsWhatIsShown
<1> DEFINE Shown ==
      FinalizeSubmission /\ Ready' =>
        /\ \A c \in Control :
             /\ controls'[c].buffer = NoText
             /\ controls[c].buffer # NoText =>
                  Parse[controls[c].buffer] = formData'.value[c]
        /\ \A i \in 1..Len(items) :
             /\ items'[i].control.buffer = NoText
             /\ items[i].control.buffer # NoText =>
                  Parse[items[i].control.buffer] = formData'.items[i]
        /\ ViolationsOf(formData') = {}
<1>1. FacadeEditInv /\ FacadeEditInv' /\ [FacadeNext]_facadeVars
        => [Shown]_facadeVars
  <2> SUFFICES ASSUME FacadeEditInv, FacadeEditInv', FinalizeSubmission, Ready'
               PROVE  Shown
    OBVIOUS
  <2>1. /\ IInv /\ IInv'
        /\ EditStatesDescribeValues /\ ValidationDescribesData'
    BY DEF FacadeEditInv, FInv
  <2>2. /\ \A c \in Control : ~controls'[c].blocked
        /\ \A i \in 1..Len(items') : ~items'[i].control.blocked
        /\ ViolationsOf(validated') = {}
    BY <2>1, ReadyMeans DEF IInv
  <2>3. /\ formData' = formData
        /\ controls' = [c \in Control |-> FinalizeEditBuffer(controls[c])]
        /\ items' = [i \in 1..Len(items) |->
                      [items[i] EXCEPT !.control = FinalizeEditBuffer(@)]]
    BY DEF FinalizeSubmission, PrepareSubmission
  <2>4. ASSUME NEW c \in Control
        PROVE  /\ controls'[c].buffer = NoText
               /\ controls[c].buffer # NoText =>
                    Parse[controls[c].buffer] = formData'.value[c]
    <3>1. /\ controls[c] \in ControlState
          /\ controls'[c] = FinalizeEditBuffer(controls[c])
      BY <2>1, <2>3, InvariantFacts
    <3>2. DescribesValue(controls[c], c, formData.value[c],
                         ParentIsObject(formData, c))
      BY <2>1 DEF EditStatesDescribeValues
    <3> QED
      BY <2>2, <2>3, <3>1, <3>2, FinalizedText
  <2>5. ASSUME NEW i \in 1..Len(items)
        PROVE  /\ items'[i].control.buffer = NoText
               /\ items[i].control.buffer # NoText =>
                    Parse[items[i].control.buffer] = formData'.items[i]
    <3>1. items[i] \in ItemState /\ items[i].control \in ControlState
      BY <2>1, ItemControlType
    <3>2. items'[i].control = FinalizeEditBuffer(items[i].control)
      BY <2>3, <3>1 DEF ItemState
    <3>3. i \in 1..Len(items')
      BY <2>1, <2>3, InvariantFacts
    <3>4. DescribesValue(items[i].control, ItemTemplate, formData.items[i], TRUE)
      BY <2>1 DEF EditStatesDescribeValues
    <3>5. ~FinalizeEditBuffer(items[i].control).blocked
      BY <2>2, <3>2, <3>3
    <3> QED
      BY <2>3, <3>1, <3>2, <3>4, <3>5, FinalizedText
  <2>6. ViolationsOf(formData') = {}
    BY <2>1, <2>2 DEF ValidationDescribesData
  <2> QED
    BY <2>4, <2>5, <2>6
<1> QED
  BY <1>1, FacadeEditInvariant, PTL DEF FacadeSpec, ReadySubmitsWhatIsShown
-----------------------------------------------------------------------------
(***************************************************************************)
(* What the facade retains: how many external findings and edit buffers    *)
(* there are, whatever moves them, and where the findings of an item go.   *)
(***************************************************************************)

Gathered(kept, to) ==
  [f \in {to[copy] : copy \in kept} |-> Cardinality({copy \in kept : to[copy] = f})]

(* What is gathered is a bag with no more copies than there were.          *)
LEMMA Gathering ==
  ASSUME NEW kept, IsFiniteSet(kept), NEW to
  PROVE  /\ IsABag(Gathered(kept, to))
         /\ ExistsInjection(Copies(Gathered(kept, to)), kept)
<1> DEFINE bag == Gathered(kept, to)
           From(f) == {copy \in kept : to[copy] = f}
<1>1. ASSUME NEW f \in DOMAIN bag
      PROVE  /\ bag[f] = Cardinality(From(f)) /\ bag[f] \in Nat /\ bag[f] > 0
             /\ ExistsBijection(1..bag[f], From(f))
  <2>1. bag[f] = Cardinality(From(f))
    BY DEF Gathered
  <2>2. IsFiniteSet(From(f))
    BY FS_Subset
  <2>3. From(f) # {}
    BY DEF Gathered
  <2> QED
    BY <2>1, <2>2, <2>3, FS_CardinalityType, FS_EmptySet
<1>2. IsABag(bag)
  <2>1. bag = [f \in DOMAIN bag |-> bag[f]]
    BY DEF Gathered
  <2> QED
    BY <1>1, <2>1 DEF IsABag
<1> DEFINE number == [f \in DOMAIN bag |-> CHOOSE b : b \in Bijection(1..bag[f], From(f))]
           back   == [copy \in Copies(bag) |-> number[copy[1]][copy[2]]]
<1>3. ASSUME NEW f \in DOMAIN bag
      PROVE  /\ number[f] \in [1..bag[f] -> From(f)]
             /\ \A k, m \in 1..bag[f] : number[f][k] = number[f][m] => k = m
  <2>1. number[f] \in Bijection(1..bag[f], From(f))
    BY <1>1 DEF ExistsBijection
  <2> HIDE DEF number, bag, From
  <2> QED
    BY <2>1, Fun_BijectionProperties
<1>4. ASSUME NEW copy \in Copies(bag)
      PROVE  /\ copy = <<copy[1], copy[2]>>
             /\ copy[1] \in DOMAIN bag /\ copy[2] \in 1..bag[copy[1]]
             /\ back[copy] \in From(copy[1])
  <2> HIDE DEF bag, number, From
  <2>1. PICK f \in DOMAIN bag : copy \in {f} \X (1..bag[f])
    BY DEF Copies, BagToSet
  <2>2. copy = <<copy[1], copy[2]>> /\ copy[1] = f /\ copy[2] \in 1..bag[f]
    BY <2>1
  <2> QED
    BY <1>3, <2>2
<1>5. ASSUME NEW a \in Copies(bag), NEW b \in Copies(bag), back[a] = back[b]
      PROVE  a = b
  <2>1. a[1] = b[1]
    <3>1. back[a] \in From(a[1]) /\ back[b] \in From(b[1])
      BY <1>4
    <3>2. to[back[a]] = a[1] /\ to[back[b]] = b[1]
      BY <3>1
    <3> QED
      BY <1>5, <3>2
  <2> HIDE DEF bag, number, From
  <2>2. a[2] = b[2]
    BY <1>3, <1>4, <1>5, <2>1
  <2> QED
    BY <1>4, <2>1, <2>2
<1>6. back \in Injection(Copies(bag), kept)
  <2>1. back \in [Copies(bag) -> kept]
    BY <1>4
  <2> HIDE DEF back, bag
  <2> QED
    BY <1>5, <2>1, Fun_IsInj
<1> QED
  BY <1>2, <1>6 DEF bag, ExistsInjection
(* A batch sends at most as many findings to others as it has.             *)
LEMMA CountFollows ==
  ASSUME NEW a, NEW b, IsFiniteSet(Active(b)),
         \A s \in Source :
           ExistsInjection(Copies(a[s].findings), Copies(b[s].findings))
  PROVE  IsFiniteSet(Active(a)) /\ FindingCount(a) <= FindingCount(b)
<1> DEFINE A(s) == Copies(a[s].findings)
           B(s) == Copies(b[s].findings)
           sent == [s \in Source |-> CHOOSE h : h \in Injection(A(s), B(s))]
           send == [x \in Active(a) |-> <<x[1], sent[x[1]][x[2]]>>]
<1>1. ASSUME NEW s \in Source
      PROVE  /\ sent[s] \in [A(s) -> B(s)]
             /\ \A x, y \in A(s) : sent[s][x] = sent[s][y] => x = y
  <2>1. sent[s] \in Injection(A(s), B(s))
    BY DEF ExistsInjection
  <2> HIDE DEF sent, A, B
  <2> QED
    BY <2>1, Fun_InjectionProperties
<1>2. \A x : x \in Active(a) <=> /\ x = <<x[1], x[2]>>
                                 /\ x[1] \in Source /\ x[2] \in A(x[1])
  BY DEF Active
<1>3. \A s \in Source : \A y \in B(s) : <<s, y>> \in Active(b)
  BY DEF Active
<1> HIDE DEF sent, A, B
<1>4. send \in [Active(a) -> Active(b)]
  <2> SUFFICES ASSUME NEW x \in Active(a)
               PROVE  <<x[1], sent[x[1]][x[2]]>> \in Active(b)
    OBVIOUS
  <2>1. x[1] \in Source /\ x[2] \in A(x[1])
    BY <1>2
  <2>2. sent[x[1]][x[2]] \in B(x[1])
    BY <1>1, <2>1
  <2> QED
    BY <1>3, <2>1, <2>2
<1>5. ASSUME NEW x \in Active(a), NEW y \in Active(a), send[x] = send[y]
      PROVE  x = y
  <2>1. x[1] = y[1] /\ sent[x[1]][x[2]] = sent[y[1]][y[2]]
    BY <1>5
  <2> HIDE DEF send
  <2>2. x[2] = y[2]
    BY <1>1, <1>2, <2>1
  <2> QED
    BY <1>2, <2>1, <2>2
<1> HIDE DEF send
<1>6. send \in Injection(Active(a), Active(b))
  BY <1>4, <1>5, Fun_IsInj
<1> QED
  BY <1>6, FS_Injection DEF FindingCount

(* What a source supplies is finite when all that is supplied is.          *)
LEMMA CopiesFinite ==
  ASSUME NEW b, IsFiniteSet(Active(b)), NEW s \in Source
  PROVE  IsFiniteSet(Copies(b[s].findings))
<1> DEFINE C == Copies(b[s].findings)
           h == [x \in C |-> <<s, x>>]
<1>1. \A x \in C : <<s, x>> \in Active(b)
  BY DEF Active
<1> HIDE DEF C
<1>2. h \in [C -> Active(b)]
  BY <1>1
<1>3. \A x, y \in C : h[x] = h[y] => x = y
  OBVIOUS
<1> HIDE DEF h
<1>4. h \in Injection(C, Active(b))
  BY <1>2, <1>3, Fun_IsInj
<1> QED
  BY <1>4, FS_Injection DEF C

(* The number of copies of an element.                                     *)
LEMMA CopiesOfOne ==
  ASSUME NEW bag, IsABag(bag), NEW f \in BagToSet(bag)
  PROVE  /\ IsFiniteSet({copy \in Copies(bag) : copy[1] = f})
         /\ Cardinality({copy \in Copies(bag) : copy[1] = f}) = bag[f]
<1> DEFINE C == {copy \in Copies(bag) : copy[1] = f}
           h == [k \in 1..bag[f] |-> <<f, k>>]
<1>1. bag[f] \in Nat /\ bag[f] > 0
  BY DEF IsABag, BagToSet
<1>2. C = {<<f, k>> : k \in 1..bag[f]}
  BY DEF Copies
<1> HIDE DEF C
<1>3. h \in Bijection(1..bag[f], C)
  BY <1>2, Fun_IsBij
<1>4. IsFiniteSet(1..bag[f]) /\ Cardinality(1..bag[f]) = bag[f]
  <2>1. PICK n \in Nat : n = bag[f] /\ n > 0
    BY <1>1
  <2>2. IsFiniteSet(1..n) /\ Cardinality(1..n) = n
    <3>1. 1 \in Int /\ n \in Int /\ ~(1 > n) /\ n - 1 + 1 = n
      BY <2>1
    <3> QED
      BY <3>1, FS_Interval
  <2> QED
    BY <2>1, <2>2
<1>5. ExistsBijection(1..bag[f], C)
  BY <1>3 DEF ExistsBijection
<1> QED
  BY <1>4, <1>5, FS_Bijection DEF C

-----------------------------------------------------------------------------
(* A batch of findings at locations of the form.                           *)
ABatch(b) ==
  /\ IsABag(b.findings)
  /\ BagToSet(b.findings) \subseteq [at : Locations, blocking : BOOLEAN]
  /\ b.revision \in Nat

(* Moved, of the locations that keep their findings and where these go.    *)
KeptBy(batch, keep) == {copy \in Copies(batch.findings) : copy[1].at \in keep}
Destination(batch, keep, where) ==
  [copy \in KeptBy(batch, keep) |-> [copy[1] EXCEPT !.at = where[copy[1].at]]]
MovedTo(batch, keep, where) ==
  IF KeptBy(batch, keep) = {} THEN NoBatch
  ELSE [revision |-> batch.revision,
        findings |-> Gathered(KeptBy(batch, keep),
                              Destination(batch, keep, where))]

(* A copy is a finding of the batch with a number.                         *)
LEMMA CopyType ==
  ASSUME NEW batch, ABatch(batch), NEW copy \in Copies(batch.findings)
  PROVE  /\ copy = <<copy[1], copy[2]>>
         /\ copy[1] \in BagToSet(batch.findings)
         /\ copy[1] \in [at : Locations, blocking : BOOLEAN]
         /\ copy[1].at \in Locations
<1>1. PICK f \in BagToSet(batch.findings) : copy \in {f} \X (1..batch.findings[f])
  BY DEF Copies
<1>2. copy = <<copy[1], copy[2]>> /\ copy[1] = f
  BY <1>1
<1>3. f \in [at : Locations, blocking : BOOLEAN]
  BY DEF ABatch
<1> QED
  BY <1>2, <1>3

(* The empty batch is a batch, and has no copy.                            *)
LEMMA NoBatchType == ABatch(NoBatch) /\ Copies(NoBatch.findings) = {}
<1>1. NoBatch.findings = EmptyBag /\ NoBatch.revision = 0
  BY DEF NoBatch
<1>2. IsABag(EmptyBag) /\ BagToSet(EmptyBag) = {}
  BY DEF EmptyBag, SetToBag, BagToSet, IsABag
<1> QED
  BY <1>1, <1>2 DEF ABatch, Copies

(* Moving findings gives a batch again, with no more copies.               *)
LEMMA MovedToBatch ==
  ASSUME NEW batch, ABatch(batch), IsFiniteSet(Copies(batch.findings)),
         NEW keep, NEW where \in [Locations -> Locations]
  PROVE  /\ ABatch(MovedTo(batch, keep, where))
         /\ ExistsInjection(Copies(MovedTo(batch, keep, where).findings),
                            Copies(batch.findings))
<1> DEFINE kept == KeptBy(batch, keep)
           to   == Destination(batch, keep, where)
           bag  == Gathered(kept, to)
           M    == MovedTo(batch, keep, where)
<1> SUFFICES /\ ABatch(M)
             /\ ExistsInjection(Copies(M.findings), Copies(batch.findings))
  OBVIOUS
<1>1. kept \subseteq Copies(batch.findings)
  BY DEF KeptBy
<1>2. IsFiniteSet(kept)
  BY <1>1, FS_Subset
<1>3. IsABag(bag) /\ ExistsInjection(Copies(bag), kept)
  <2> HIDE DEF kept, to
  <2> QED
    BY <1>2, Gathering
<1>4. ASSUME NEW copy \in kept
      PROVE  to[copy] \in [at : Locations, blocking : BOOLEAN]
  <2>1. copy[1] \in [at : Locations, blocking : BOOLEAN]
    BY <1>1, CopyType
  <2>2. to[copy] = [copy[1] EXCEPT !.at = where[copy[1].at]]
    BY DEF Destination
  <2> QED
    BY <2>1, <2>2
<1>5. BagToSet(bag) \subseteq [at : Locations, blocking : BOOLEAN]
  <2> HIDE DEF kept, to
  <2> QED
    BY <1>4 DEF BagToSet, Gathered
<1>6. CASE kept = {}
  <2>1. M = NoBatch
    BY <1>6 DEF MovedTo
  <2>2. ExistsInjection({}, Copies(batch.findings))
    <3> DEFINE h == [x \in {} |-> x]
    <3>1. h \in Injection({}, Copies(batch.findings))
      BY Fun_IsInj
    <3> QED
      BY <3>1 DEF ExistsInjection
  <2> HIDE DEF M
  <2> QED
    BY <2>1, <2>2, NoBatchType
<1>7. CASE kept # {}
  <2>1. M.findings = bag /\ M.revision = batch.revision
    BY <1>7 DEF MovedTo
  <2> HIDE DEF kept, bag, M
  <2>2. PICK h \in Injection(Copies(bag), kept) : TRUE
    BY <1>3 DEF ExistsInjection
  <2>3. h \in Injection(Copies(bag), Copies(batch.findings))
    BY <1>1, <2>2, Fun_InjectionProperties, Fun_IsInj
  <2> QED
    BY <1>3, <1>5, <2>1, <2>3 DEF ABatch, ExistsInjection
<1> QED
  BY <1>6, <1>7

(* How often a batch holds a finding.                                      *)
Occurrences(batch, f) ==
  IF BagIn(f, batch.findings) THEN batch.findings[f] ELSE 0

(* A finding has as many copies as the batch has of it.                    *)
LEMMA OccurrencesAreCopies ==
  ASSUME NEW batch, ABatch(batch), NEW f
  PROVE  /\ IsFiniteSet({copy \in Copies(batch.findings) : copy[1] = f})
         /\ Cardinality({copy \in Copies(batch.findings) : copy[1] = f})
              = Occurrences(batch, f)
<1> DEFINE C == {copy \in Copies(batch.findings) : copy[1] = f}
<1>1. CASE f \in BagToSet(batch.findings)
  BY <1>1, CopiesOfOne DEF ABatch, Occurrences, BagIn
<1>2. CASE f \notin BagToSet(batch.findings)
  <2>1. C = {}
    BY <1>2, CopyType
  <2> QED
    BY <1>2, <2>1, FS_EmptySet DEF Occurrences, BagIn
<1> QED
  BY <1>1, <1>2

(* A finding of a moved batch has as many copies as were moved to it.      *)
LEMMA OccurrencesMoved ==
  ASSUME NEW batch, ABatch(batch), IsFiniteSet(Copies(batch.findings)),
         NEW keep, NEW where \in [Locations -> Locations], NEW f
  PROVE  Occurrences(MovedTo(batch, keep, where), f) =
           Cardinality({copy \in KeptBy(batch, keep) :
                          Destination(batch, keep, where)[copy] = f})
<1> DEFINE kept == KeptBy(batch, keep)
           to   == Destination(batch, keep, where)
           M    == MovedTo(batch, keep, where)
           C    == {copy \in kept : to[copy] = f}
<1> SUFFICES Occurrences(M, f) = Cardinality(C)
  OBVIOUS
<1>1. CASE C = {}
  <2>1. kept # {} => M.findings = Gathered(kept, to)
    BY DEF MovedTo
  <2>2. kept = {} => M.findings = EmptyBag
    BY DEF MovedTo, NoBatch
  <2> HIDE DEF kept, to, M
  <2>3. f \notin BagToSet(M.findings)
    BY <1>1, <2>1, <2>2 DEF Gathered, BagToSet, EmptyBag, SetToBag
  <2> QED
    BY <1>1, <2>3, FS_EmptySet DEF Occurrences, BagIn
<1>2. CASE C # {}
  <2>1. M.findings = Gathered(kept, to)
    BY <1>2 DEF MovedTo
  <2> HIDE DEF kept, to, M
  <2>2. f \in BagToSet(M.findings) /\ M.findings[f] = Cardinality(C)
    BY <1>2, <2>1 DEF Gathered, BagToSet
  <2> QED
    BY <2>2 DEF Occurrences, BagIn
<1> QED
  BY <1>1, <1>2

(* What lies at a place is at the place it moves to, perhaps with more.    *)
LEMMA MovedToGrows ==
  ASSUME NEW batch, ABatch(batch), IsFiniteSet(Copies(batch.findings)),
         NEW keep, NEW where \in [Locations -> Locations],
         NEW l \in keep, NEW blocking \in BOOLEAN
  PROVE  /\ Occurrences(batch, [at |-> l, blocking |-> blocking]) \in Nat
         /\ Occurrences(MovedTo(batch, keep, where),
                        [at |-> where[l], blocking |-> blocking]) \in Nat
         /\ Occurrences(MovedTo(batch, keep, where),
                        [at |-> where[l], blocking |-> blocking])
              >= Occurrences(batch, [at |-> l, blocking |-> blocking])
<1> DEFINE f == [at |-> l, blocking |-> blocking]
           g == [at |-> where[l], blocking |-> blocking]
           C == {copy \in Copies(batch.findings) : copy[1] = f}
           D == {copy \in KeptBy(batch, keep) :
                   Destination(batch, keep, where)[copy] = g}
<1>1. C \subseteq D
  <2> SUFFICES ASSUME NEW copy \in Copies(batch.findings), copy[1] = f
               PROVE  copy \in D
    OBVIOUS
  <2>1. copy \in KeptBy(batch, keep)
    BY DEF KeptBy
  <2>2. Destination(batch, keep, where)[copy] = g
    BY <2>1 DEF Destination
  <2> QED
    BY <2>1, <2>2
<1>2. IsFiniteSet(D)
  BY FS_Subset DEF KeptBy
<1> HIDE DEF C, D
<1>3. Cardinality(C) <= Cardinality(D)
      /\ Cardinality(C) \in Nat /\ Cardinality(D) \in Nat
  BY <1>1, <1>2, FS_Subset, FS_CardinalityType
<1>4. Cardinality(C) = Occurrences(batch, f)
  BY OccurrencesAreCopies DEF C
<1>5. Cardinality(D) = Occurrences(MovedTo(batch, keep, where), g)
  BY OccurrencesMoved DEF D
<1> QED
  BY <1>3, <1>4, <1>5

(* A place nothing else moves to and that stays keeps what lies there.     *)
LEMMA MovedToKeeps ==
  ASSUME NEW batch, ABatch(batch), IsFiniteSet(Copies(batch.findings)),
         NEW keep, NEW where \in [Locations -> Locations],
         NEW l \in Locations \cap keep, where[l] = l,
         \A m \in Locations \cap keep : where[m] = l => m = l,
         NEW blocking \in BOOLEAN
  PROVE  Occurrences(MovedTo(batch, keep, where),
                     [at |-> l, blocking |-> blocking])
           = Occurrences(batch, [at |-> l, blocking |-> blocking])
<1> DEFINE f == [at |-> l, blocking |-> blocking]
           C == {copy \in Copies(batch.findings) : copy[1] = f}
           D == {copy \in KeptBy(batch, keep) :
                   Destination(batch, keep, where)[copy] = f}
<1>1. ASSUME NEW copy \in Copies(batch.findings)
      PROVE  copy[1] = f <=> copy \in D
  <2>1. /\ copy[1] \in [at : Locations, blocking : BOOLEAN]
        /\ copy[1].at \in Locations
    BY CopyType
  <2>2. copy \in KeptBy(batch, keep) <=> copy[1].at \in keep
    BY DEF KeptBy
  <2>3. copy \in KeptBy(batch, keep) =>
          Destination(batch, keep, where)[copy] =
            [copy[1] EXCEPT !.at = where[copy[1].at]]
    BY DEF Destination
  <2>4. [copy[1] EXCEPT !.at = where[copy[1].at]] = f
          <=> where[copy[1].at] = l /\ copy[1].blocking = blocking
    BY <2>1
  <2>5. copy[1] = f <=> copy[1].at = l /\ copy[1].blocking = blocking
    BY <2>1
  <2> QED
    BY <2>1, <2>2, <2>3, <2>4, <2>5
<1>2. D \subseteq Copies(batch.findings)
  BY DEF KeptBy
<1> HIDE DEF f, D
<1>3. C = D
  BY <1>1, <1>2
<1>4. Cardinality(C) = Occurrences(batch, f)
  BY OccurrencesAreCopies
<1>5. Cardinality(D) = Occurrences(MovedTo(batch, keep, where), f)
  BY OccurrencesMoved DEF D
<1> QED
  BY <1>3, <1>4, <1>5 DEF f

-----------------------------------------------------------------------------
(* The locations that move when two neighbours exchange their findings,    *)
SwapWhere(i, j) ==
  [l \in Locations |-> IF l = AtItem(i) THEN AtItem(j)
                       ELSE IF l = AtItem(j) THEN AtItem(i) ELSE l]

(* and when items go where a topology has them.                            *)
IsGone(topology, l) ==
  /\ l.index \in 1..Len(items)
  /\ \A j \in 1..Len(topology) : topology[j] # items[l.index].identity
RebaseKeep(topology, unmatched) ==
  {l \in Locations : IsGone(topology, l) => unmatched = "preserve"}
RebaseWhere(topology) ==
  [l \in Locations |->
     IF l.index \in 1..Len(items) /\ ~IsGone(topology, l)
     THEN AtItem(CHOOSE j \in 1..Len(topology) :
                   topology[j] = items[l.index].identity)
     ELSE l]

MovedAll(keep, where) ==
  external' = [s \in Source |-> MovedTo(external[s], keep, where)]

(* Two neighbours exchanging findings is one function of places.           *)
LEMMA SwapIsMove ==
  ASSUME \A s \in Source : ABatch(external[s]),
         NEW i \in Nat, NEW j \in Nat, SwapFindings(i, j)
  PROVE  /\ SwapWhere(i, j) \in [Locations -> Locations]
         /\ MovedAll(Locations, SwapWhere(i, j))
<1> DEFINE W == SwapWhere(i, j)
           Where(l) == IF l = AtItem(i) THEN AtItem(j)
                       ELSE IF l = AtItem(j) THEN AtItem(i) ELSE l
           Keep(l) == TRUE
<1>1. W \in [Locations -> Locations]
  BY DEF SwapWhere, AtItem, Locations
<1>2. ASSUME NEW s \in Source
      PROVE  Moved(external[s], Keep, Where) = MovedTo(external[s], Locations, W)
  <2> DEFINE b    == external[s]
             K    == KeptBy(b, Locations)
             to   == Destination(b, Locations, W)
  <2>1. {copy \in Copies(b.findings) : Keep(copy[1].at)} = K
    BY CopyType DEF KeptBy
  <2>2. ASSUME NEW copy \in K
        PROVE  to[copy] = [copy[1] EXCEPT !.at = Where(copy[1].at)]
    <3>1. copy[1].at \in Locations
      BY DEF KeptBy
    <3>2. W[copy[1].at] = Where(copy[1].at)
      BY <3>1 DEF SwapWhere
    <3> QED
      BY <3>1, <3>2 DEF Destination
  <2> DEFINE To(f) == [f EXCEPT !.at = Where(f.at)]
             A == [f \in {To(copy[1]) : copy \in K} |->
                            Cardinality({copy \in K : To(copy[1]) = f})]
  <2>3. A = Gathered(K, to)
    <3>1. \A copy \in K : to[copy] = To(copy[1])
      BY <2>2
    <3> HIDE DEF K, to, To
    <3>2. {To(copy[1]) : copy \in K} = {to[copy] : copy \in K}
      BY <3>1
    <3>3. \A f : {copy \in K : To(copy[1]) = f} = {copy \in K : to[copy] = f}
      BY <3>1
    <3> QED
      BY <3>2, <3>3 DEF Gathered
  <2> QED
    BY <2>1, <2>3 DEF Moved, MovedTo
<1>3. external' = [s \in Source |-> Moved(external[s], Keep, Where)]
  BY DEF SwapFindings
<1> QED
  BY <1>1, <1>2, <1>3 DEF MovedAll

(* So is rebasing findings to another topology.                            *)
LEMMA RebaseIsMove ==
  ASSUME \A s \in Source : ABatch(external[s]),
         NEW topology \in Seq(Nat), NEW unmatched,
         RebaseFindings(topology, unmatched)
  PROVE  /\ RebaseWhere(topology) \in [Locations -> Locations]
         /\ MovedAll(RebaseKeep(topology, unmatched), RebaseWhere(topology))
<1> DEFINE W == RebaseWhere(topology)
           R == RebaseKeep(topology, unmatched)
           Gone(l) ==
             /\ l.index \in 1..Len(items)
             /\ \A j \in 1..Len(topology) : topology[j] # items[l.index].identity
           Keep(l) == Gone(l) => unmatched = "preserve"
           Where(l) ==
             IF l.index \in 1..Len(items) /\ ~Gone(l)
             THEN AtItem(CHOOSE j \in 1..Len(topology) :
                           topology[j] = items[l.index].identity)
             ELSE l
<1>0. \A l : Gone(l) <=> IsGone(topology, l)
  BY DEF IsGone
<1>1. W \in [Locations -> Locations]
  <2> SUFFICES ASSUME NEW l \in Locations,
                      l.index \in 1..Len(items) /\ ~IsGone(topology, l)
               PROVE  AtItem(CHOOSE j \in 1..Len(topology) :
                               topology[j] = items[l.index].identity) \in Locations
    BY DEF RebaseWhere
  <2>1. \E j \in 1..Len(topology) : topology[j] = items[l.index].identity
    BY DEF IsGone
  <2>2. Len(topology) \in Nat
    BY LenProperties
  <2> QED
    BY <2>1, <2>2 DEF AtItem, Locations
<1>2. ASSUME NEW s \in Source
      PROVE  Moved(external[s], Keep, Where) = MovedTo(external[s], R, W)
  <2> DEFINE b    == external[s]
             K    == KeptBy(b, R)
             to   == Destination(b, R, W)
  <2>1. {copy \in Copies(b.findings) : Keep(copy[1].at)} = K
    <3>1. ASSUME NEW copy \in Copies(b.findings)
          PROVE  Keep(copy[1].at) <=> copy[1].at \in R
      <4>1. copy[1].at \in Locations
        BY CopyType
      <4> HIDE DEF Gone
      <4> QED
        BY <1>0, <4>1 DEF RebaseKeep
    <3> HIDE DEF Keep, R
    <3> QED
      BY <3>1 DEF KeptBy
  <2>2. ASSUME NEW copy \in K
        PROVE  to[copy] = [copy[1] EXCEPT !.at = Where(copy[1].at)]
    <3>1. copy[1].at \in Locations
      BY DEF KeptBy, RebaseKeep
    <3>2. \A l \in Locations : W[l] = Where(l)
      BY DEF RebaseWhere, IsGone
    <3> HIDE DEF Where, W
    <3> QED
      BY <3>1, <3>2 DEF Destination
  <2> DEFINE To(f) == [f EXCEPT !.at = Where(f.at)]
             A == [f \in {To(copy[1]) : copy \in K} |->
                            Cardinality({copy \in K : To(copy[1]) = f})]
  <2>3. A = Gathered(K, to)
    <3>1. \A copy \in K : to[copy] = To(copy[1])
      BY <2>2
    <3> HIDE DEF K, to, To
    <3>2. {To(copy[1]) : copy \in K} = {to[copy] : copy \in K}
      BY <3>1
    <3>3. \A f : {copy \in K : To(copy[1]) = f} = {copy \in K : to[copy] = f}
      BY <3>1
    <3> QED
      BY <3>2, <3>3 DEF Gathered
  <2> QED
    BY <2>1, <2>3 DEF Moved, MovedTo
<1>3. external' = [s \in Source |-> Moved(external[s], Keep, Where)]
  BY DEF RebaseFindings
<1> HIDE DEF Keep, Where, R
<1>4. MovedAll(R, W)
  BY <1>2, <1>3 DEF MovedAll
<1> QED
  BY <1>1, <1>4 DEF R

-----------------------------------------------------------------------------
(* The edit buffers of the form, and what a step does that adds none: text *)
(* it leaves is that of a control or an item that had text before.         *)
Holding == {c \in Control : controls[c].buffer # NoText}
HoldingItems == {i \in 1..Len(items) : items[i].control.buffer # NoText}

ItemTextKept ==
  \A i \in HoldingItems' :
    \E j \in HoldingItems : items[j].identity = items'[i].identity
TextKept == Holding' \subseteq Holding /\ ItemTextKept

(* Finitely many items hold text.                                          *)
LEMMA HoldingItemsFinite ==
  /\ IInv => IsFiniteSet(HoldingItems)
  /\ IInv' => IsFiniteSet(HoldingItems')
<1>1. ASSUME NEW s \in Seq(ItemState)
      PROVE  IsFiniteSet({i \in 1..Len(s) : s[i].control.buffer # NoText})
  <2>1. Len(s) \in Nat
    BY LenProperties
  <2>2. IsFiniteSet(1..Len(s))
    BY <2>1, FS_Interval
  <2> QED
    BY <2>2, FS_Subset
<1> QED
  BY <1>1 DEF IInv, TypeOK, HoldingItems

(* A step that adds no buffer leaves no more of them.                      *)
LEMMA KeptTextCounts ==
  ASSUME IInv, IInv', IsFiniteSet(Holding), TextKept
  PROVE  /\ IsFiniteSet(Holding')
         /\ Buffers \in Nat /\ Buffers' \in Nat
         /\ Buffers' <= Buffers
<1>1. /\ IsFiniteSet(Holding')
      /\ Cardinality(Holding) \in Nat /\ Cardinality(Holding') \in Nat
      /\ Cardinality(Holding') <= Cardinality(Holding)
  BY FS_Subset, FS_CardinalityType DEF TextKept
<1> DEFINE before == HoldingItems
           after  == HoldingItems'
           h == [i \in after |->
                   CHOOSE j \in before : items[j].identity = items'[i].identity]
<1>2. \A i \in after : h[i] \in before /\ items[h[i]].identity = items'[i].identity
  BY DEF TextKept, ItemTextKept
<1>3. \A i, k \in after : items'[i].identity = items'[k].identity => i = k
  BY DEF IInv, IdentitiesDistinct, HoldingItems
<1>4. IsFiniteSet(before) /\ IsFiniteSet(after)
  BY HoldingItemsFinite
<1>5. h \in Injection(after, before)
  <2>1. h \in [after -> before]
    BY <1>2
  <2>2. \A i, k \in after : h[i] = h[k] => i = k
    BY <1>2, <1>3
  <2> HIDE DEF h, after, before
  <2> QED
    BY <2>1, <2>2, Fun_IsInj
<1> HIDE DEF h
<1>6. /\ Cardinality(before) \in Nat /\ Cardinality(after) \in Nat
      /\ Cardinality(after) <= Cardinality(before)
  BY <1>4, <1>5, FS_Injection, FS_CardinalityType
<1>7. /\ Buffers = Cardinality(Holding) + Cardinality(before)
      /\ Buffers' = Cardinality(Holding') + Cardinality(after)
  BY DEF Buffers, Holding, HoldingItems
<1> HIDE DEF before, after
<1> QED
  BY <1>1, <1>6, <1>7

(* Items that are carried keep their text, new ones have none.             *)
LEMMA CarriedText ==
  ASSUME Carried PROVE ItemTextKept
<1> SUFFICES ASSUME NEW i \in HoldingItems'
             PROVE  \E j \in HoldingItems : items[j].identity = items'[i].identity
  BY DEF ItemTextKept
<1>1. i \in 1..Len(items') /\ items'[i].control.buffer # NoText
  BY DEF HoldingItems
<1>2. ~New(items'[i])
  BY <1>1 DEF New, Untouched
<1> QED
  BY <1>1, <1>2 DEF Carried, HoldingItems

(* So do items whose own control at most loses it.                         *)
LEMMA SameItemsText ==
  ASSUME Len(items') = Len(items),
         \A i \in 1..Len(items) :
           /\ items'[i].identity = items[i].identity
           /\ items'[i].control.buffer \in {NoText, items[i].control.buffer}
  PROVE  ItemTextKept
BY DEF ItemTextKept, HoldingItems

(* Clearing, finalizing or touching controls adds no buffer.               *)
LEMMA ControlText ==
  ASSUME IInv,
         \A c \in Control :
           controls'[c] \in {controls[c], Untouched, ClearEditState(controls[c]),
                             FinalizeEditBuffer(controls[c]),
                             [FinalizeEditBuffer(controls[c]) EXCEPT !.touched = TRUE]}
  PROVE  Holding' \subseteq Holding
<1> SUFFICES ASSUME NEW c \in Control, controls'[c].buffer # NoText
             PROVE  controls[c].buffer # NoText
  BY DEF Holding
<1> DEFINE s == controls[c]
<1>1. s \in ControlState
  BY InvariantFacts
<1>2. Untouched.buffer = NoText /\ ClearEditState(s).buffer = NoText
  BY <1>1 DEF ControlState, Untouched, ClearEditState
<1>3. FinalizeEditBuffer(s) \in ControlState
  BY <1>1, FinalizeEditBufferType
<1>4. FinalizeEditBuffer(s).buffer \in {NoText, s.buffer}
  BY <1>1 DEF ControlState, FinalizeEditBuffer
<1>5. [FinalizeEditBuffer(s) EXCEPT !.touched = TRUE].buffer
        = FinalizeEditBuffer(s).buffer
  BY <1>3 DEF ControlState
<1> QED
  BY <1>2, <1>4, <1>5

(* One item whose control at most loses its text.                          *)
LEMMA OneItemText ==
  ASSUME IInv, NEW i \in 1..Len(items), NEW k \in ControlState,
         k.buffer \in {NoText, items[i].control.buffer},
         items' = [items EXCEPT ![i].control = k]
  PROVE  ItemTextKept
<1>1. Len(items) \in Nat /\ items \in Seq(ItemState)
  BY InvariantFacts
<1>2. \A j \in 1..Len(items) : items[j] \in ItemState
  BY <1>1
<1>3. Len(items') = Len(items)
  BY <1>1
<1>4. ASSUME NEW j \in 1..Len(items)
      PROVE  /\ items'[j].identity = items[j].identity
             /\ items'[j].control.buffer \in {NoText, items[j].control.buffer}
  <2>1. CASE j = i
    BY <1>1, <1>2, <2>1 DEF ItemState
  <2>2. CASE j # i
    BY <1>1, <2>2
  <2> QED
    BY <2>1, <2>2
<1> QED
  BY <1>3, <1>4, SameItemsText

(* No operation but typing adds a buffer.                                  *)
LEMMA SetItemValueText ==
  ASSUME IInv, NEW i \in 1..Len(items), NEW v, SetItemValue(i, v)
  PROVE  ItemTextKept
<1>1. items[i].control \in ControlState
  BY ItemControlType
<1>2. CASE items' = items
  BY <1>2 DEF ItemTextKept, HoldingItems
<1>3. CASE items' = [items EXCEPT ![i].control = ClearEditState(@)]
  <2> DEFINE k == ClearEditState(items[i].control)
  <2>1. items' = [items EXCEPT ![i].control = k]
    BY <1>3
  <2>2. k.buffer = NoText /\ k \in ControlState
    BY <1>1, ClearEditStateType DEF ClearEditState, ControlState
  <2> HIDE DEF k
  <2> QED
    BY <2>1, <2>2, OneItemText
<1> QED
  BY <1>2, <1>3 DEF SetItemValue, vars

(* Blurring an item adds no buffer.                                        *)
LEMMA BlurItemText ==
  ASSUME IInv, NEW i \in 1..Len(items), BlurItem(i)
  PROVE  ItemTextKept
<1>1. items[i].control \in ControlState
  BY ItemControlType
<1> DEFINE k == [FinalizeEditBuffer(items[i].control) EXCEPT !.touched = TRUE]
<1>2. items' = [items EXCEPT ![i].control = k]
  BY DEF BlurItem
<1>3. k.buffer \in {NoText, items[i].control.buffer}
  BY <1>1 DEF FinalizeEditBuffer, ControlState
<1>4. k \in ControlState
  BY <1>1, BlurredType
<1> HIDE DEF k
<1> QED
  BY <1>2, <1>3, <1>4, OneItemText

(* Preparing a submission adds none.                                       *)
LEMMA PreparedText ==
  ASSUME IInv, PrepareSubmission
  PROVE  TextKept
<1>1. Len(items) \in Nat
  BY InvariantFacts
<1>2. /\ controls' = [c \in Control |-> FinalizeEditBuffer(controls[c])]
      /\ items' = [i \in 1..Len(items) |->
                    [items[i] EXCEPT !.control = FinalizeEditBuffer(@)]]
  BY DEF PrepareSubmission
<1>3. ASSUME NEW i \in 1..Len(items)
      PROVE  /\ items'[i].identity = items[i].identity
             /\ items'[i].control.buffer \in {NoText, items[i].control.buffer}
  <2>1. items[i] \in ItemState /\ items[i].control \in ControlState
    BY ItemControlType
  <2> QED
    BY <1>2, <2>1 DEF FinalizeEditBuffer, ItemState, ControlState
<1>4. Len(items') = Len(items)
  BY <1>1, <1>2
<1> QED
  BY <1>2, <1>3, <1>4, ControlText, SameItemsText DEF TextKept

(* A reset adds none.                                                      *)
LEMMA ResetText ==
  ASSUME IInv, Reset
  PROVE  TextKept
<1>1. HoldingItems' = {}
  BY ResetItems DEF HoldingItems, Untouched
<1>2. \A c \in Control : controls'[c] = Untouched
  BY DEF Reset
<1> QED
  BY <1>1, <1>2, ControlText DEF TextKept, ItemTextKept

(* Every operation of the engine but typing, ...                           *)
LEMMA OperationText ==
  ASSUME IInv,
         \/ \E c \in Control :
              \/ \E v \in Value \cup {Null} : SetValue(c, v)
              \/ RemoveControlValue(c)
              \/ Blur(c)
         \/ \E i \in 1..Len(items) :
              \/ \E v \in Value \cup {Null} : SetItemValue(i, v)
              \/ BlurItem(i)
         \/ ChangePresence \/ ChangeCollection \/ Lifecycle
  PROVE  TextKept
<1>0. controls \in [Control -> ControlState]
  BY InvariantFacts
<1>1. ASSUME NEW c \in Control,
             \/ \E v \in Value \cup {Null} : SetValue(c, v)
             \/ RemoveControlValue(c)
             \/ Blur(c)
      PROVE  TextKept
  <2>1. Carried
    BY <1>1, EditControlCarries DEF EditControl
  <2>2. \A b \in Control :
          controls'[b] \in {controls[b], ClearEditState(controls[b]),
                            [FinalizeEditBuffer(controls[b]) EXCEPT !.touched = TRUE]}
    BY <1>0, <1>1 DEF SetValue, RemoveControlValue, Blur, vars
  <2> QED
    BY <2>1, <2>2, ControlText, CarriedText DEF TextKept
<1>2. ASSUME NEW i \in 1..Len(items),
             \/ \E v \in Value \cup {Null} : SetItemValue(i, v)
             \/ BlurItem(i)
      PROVE  TextKept
  <2>1. controls' = controls
    BY <1>2 DEF SetItemValue, BlurItem, vars
  <2> QED
    BY <1>2, <2>1, SetItemValueText, BlurItemText DEF TextKept, Holding
<1>3. CASE ChangePresence
  <2>1. \A c \in Control : controls'[c] \in {controls[c], ClearEditState(controls[c])}
    BY <1>0, <1>3 DEF ChangePresence, RemoveGroup, RemoveList, MaterializeGroup,
         MaterializeList, ReplaceGroup, ReplaceList, ClearGroupedEdits
  <2> QED
    BY <1>3, <2>1, ChangePresenceCarries, CarriedText, ControlText DEF TextKept
<1>4. CASE ChangeCollection
  <2>1. \A c \in Control : controls'[c] = controls[c]
    BY <1>4, ListKeepsControls DEF SameFor
  <2> QED
    BY <1>4, <2>1, CollectionCarries, CarriedText, ControlText DEF TextKept
<1>5. CASE Lifecycle
  <2>1. ASSUME NEW d \in HostData, Reinitialize(d) PROVE TextKept
    <3>1. \A c \in Control : controls'[c] = Untouched
      BY <2>1 DEF Reinitialize
    <3> QED
      BY <2>1, <3>1, ReinitializeCarries, CarriedText, ControlText DEF TextKept
  <2> QED
    BY <1>5, <2>1, PreparedText, ResetText DEF Lifecycle
<1> QED
  BY <1>1, <1>2, <1>3, <1>4, <1>5

(* ... and no host transaction.                                            *)
LEMMA HostStepText ==
  ASSUME IInv, NEW d \in Tree, NEW writes, NEW itemWrites,
         NEW replace \in BOOLEAN, NEW topology \in Seq(Nat),
         ApplyHostTransaction(d, writes, itemWrites, replace, topology)
  PROVE  TextKept
<1>1. Holding' \subseteq Holding
  <2>1. \A c \in Control : controls'[c] \in {controls[c], ClearEditState(controls[c])}
    BY DEF ApplyHostTransaction
  <2> QED
    BY <2>1, ControlText
<1>2. CASE replace
  <2>1. ReconcileArrays(d)
    BY <1>2 DEF ApplyHostTransaction
  <2> QED
    BY <1>1, <2>1, ReconcileCarries, CarriedText DEF TextKept
<1>3. CASE ~replace
  <2>1. items' = PreservedItems(topology, itemWrites) /\ ValidTopology(d, topology)
    BY <1>3 DEF ApplyHostTransaction
  <2>2. Len(topology) \in Nat
    BY LenProperties
  <2>3. Len(items') = Len(topology)
    BY <2>1, <2>2 DEF PreservedItems
  <2>4. ASSUME NEW i \in 1..Len(topology), items'[i].control.buffer # NoText
        PROVE  \E j \in HoldingItems : items[j].identity = items'[i].identity
    <3>1. topology[i] # Fresh
      BY <2>1, <2>4 DEF PreservedItems, Untouched
    <3>2. PICK j \in 1..Len(items) : items[j].identity = topology[i]
      BY <2>1, <3>1 DEF ValidTopology
    <3>3. ItemOf(topology[i]) = items[j]
      BY <3>2 DEF ItemOf, IInv, IdentitiesDistinct
    <3>4. items'[i] = Rewritten(items[j], itemWrites)
      BY <2>1, <3>1, <3>3 DEF PreservedItems
    <3>5. items[j] \in ItemState /\ items[j].control \in ControlState
      BY ItemControlType
    <3>6. /\ items'[i].identity = items[j].identity
          /\ items'[i].control \in {items[j].control,
                                    ClearEditState(items[j].control)}
      BY <3>4, <3>5 DEF Rewritten, ItemState
    <3>7. ClearEditState(items[j].control).buffer = NoText
      BY <3>5 DEF ClearEditState, ControlState
    <3> QED
      BY <2>4, <3>6, <3>7 DEF HoldingItems
  <2> QED
    BY <1>1, <2>3, <2>4 DEF TextKept, ItemTextKept, HoldingItems
<1> QED
  BY <1>2, <1>3

-----------------------------------------------------------------------------
(* The findings retained are batches, finitely many, and within the limit. *)
BatchesInv ==
  /\ \A s \in Source : ABatch(external[s])
  /\ IsFiniteSet(Active(external))
  /\ FindingCount(external) <= MaxActiveFindings

(* A form without external findings is within the limit.                   *)
LEMMA NoBatchesHold ==
  /\ \A s \in Source : ABatch(NoBatches[s])
  /\ IsFiniteSet(Active(NoBatches))
  /\ FindingCount(NoBatches) <= MaxActiveFindings
<1>1. \A s \in Source : NoBatches[s] = NoBatch
  BY DEF NoBatches
<1>2. Active(NoBatches) = {}
  BY <1>1, NoBatchType DEF Active
<1>3. MaxActiveFindings \in Nat
  BY FormFacadeAssumption DEF FormFacadeAssumption
<1> QED
  BY <1>1, <1>2, <1>3, NoBatchType, FS_EmptySet DEF FindingCount

(* Moving findings keeps them within the limit.                            *)
LEMMA MovedHold ==
  ASSUME BatchesInv, NEW keep, NEW where \in [Locations -> Locations],
         MovedAll(keep, where)
  PROVE  BatchesInv'
<1>1. ASSUME NEW s \in Source
      PROVE  /\ ABatch(external'[s])
             /\ ExistsInjection(Copies(external'[s].findings),
                                Copies(external[s].findings))
  <2>1. ABatch(external[s])
    BY DEF BatchesInv
  <2>2. IsFiniteSet(Copies(external[s].findings))
    BY CopiesFinite DEF BatchesInv
  <2>3. external'[s] = MovedTo(external[s], keep, where)
    BY DEF MovedAll
  <2> QED
    BY <2>1, <2>2, <2>3, MovedToBatch
<1>2. /\ IsFiniteSet(Active(external'))
      /\ FindingCount(external') <= FindingCount(external)
  BY <1>1, CountFollows DEF BatchesInv
<1>3. /\ FindingCount(external) \in Nat /\ FindingCount(external') \in Nat
      /\ MaxActiveFindings \in Nat
  BY <1>2, FS_CardinalityType, FormFacadeAssumption
  DEF BatchesInv, FindingCount, FormFacadeAssumption
<1>4. FindingCount(external') <= MaxActiveFindings
  BY <1>2, <1>3 DEF BatchesInv
<1> QED
  BY <1>1, <1>2, <1>4 DEF BatchesInv

(* So does every way an operation treats what is retained.                 *)
LEMMA RetainsHold ==
  ASSUME BatchesInv, IInv, Retains
  PROVE  BatchesInv'
<1>1. CASE external' = external
  BY <1>1 DEF BatchesInv
<1>2. CASE external' = NoBatches
  BY <1>2, NoBatchesHold DEF BatchesInv
<1>3. CASE FindingsMoved
  <2>1. Len(items) \in Nat
    BY InvariantFacts
  <2>2. ASSUME NEW i \in 1..Len(items), NEW j \in 1..Len(items), SwapFindings(i, j)
        PROVE  BatchesInv'
    BY <2>1, <2>2, SwapIsMove, MovedHold DEF BatchesInv
  <2>3. ASSUME NEW topology \in Seq(Nat), NEW unmatched,
               RebaseFindings(topology, unmatched)
        PROVE  BatchesInv'
    BY <2>3, RebaseIsMove, MovedHold DEF BatchesInv
  <2> QED
    BY <1>3, <2>2, <2>3 DEF FindingsMoved
<1> QED
  BY <1>1, <1>2, <1>3 DEF Retains, findingVars, Settle, ClearFindings

(* A batch that is supplied counts with those of the other sources.        *)
LEMMA AppliedHold ==
  ASSUME FInv, BatchesInv, NEW s \in Source, NEW F \in Batches, NEW revision,
         ApplyExternalFindings(s, revision, F)
  PROVE  BatchesInv'
<1> DEFINE batch == IF F = {} THEN NoBatch
                    ELSE [revision |-> revision, findings |-> SetToBag(F)]
<1>1. /\ F \subseteq [at : Locations, blocking : BOOLEAN]
      /\ IsFiniteSet(F)
  BY FormFacadeAssumption DEF FormFacadeAssumption
<1>2. revision \in Nat
  BY DEF ApplyExternalFindings, FInv, IInv, TypeOK
<1>3. IsABag(SetToBag(F)) /\ BagToSet(SetToBag(F)) = F
  BY DEF SetToBag, IsABag, BagToSet
<1>4. ABatch(batch)
  <2>1. CASE F = {}
    BY <2>1, NoBatchType
  <2>2. CASE F # {}
    BY <1>1, <1>2, <1>3, <2>2 DEF ABatch
  <2> QED
    BY <2>1, <2>2
<1>5. IsFiniteSet(Copies(batch.findings))
  <2>1. CASE F = {}
    BY <2>1, NoBatchType, FS_EmptySet
  <2>2. CASE F # {}
    <3>1. batch.findings = SetToBag(F)
      BY <2>2
    <3>2. Copies(SetToBag(F)) = F \X (1..1)
      BY <1>3 DEF Copies, SetToBag
    <3>3. IsFiniteSet(1..1)
      <4>1. 1 \in Int
        OBVIOUS
      <4> QED
        BY <4>1, FS_Interval
    <3> QED
      BY <1>1, <3>1, <3>2, <3>3, FS_Product
  <2> QED
    BY <2>1, <2>2
<1>6. external' = [external EXCEPT ![s] = batch]
  BY DEF ApplyExternalFindings
<1> HIDE DEF batch
<1>7. \A r \in Source : external'[r] = IF r = s THEN batch ELSE external[r]
  BY <1>6 DEF FInv
<1>8. IsFiniteSet(Active(external'))
  <2>1. Active(external') \subseteq
          Active(external) \cup ({s} \X Copies(batch.findings))
    BY <1>7 DEF Active
  <2>2. IsFiniteSet({s} \X Copies(batch.findings))
    BY <1>5, FS_Singleton, FS_Product
  <2>3. IsFiniteSet(Active(external) \cup ({s} \X Copies(batch.findings)))
    BY <2>2, FS_Union DEF BatchesInv
  <2> QED
    BY <2>1, <2>3, FS_Subset
<1>9. FindingCount(external') <= MaxActiveFindings
  BY DEF ApplyExternalFindings
<1> QED
  BY <1>4, <1>7, <1>8, <1>9 DEF BatchesInv

-----------------------------------------------------------------------------
(* The edit buffers retained are finitely many, and within the limit.      *)
BuffersInv == IsFiniteSet(Holding) /\ Buffers <= MaxBuffers

(* A step that adds no buffer keeps them within the limit.                 *)
LEMMA KeptTextHolds ==
  ASSUME IInv, IInv', BuffersInv, TextKept
  PROVE  BuffersInv'
<1>1. MaxBuffers \in Nat
  BY FormFacadeAssumption DEF FormFacadeAssumption
<1> QED
  BY <1>1, KeptTextCounts DEF BuffersInv

(* Text typed into a control or an item is one buffer more, if it has none.*)
LEMMA TypedTextHolds ==
  ASSUME IInv, IInv', BuffersInv,
         \/ \E c \in Control : /\ RoomFor(controls[c])
                               /\ Holding' \subseteq Holding \cup {c}
                               /\ items' = items
         \/ \E i \in 1..Len(items) : /\ RoomFor(items[i].control)
                                     /\ Holding' = Holding
                                     /\ HoldingItems' \subseteq HoldingItems \cup {i}
  PROVE  BuffersInv'
<1>1. /\ MaxBuffers \in Nat
      /\ IsFiniteSet(Holding) /\ IsFiniteSet(HoldingItems)
      /\ Cardinality(Holding) \in Nat /\ Cardinality(HoldingItems) \in Nat
  BY FormFacadeAssumption, HoldingItemsFinite, FS_CardinalityType
  DEF FormFacadeAssumption, BuffersInv
<1>2. /\ Buffers = Cardinality(Holding) + Cardinality(HoldingItems)
      /\ Buffers' = Cardinality(Holding') + Cardinality(HoldingItems')
  BY DEF Buffers, Holding, HoldingItems
<1>3. ASSUME NEW c \in Control, RoomFor(controls[c]),
             Holding' \subseteq Holding \cup {c}, items' = items
      PROVE  BuffersInv'
  <2>1. HoldingItems' = HoldingItems
    BY <1>3 DEF HoldingItems
  <2>2. /\ IsFiniteSet(Holding \cup {c})
        /\ Cardinality(Holding \cup {c}) =
             IF c \in Holding THEN Cardinality(Holding) ELSE Cardinality(Holding) + 1
    BY <1>1, FS_AddElement
  <2>3. /\ IsFiniteSet(Holding') /\ Cardinality(Holding') \in Nat
        /\ Cardinality(Holding') <= Cardinality(Holding \cup {c})
    BY <1>3, <2>2, FS_Subset, FS_CardinalityType
  <2>4. c \in Holding \/ Buffers < MaxBuffers
    BY <1>3 DEF RoomFor, Holding
  <2>5. Buffers' <= MaxBuffers
    BY <1>1, <1>2, <2>1, <2>2, <2>3, <2>4 DEF BuffersInv
  <2> QED
    BY <2>3, <2>5 DEF BuffersInv
<1>4. ASSUME NEW i \in 1..Len(items), RoomFor(items[i].control),
             Holding' = Holding, HoldingItems' \subseteq HoldingItems \cup {i}
      PROVE  BuffersInv'
  <2>1. /\ IsFiniteSet(HoldingItems \cup {i})
        /\ Cardinality(HoldingItems \cup {i}) =
             IF i \in HoldingItems THEN Cardinality(HoldingItems)
             ELSE Cardinality(HoldingItems) + 1
    BY <1>1, FS_AddElement
  <2>2. /\ Cardinality(HoldingItems') \in Nat
        /\ Cardinality(HoldingItems') <= Cardinality(HoldingItems \cup {i})
    BY <1>4, <2>1, FS_Subset, FS_CardinalityType
  <2>3. i \in HoldingItems \/ Buffers < MaxBuffers
    BY <1>4 DEF RoomFor, HoldingItems
  <2>4. Buffers' <= MaxBuffers
    BY <1>1, <1>2, <1>4, <2>1, <2>2, <2>3 DEF BuffersInv
  <2> QED
    BY <1>1, <1>4, <2>4 DEF BuffersInv
<1> QED
  BY <1>3, <1>4

(* Typing in a control keeps the buffers within the limit.                 *)
LEMMA InputTextHolds ==
  ASSUME IInv, IInv', BuffersInv, NEW c \in Control, NEW text, InputText(c, text)
  PROVE  BuffersInv'
<1>1. controls' = [controls EXCEPT ![c] = Typed(@, text)] /\ items' = items
  BY DEF InputText, EditText, topologyVars
<1>2. controls \in [Control -> ControlState]
  BY InvariantFacts
<1>3. Holding' \subseteq Holding \cup {c}
  BY <1>1, <1>2 DEF Holding
<1> QED
  BY <1>1, <1>3, TypedTextHolds DEF InputText

(* Typing in an item keeps the buffers within the limit.                   *)
LEMMA InputItemTextHolds ==
  ASSUME IInv, IInv', BuffersInv, NEW i \in 1..Len(items), NEW text,
         InputItemText(i, text)
  PROVE  BuffersInv'
<1>1. /\ items' = [items EXCEPT ![i].control = Typed(@, text)]
      /\ controls' = controls
  BY DEF InputItemText, EditItemText
<1>2. items \in Seq(ItemState) /\ Len(items) \in Nat
  BY InvariantFacts
<1>3. /\ Len(items') = Len(items)
      /\ \A j \in 1..Len(items) : j # i => items'[j] = items[j]
  BY <1>1, <1>2
<1>4. Holding' = Holding /\ HoldingItems' \subseteq HoldingItems \cup {i}
  BY <1>1, <1>3 DEF Holding, HoldingItems
<1> QED
  BY <1>4, TypedTextHolds DEF InputItemText

-----------------------------------------------------------------------------
(* The inductive invariant of all the facade retains.                      *)
RInv ==
  /\ FInv
  /\ BatchesInv
  /\ BuffersInv
  /\ readOnly \in BOOLEAN
  /\ visibility \in Policies

(* The form starts with nothing retained.                                  *)
LEMMA FacadeInitRetains == FacadeInit => RInv
<1> SUFFICES ASSUME FacadeInit PROVE RInv
  OBVIOUS
<1>1. FInv
  BY FacadeInitInvariant
<1>2. BatchesInv
  BY NoBatchesHold DEF FacadeInit, BatchesInv
<1>3. BuffersInv
  <2>1. /\ controls = [c \in Control |-> Untouched]
        /\ items = [i \in 1..Count(formData) |-> [identity |-> i,
                                                  control |-> Untouched]]
    BY DEF FacadeInit, Init
  <2>2. Len(items) = Count(formData)
    BY <1>1, InvariantFacts DEF FInv
  <2>3. Holding = {} /\ HoldingItems = {}
    BY <2>1, <2>2 DEF Holding, HoldingItems, Untouched
  <2>4. Buffers = 0
    <3>1. Buffers = Cardinality(Holding) + Cardinality(HoldingItems)
      BY DEF Buffers, Holding, HoldingItems
    <3> QED
      BY <2>3, <3>1, FS_EmptySet
  <2> QED
    BY <2>3, <2>4, FS_EmptySet, FormFacadeAssumption
    DEF BuffersInv, FormFacadeAssumption
<1> QED
  BY <1>1, <1>2, <1>3 DEF FacadeInit, RInv

(* Every step of the facade keeps the invariant.                           *)
LEMMA FacadeNextRetains == RInv /\ [FacadeNext]_facadeVars => RInv'
<1> SUFFICES ASSUME RInv, [FacadeNext]_facadeVars PROVE RInv'
  OBVIOUS
<1>1. FInv /\ FInv' /\ IInv /\ IInv' /\ BatchesInv /\ BuffersInv
  BY FacadeNextPreserves DEF RInv, FInv
<1>2. CASE UserAction
  <2>1. BatchesInv'
    BY <1>1, <1>2, UserActionOperates, RetainsHold
  <2>2. BuffersInv'
    <3>1. ASSUME NEW c \in Control, NEW text \in Text, InputText(c, text)
          PROVE  BuffersInv'
      BY <1>1, <3>1, InputTextHolds
    <3>2. ASSUME NEW i \in 1..Len(items), NEW text \in Text,
                 InputItemText(i, text)
          PROVE  BuffersInv'
      BY <1>1, <3>2, InputItemTextHolds
    <3>3. ASSUME NEW c \in Control,
                 \/ \E v \in Value \cup {Null} : AssignValue(c, v)
                 \/ RemoveValue(c)
                 \/ BlurControl(c)
          PROVE  TextKept
      BY <1>1, <3>3, OperationText DEF AssignValue, RemoveValue, BlurControl
    <3>4. ASSUME NEW i \in 1..Len(items),
                 \/ \E v \in Value \cup {Null} : AssignItemValue(i, v)
                 \/ BlurItemControl(i)
          PROVE  TextKept
      BY <1>1, <3>4, OperationText DEF AssignItemValue, BlurItemControl
    <3>5. BlurList => TextKept
      BY <1>1, OperationText DEF BlurList, ChangeCollection
    <3>6. StructuralEdit => TextKept
      BY <1>1, OperationText DEF StructuralEdit, ChangePresence
    <3>7. ArrayOperation => TextKept
      <4>1. ArrayOperation => ChangeCollection
        BY DEF ArrayOperation, AddItem, RemoveItemAt, MoveItemTo, ToggleChoice,
               ChangeCollection, InsertArrayItemBefore
      <4> QED
        BY <1>1, <4>1, OperationText
    <3>8. TextKept => BuffersInv'
      BY <1>1, KeptTextHolds
    <3> QED
      BY <1>2, <3>1, <3>2, <3>3, <3>4, <3>5, <3>6, <3>7, <3>8 DEF UserAction
  <2>3. UNCHANGED hostSettings
    BY <1>2 DEF UserAction, InputText, AssignValue, RemoveValue, BlurControl,
         InputItemText, AssignItemValue, BlurItemControl, BlurList,
         StructuralEdit, ArrayOperation, AddItem, RemoveItemAt, MoveItemTo,
         ToggleChoice, Settle
  <2> QED
    BY <1>1, <2>1, <2>2, <2>3 DEF RInv, hostSettings
<1>3. CASE HostAction
  <2>1. ASSUME NEW s \in Source, NEW F \in Batches, NEW revision,
               ApplyExternalFindings(s, revision, F)
        PROVE  RInv'
    <3>1. BatchesInv'
      BY <1>1, <2>1, AppliedHold
    <3>2. UNCHANGED <<controls, items, readOnly, visibility>>
      BY <2>1 DEF ApplyExternalFindings, topologyVars, hostSettings
    <3>3. BuffersInv'
      BY <1>1, <3>2 DEF BuffersInv, Buffers, Holding
    <3> QED
      BY <1>1, <3>1, <3>2, <3>3 DEF RInv
  <2>2. ASSUME NEW flag \in BOOLEAN, SetReadOnly(flag) PROVE RInv'
    <3>1. /\ UNCHANGED <<controls, items, external, visibility>>
          /\ readOnly' \in BOOLEAN
      BY <2>2 DEF SetReadOnly, MarkStateChanged, topologyVars, findingVars
    <3> QED
      BY <1>1, <3>1 DEF RInv, BatchesInv, BuffersInv, Buffers, Holding
  <2>3. ASSUME NEW policy \in Policies, SetFindingVisibility(policy) PROVE RInv'
    <3>1. /\ UNCHANGED <<controls, items, external, readOnly>>
          /\ visibility' \in Policies
      BY <2>3 DEF SetFindingVisibility, MarkStateChanged, topologyVars, findingVars
    <3> QED
      BY <1>1, <3>1 DEF RInv, BatchesInv, BuffersInv, Buffers, Holding
  <2>4. CASE Lifecycled
    <3>1. Lifecycle /\ Retains
      BY <1>1, <2>4, LifecycledOperates
    <3>2. UNCHANGED hostSettings
      BY <2>4 DEF Lifecycled, FinalizeSubmission, ResetForm, ReinitializeForm
    <3>3. TextKept
      BY <1>1, <3>1, OperationText
    <3> QED
      BY <1>1, <3>1, <3>2, <3>3, RetainsHold, KeptTextHolds DEF RInv, hostSettings
  <2> QED
    BY <1>3, <2>1, <2>2, <2>3, <2>4 DEF HostAction, Lifecycled
<1>4. CASE HostTransact
  <2>1. Retains
    BY <1>1, <1>4, HostTransactPreserves
  <2>2. PICK d \in HostData, writes \in WriteSets,
             indices \in SUBSET (1..Len(items)) :
          \/ Transact(d, writes, indices, TRUE, <<>>)
          \/ \E topology \in Topologies(Count(d)) :
               Transact(d, writes, indices, FALSE, topology)
    BY <1>4 DEF HostTransact
  <2>3. PICK replace \in BOOLEAN, topology \in Seq(Nat) :
          Transact(d, writes, indices, replace, topology)
    <3>1. <<>> \in Seq(Nat)
      BY EmptySeq
    <3> QED
      BY <1>1, <2>2, <3>1, TopologyIsSequence
  <2>4. /\ ApplyHostTransaction(d, writes, WrittenItems(writes, indices), replace,
                                topology)
        /\ UNCHANGED hostSettings
    BY <2>3 DEF Transact
  <2>5. d \in Tree
    BY FormEngineAssumption DEF FormEngineAssumption
  <2>6. TextKept
    BY <1>1, <2>4, <2>5, HostStepText
  <2> QED
    BY <1>1, <2>1, <2>4, <2>6, RetainsHold, KeptTextHolds DEF RInv, hostSettings
<1>5. CASE UNCHANGED facadeVars
  BY <1>1, <1>5 DEF facadeVars, vars, RInv, BatchesInv, BuffersInv, Buffers, Holding
<1> QED
  BY <1>2, <1>3, <1>4, <1>5 DEF FacadeNext

-----------------------------------------------------------------------------
(* The form is well typed whatever is asked of it: ...                     *)
THEOREM FacadeTyped == FacadeSpec => []FacadeTypeOK
<1>1. RInv => FacadeTypeOK
  BY DEF RInv, FInv, IInv, TypeOK, ValidationDescribesData, BatchesInv, ABatch,
         FacadeTypeOK
<1> QED
  BY <1>1, FacadeInitRetains, FacadeNextRetains, PTL DEF FacadeSpec

(* ... what it retains never exceeds its limits.                           *)
THEOREM LimitsHold == FacadeSpec => []RetainedWithinLimits
<1>1. RInv => RetainedWithinLimits
  BY DEF RInv, BatchesInv, BuffersInv, RetainedWithinLimits
<1> QED
  BY <1>1, FacadeInitRetains, FacadeNextRetains, PTL DEF FacadeSpec

-----------------------------------------------------------------------------
(* An item is at the one index with its identity.                          *)
LEMMA IndexIsItem ==
  /\ IInv => \A id : \A i \in 1..Len(items) :
               items[i].identity = id => IndexOf(id) = i
  /\ IInv' => \A id : \A i \in 1..Len(items') :
                items'[i].identity = id => IndexOf(id)' = i
  /\ \A id \in ItemIds : /\ IndexOf(id) \in 1..Len(items)
                         /\ items[IndexOf(id)].identity = id
  /\ \A id \in ItemIds' : /\ IndexOf(id)' \in 1..Len(items')
                          /\ items'[IndexOf(id)'].identity = id
<1>1. IInv => \A id : \A i \in 1..Len(items) :
               items[i].identity = id => IndexOf(id) = i
  BY DEF IInv, IdentitiesDistinct, IndexOf
<1>2. IInv' => \A id : \A i \in 1..Len(items') :
                items'[i].identity = id => IndexOf(id)' = i
  BY DEF IInv, IdentitiesDistinct, IndexOf
<1> QED
  BY <1>1, <1>2 DEF ItemIds, IndexOf

(* What is said of an item, before a step and after.                       *)
LEMMA OfItemOccurrences ==
  ASSUME NEW s, NEW id, NEW blocking \in BOOLEAN
  PROVE  /\ OfItem(s, id)[blocking] =
              Occurrences(external[s],
                          [at |-> AtItem(IndexOf(id)), blocking |-> blocking])
         /\ (OfItem(s, id)')[blocking] =
              Occurrences(external'[s],
                          [at |-> AtItem(IndexOf(id)'), blocking |-> blocking])
BY DEF OfItem, Occurrences

FollowedItems ==
  \A s \in Source, id \in ItemIds \cap ItemIds', blocking \in BOOLEAN :
    (OfItem(s, id)')[blocking] >= OfItem(s, id)[blocking]

(* Findings that stay at items that stay, or move where the items move.    *)
LEMMA FindingsStay ==
  ASSUME RInv, UNCHANGED external,
         \A id \in ItemIds \cap ItemIds' : IndexOf(id)' = IndexOf(id)
  PROVE  FollowedItems
<1> SUFFICES ASSUME NEW s \in Source, NEW id \in ItemIds \cap ItemIds',
                    NEW blocking \in BOOLEAN
             PROVE  (OfItem(s, id)')[blocking] >= OfItem(s, id)[blocking]
  BY DEF FollowedItems
<1> DEFINE f == [at |-> AtItem(IndexOf(id)), blocking |-> blocking]
<1>1. Occurrences(external[s], f) \in Nat
  BY OccurrencesAreCopies, FS_CardinalityType DEF RInv, BatchesInv
<1> DEFINE g == [at |-> AtItem(IndexOf(id)'), blocking |-> blocking]
<1>2. f = g
  <2>1. IndexOf(id)' = IndexOf(id)
    OBVIOUS
  <2> QED
    BY <2>1
<1>3. /\ (OfItem(s, id)')[blocking] = Occurrences(external'[s], g)
      /\ OfItem(s, id)[blocking] = Occurrences(external[s], f)
  BY OfItemOccurrences
<1> HIDE DEF f, g
<1> QED
  BY <1>1, <1>2, <1>3

(* Findings that move with their items follow them.                        *)
LEMMA FindingsGo ==
  ASSUME RInv, NEW keep, NEW where \in [Locations -> Locations],
         MovedAll(keep, where),
         \A id \in ItemIds \cap ItemIds' :
           /\ AtItem(IndexOf(id)) \in keep
           /\ where[AtItem(IndexOf(id))] = AtItem(IndexOf(id)')
  PROVE  FollowedItems
<1> SUFFICES ASSUME NEW s \in Source, NEW id \in ItemIds \cap ItemIds',
                    NEW blocking \in BOOLEAN
             PROVE  (OfItem(s, id)')[blocking] >= OfItem(s, id)[blocking]
  BY DEF FollowedItems
<1>1. ABatch(external[s]) /\ IsFiniteSet(Copies(external[s].findings))
  BY CopiesFinite DEF RInv, BatchesInv
<1>2. external'[s] = MovedTo(external[s], keep, where)
  BY DEF MovedAll
<1> DEFINE l == AtItem(IndexOf(id))
<1>3. l \in keep /\ where[l] = AtItem(IndexOf(id)')
  OBVIOUS
<1> HIDE DEF l
<1>4. Occurrences(MovedTo(external[s], keep, where),
                  [at |-> where[l], blocking |-> blocking])
        >= Occurrences(external[s], [at |-> l, blocking |-> blocking])
  BY <1>1, <1>3, MovedToGrows
<1> QED
  BY <1>2, <1>3, <1>4, OfItemOccurrences DEF l

(* Identities that stay in place are found where they were.                *)
LEMMA SameIndices ==
  ASSUME IInv, IInv', Len(items') = Len(items),
         \A i \in 1..Len(items) : items'[i].identity = items[i].identity
  PROVE  /\ ItemIds' = ItemIds
         /\ Identities' = Identities
         /\ \A id \in ItemIds : IndexOf(id)' = IndexOf(id)
<1>1. ItemIds' = ItemIds /\ Identities' = Identities
  BY DEF ItemIds, Identities
<1>2. ASSUME NEW id \in ItemIds PROVE IndexOf(id)' = IndexOf(id)
  BY IndexIsItem
<1> QED
  BY <1>1, <1>2

(* Items that trade places take their findings along.                      *)
LEMMA SwapFollows ==
  ASSUME RInv, IInv', NEW i \in 1..Len(items), NEW j, MoveArrayItem(i, j),
         SwapFindings(i, j)
  PROVE  FollowedItems
<1>1. /\ IInv /\ j \in 1..Len(items) /\ Len(items) \in Nat
      /\ items \in Seq(ItemState)
      /\ items' = Swap(items, i, j)
  BY InvariantFacts DEF RInv, FInv, MoveArrayItem
<1>2. /\ Len(items') = Len(items)
      /\ \A k \in 1..Len(items) :
           items'[k] = IF k = j THEN items[i] ELSE IF k = i THEN items[j]
                       ELSE items[k]
  BY <1>1, SwapProperties DEF Swap
<1>3. /\ SwapWhere(i, j) \in [Locations -> Locations]
      /\ MovedAll(Locations, SwapWhere(i, j))
  BY <1>1, SwapIsMove DEF RInv, BatchesInv
<1>4. ASSUME NEW id \in ItemIds \cap ItemIds'
      PROVE  /\ AtItem(IndexOf(id)) \in Locations
             /\ SwapWhere(i, j)[AtItem(IndexOf(id))] = AtItem(IndexOf(id)')
  <2> DEFINE k == IndexOf(id)
             m == IF k = i THEN j ELSE IF k = j THEN i ELSE k
  <2>1. k \in 1..Len(items) /\ items[k].identity = id
    BY IndexIsItem
  <2>2. m \in 1..Len(items) /\ items'[m] = items[k]
    BY <1>1, <1>2, <2>1
  <2>3. IndexOf(id)' = m
    BY <1>2, <2>1, <2>2, IndexIsItem
  <2>4. AtItem(k) \in Locations
    BY <1>1, <2>1 DEF AtItem, Locations
  <2>5. /\ AtItem(k) = AtItem(i) <=> k = i
        /\ AtItem(k) = AtItem(j) <=> k = j
    BY DEF AtItem
  <2>6. SwapWhere(i, j)[AtItem(k)] = AtItem(m)
    BY <2>4, <2>5 DEF SwapWhere
  <2> QED
    BY <2>3, <2>4, <2>6
<1> QED
  BY <1>3, <1>4, FindingsGo

(* Items a topology keeps take theirs along, too.                          *)
LEMMA RebaseFollows ==
  ASSUME RInv, IInv', NEW topology \in Seq(Nat), NEW unmatched,
         RebaseFindings(topology, unmatched),
         \A k \in 1..Len(items), m \in 1..Len(items') :
           items[k].identity = items'[m].identity =>
             /\ m \in 1..Len(topology) /\ topology[m] = items[k].identity
             /\ \A n \in 1..Len(topology) :
                  topology[n] = items[k].identity => n = m
  PROVE  FollowedItems
<1>1. IInv /\ Len(items) \in Nat
  BY InvariantFacts DEF RInv, FInv
<1> DEFINE keep == RebaseKeep(topology, unmatched)
           where == RebaseWhere(topology)
<1>2. where \in [Locations -> Locations] /\ MovedAll(keep, where)
  BY RebaseIsMove DEF RInv, BatchesInv
<1>3. ASSUME NEW id \in ItemIds \cap ItemIds'
      PROVE  /\ AtItem(IndexOf(id)) \in keep
             /\ where[AtItem(IndexOf(id))] = AtItem(IndexOf(id)')
  <2> DEFINE k == IndexOf(id)
             m == IndexOf(id)'
             l == AtItem(k)
  <2>1. /\ k \in 1..Len(items) /\ items[k].identity = id
        /\ m \in 1..Len(items') /\ items'[m].identity = id
    BY IndexIsItem
  <2>2. /\ m \in 1..Len(topology) /\ topology[m] = items[k].identity
        /\ \A n \in 1..Len(topology) : topology[n] = items[k].identity => n = m
    BY <2>1
  <2>3. l \in Locations /\ l.index = k
    BY <1>1, <2>1 DEF AtItem, Locations
  <2> HIDE DEF k, m, l
  <2>4. ~IsGone(topology, l)
    BY <2>2, <2>3 DEF IsGone
  <2>5. (CHOOSE n \in 1..Len(topology) : topology[n] = items[l.index].identity) = m
    BY <2>2, <2>3
  <2>6. where[l] = AtItem(m) /\ l \in keep
    BY <2>1, <2>3, <2>4, <2>5 DEF RebaseWhere, RebaseKeep
  <2> QED
    BY <2>6 DEF k, m, l
<1> HIDE DEF keep, where
<1> QED
  BY <1>2, <1>3, FindingsGo

-----------------------------------------------------------------------------
(* An operation of a user that leaves the data alone leaves findings and   *)
(* items where they are, unless it lets two equal items trade places.      *)
LEMMA UserActionStays ==
  ASSUME RInv, UserAction, ~DataRevised
  PROVE  \/ /\ UNCHANGED findingVars
            /\ Len(items') = Len(items)
            /\ \A i \in 1..Len(items) : items'[i].identity = items[i].identity
         \/ \E i \in 1..Len(items), j \in 1..Len(items) :
              /\ MoveArrayItem(i, j)
              /\ SwapFindings(i, j)
<1> DEFINE Stays ==
             /\ UNCHANGED findingVars
             /\ Len(items') = Len(items)
             /\ \A i \in 1..Len(items) : items'[i].identity = items[i].identity
<1>1. ~AdvanceRevisions(TRUE, TRUE)
  BY DEF AdvanceRevisions, DataRevised, RInv, FInv, IInv, TypeOK
<1>2. Settle => UNCHANGED findingVars
  BY DEF Settle, Revalidate, ClearFindings, findingVars
<1>3. ASSUME NEW c \in Control,
             \/ \E text \in Text : InputText(c, text)
             \/ \E v \in Value \cup {Null} : AssignValue(c, v)
             \/ RemoveValue(c)
             \/ BlurControl(c)
      PROVE  Stays
  <2>1. items' = items
    BY <1>3 DEF InputText, AssignValue, RemoveValue, BlurControl, EditText,
         SetValue, RemoveControlValue, Blur, topologyVars, vars
  <2>2. UNCHANGED findingVars
    BY <1>2, <1>3 DEF InputText, AssignValue, RemoveValue, BlurControl
  <2> QED
    BY <2>1, <2>2
<1>4. ASSUME NEW k \in 1..Len(items),
             \/ \E text \in Text : InputItemText(k, text)
             \/ \E v \in Value \cup {Null} : AssignItemValue(k, v)
             \/ BlurItemControl(k)
      PROVE  Stays
  <2>1. \/ items' = items
        \/ \E s : items' = [items EXCEPT ![k].control = s]
    BY <1>4 DEF InputItemText, AssignItemValue, BlurItemControl, EditItemText,
         SetItemValue, BlurItem, vars
  <2>2. UNCHANGED findingVars
    BY <1>2, <1>4 DEF InputItemText, AssignItemValue, BlurItemControl
  <2>3. items \in Seq(ItemState) /\ \A i \in 1..Len(items) : items[i] \in ItemState
    BY InvariantFacts, ItemControlType DEF RInv, FInv
  <2>4. ASSUME NEW s, items' = [items EXCEPT ![k].control = s]
        PROVE  /\ Len(items') = Len(items)
               /\ \A i \in 1..Len(items) : items'[i].identity = items[i].identity
    BY <2>3, <2>4 DEF ItemState
  <2> QED
    BY <2>1, <2>2, <2>4
<1>5. BlurList => Stays
  BY DEF BlurList, BlurArray, topologyVars
<1>6. ~StructuralEdit
  BY <1>1 DEF StructuralEdit, RemoveGroup, MaterializeGroup, ReplaceGroup,
       RemoveList, MaterializeList, ReplaceList
<1>7. ArrayOperation =>
        \E i \in 1..Len(items), j \in 1..Len(items) :
          MoveArrayItem(i, j) /\ SwapFindings(i, j)
  <2>1. ASSUME NEW i, AddItem(i) \/ RemoveItemAt(i) \/ ToggleChoice(i) PROVE FALSE
    BY <1>1, <2>1 DEF AddItem, AppendArrayItem, InsertArrayItemBefore, InsertItem,
         RemoveItemAt, RemoveArrayItem, ToggleChoice, IncludeChoice, ExcludeChoice
  <2>2. ASSUME NEW i \in 1..Len(items), NEW j, MoveItemTo(i, j)
        PROVE  /\ MoveArrayItem(i, j) /\ SwapFindings(i, j)
               /\ j \in 1..Len(items)
    BY <2>2 DEF MoveItemTo, MoveArrayItem
  <2> QED
    BY <2>1, <2>2 DEF ArrayOperation
<1> QED
  BY <1>3, <1>4, <1>5, <1>6, <1>7 DEF UserAction

-----------------------------------------------------------------------------
(* The items of a transaction, before and after: those that stay in the    *)
(* list are where the topology names them.                                 *)
StayByTopology(topology, itemWrites) ==
  \A k \in 1..Len(items), m \in 1..Len(items') :
    items[k].identity = items'[m].identity =>
      /\ m \in 1..Len(topology) /\ topology[m] = items[k].identity
      /\ \A n \in 1..Len(topology) : topology[n] = items[k].identity => n = m
      /\ items'[m] = Rewritten(items[k], itemWrites)

(* A transaction puts every item it keeps where its topology says.         *)
LEMMA KeptByTopology ==
  ASSUME IInv, NEW d \in Tree, NEW writes, NEW itemWrites,
         NEW replace \in BOOLEAN,
         NEW topology \in Seq(Nat),
         ApplyHostTransaction(d, writes, itemWrites, replace, topology)
  PROVE  StayByTopology(topology, itemWrites)
<1> SUFFICES ASSUME NEW k \in 1..Len(items), NEW m \in 1..Len(items'),
                    items[k].identity = items'[m].identity
             PROVE  /\ m \in 1..Len(topology) /\ topology[m] = items[k].identity
                    /\ \A n \in 1..Len(topology) :
                         topology[n] = items[k].identity => n = m
                    /\ items'[m] = Rewritten(items[k], itemWrites)
  BY DEF StayByTopology
<1>1. /\ items[k].identity < nextItemIdentity /\ items[k].identity # Fresh
      /\ nextItemIdentity \in Nat /\ items[k].identity \in Nat
  BY DEF IInv, TypeOK, IdentitiesDistinct, Fresh
<1>2. ~replace
  <2> SUFFICES ASSUME replace PROVE FALSE
    OBVIOUS
  <2>1. ReconcileArrays(d)
    BY DEF ApplyHostTransaction
  <2>2. Count(d) \in Nat /\ Len(items') = Count(d)
    BY <2>1, ReconcilePreserves, LenProperties DEF Count, Tree, Data
  <2>3. items'[m].identity >= nextItemIdentity
    BY <1>1, <2>1, <2>2 DEF ReconcileArrays, FreshItems
  <2> QED
    BY <1>1, <2>3
<1>3. items' = PreservedItems(topology, itemWrites) /\ ValidTopology(d, topology)
  BY <1>2 DEF ApplyHostTransaction
<1>4. Len(topology) \in Nat /\ Len(items') = Len(topology)
  BY <1>3, LenProperties DEF PreservedItems
<1>5. topology[m] # Fresh
  <2> SUFFICES ASSUME topology[m] = Fresh PROVE FALSE
    OBVIOUS
  <2>1. FreshBefore(topology, m) \in Nat
    <3>1. m - 1 \in Int /\ 1 \in Int
      BY <1>4
    <3>2. IsFiniteSet(1..m - 1)
      BY <3>1, FS_Interval
    <3>3. IsFiniteSet({j \in 1..m - 1 : topology[j] = Fresh})
      BY <3>2, FS_Subset
    <3> QED
      BY <3>3, FS_CardinalityType DEF FreshBefore
  <2>2. items'[m].identity = nextItemIdentity + FreshBefore(topology, m)
    BY <1>3, <1>4 DEF PreservedItems
  <2> QED
    BY <1>1, <2>1, <2>2
<1>6. PICK j \in 1..Len(items) : items[j].identity = topology[m]
  BY <1>3, <1>4, <1>5 DEF ValidTopology
<1>7. items[j] \in ItemState
  BY ItemControlType
<1>8. items'[m] = Rewritten(items[j], itemWrites)
  <2>1. ItemOf(topology[m]) = items[j]
    BY <1>6 DEF ItemOf, IInv, IdentitiesDistinct
  <2> QED
    BY <1>3, <1>4, <1>5, <2>1 DEF PreservedItems
<1>9. items'[m].identity = items[j].identity
  BY <1>7, <1>8 DEF Rewritten, ItemState
<1>10. j = k
  BY <1>9 DEF IInv, IdentitiesDistinct
<1>11. ASSUME NEW n \in 1..Len(topology), topology[n] = items[k].identity
       PROVE  n = m
  BY <1>1, <1>3, <1>4, <1>5, <1>6, <1>10, <1>11 DEF ValidTopology
<1> QED
  BY <1>2, <1>4, <1>6, <1>8, <1>10, <1>11

(* A submission keeps its items where they are.                            *)
LEMMA SubmissionStays ==
  ASSUME IInv, IInv', PrepareSubmission
  PROVE  /\ Len(items') = Len(items)
         /\ \A i \in 1..Len(items) : items'[i].identity = items[i].identity
<1>1. Len(items) \in Nat
  BY InvariantFacts
<1>2. items' = [i \in 1..Len(items) |->
                  [items[i] EXCEPT !.control = FinalizeEditBuffer(@)]]
  BY DEF PrepareSubmission
<1>3. \A i \in 1..Len(items) : items[i] \in ItemState
  BY ItemControlType
<1> QED
  BY <1>1, <1>2, <1>3 DEF ItemState

(* Findings follow their items through a transaction.                      *)
LEMMA TransactFollows ==
  ASSUME RInv, IInv', ~DataRevised, NEW d \in HostData, NEW writes, NEW indices,
         NEW replace \in BOOLEAN, NEW topology \in Seq(Nat),
         Transact(d, writes, indices, replace, topology)
  PROVE  FollowedItems
<1>1. /\ ApplyHostTransaction(d, writes, WrittenItems(writes, indices), replace,
                              topology)
      /\ RebaseFindings(topology, "remove")
  BY DEF Transact
<1>2. d \in Tree /\ IInv
  BY FormEngineAssumption DEF FormEngineAssumption, RInv, FInv
<1>3. ApplyHostTransaction(d, writes, WrittenItems(writes, indices), replace,
                           topology)
  BY <1>1
<1>4. \A k \in 1..Len(items), m \in 1..Len(items') :
        items[k].identity = items'[m].identity =>
          /\ m \in 1..Len(topology) /\ topology[m] = items[k].identity
          /\ \A n \in 1..Len(topology) : topology[n] = items[k].identity => n = m
  <2>1. StayByTopology(topology, WrittenItems(writes, indices))
    BY <1>2, <1>3, KeptByTopology
  <2> QED
    BY <2>1 DEF StayByTopology
<1> QED
  BY <1>1, <1>4, RebaseFollows

(* What is said of an item follows it through every step that leaves the   *)
(* data alone.                                                             *)
LEMMA StepFollowsFindings ==
  ASSUME RInv, RInv', FacadeNext, ~DataRevised,
         \A s \in Source, F \in Batches :
           ~ApplyExternalFindings(s, dataRevision, F)
  PROVE  FollowedItems
<1>1. IInv /\ IInv'
  BY DEF RInv, FInv
<1>2. ASSUME UNCHANGED external, Len(items') = Len(items),
             \A i \in 1..Len(items) : items'[i].identity = items[i].identity
      PROVE  FollowedItems
  BY <1>1, <1>2, SameIndices, FindingsStay
<1>3. CASE UserAction
  BY <1>1, <1>2, <1>3, UserActionStays, SwapFollows DEF findingVars
<1>4. CASE HostAction
  <2>1. ASSUME NEW s \in Source, NEW F \in Batches, NEW revision,
               ApplyExternalFindings(s, revision, F)
        PROVE  FALSE
    <3>1. revision = dataRevision
      BY <2>1 DEF ApplyExternalFindings
    <3> QED
      BY <2>1, <3>1
  <2>2. ASSUME NEW x, SetReadOnly(x) \/ SetFindingVisibility(x)
        PROVE  FollowedItems
    <3>1. UNCHANGED <<external, items>>
      BY <2>2 DEF SetReadOnly, SetFindingVisibility, MarkStateChanged,
           topologyVars, findingVars
    <3> QED
      BY <1>2, <3>1
  <2>3. CASE FinalizeSubmission
    <3>1. PrepareSubmission /\ UNCHANGED external
      BY <2>3 DEF FinalizeSubmission, findingVars
    <3> QED
      BY <1>1, <1>2, <3>1, SubmissionStays
  <2>4. CASE ResetForm
    <3>1. Reset /\ RebaseFindings(Identities', "preserve")
      BY <2>4 DEF ResetForm
    <3>2. Identities' \in Seq(Nat) /\ Len(Identities') = Len(items')
      BY <1>1, IdentitiesType
    <3>3. \A m \in 1..Len(items') : Identities'[m] = items'[m].identity
      BY DEF Identities
    <3>4. \A k \in 1..Len(items), m \in 1..Len(items') :
            items[k].identity = items'[m].identity =>
              /\ m \in 1..Len(Identities') /\ Identities'[m] = items[k].identity
              /\ \A n \in 1..Len(Identities') :
                   Identities'[n] = items[k].identity => n = m
      BY <1>1, <3>2, <3>3 DEF IInv, IdentitiesDistinct
    <3> QED
      BY <1>1, <3>1, <3>2, <3>4, RebaseFollows
  <2>5. ASSUME NEW d \in HostData, ReinitializeForm(d) PROVE FALSE
    BY <1>1, <2>5 DEF ReinitializeForm, Reinitialize, AdvanceRevisions,
         DataRevised, IInv, TypeOK
  <2> QED
    BY <1>4, <2>1, <2>2, <2>3, <2>4, <2>5 DEF HostAction
<1>5. CASE HostTransact
  <2>1. PICK d \in HostData, writes \in WriteSets,
             indices \in SUBSET (1..Len(items)) :
          \/ Transact(d, writes, indices, TRUE, <<>>)
          \/ \E topology \in Topologies(Count(d)) :
               Transact(d, writes, indices, FALSE, topology)
    BY <1>5 DEF HostTransact
  <2>2. <<>> \in Seq(Nat)
    BY EmptySeq
  <2> QED
    BY <1>1, <2>1, <2>2, TopologyIsSequence, TransactFollows
<1> QED
  BY <1>3, <1>4, <1>5 DEF FacadeNext

(* External findings follow their items: as long as the data is the same   *)
(* and the host supplies none, what was said of an item that is still      *)
(* there is said of it at its new index, however the items were moved.     *)
THEOREM FindingsFollow == FacadeSpec => FindingsFollowItems
<1>1. RInv /\ RInv' /\ [FacadeNext]_facadeVars
        => [/\ ~DataRevised
            /\ \A s \in Source, F \in Batches :
                 ~ApplyExternalFindings(s, dataRevision, F)
            => \A s \in Source, id \in ItemIds \cap ItemIds',
                  blocking \in BOOLEAN :
                 OfItem(s, id)'[blocking] >= OfItem(s, id)[blocking]]_facadeVars
  BY StepFollowsFindings DEF FollowedItems
<1> QED
  BY <1>1, FacadeInitRetains, FacadeNextRetains, PTL
  DEF FacadeSpec, FindingsFollowItems


-----------------------------------------------------------------------------
(* What is shown of the findings at the given places, part by part.        *)
ValidationOn(P) ==
  {l \in ViolationsOf(validated) : l \in P /\ VisibleAt(visibility.validation, l)}
ShownOn(P, s) ==
  {f \in BagToSet(external[s].findings) :
     f.at \in P /\ VisibleAt(visibility.external, f.at)}
ExternalOn(P) ==
  [s \in Source |-> [f \in ShownOn(P, s) |-> external[s].findings[f]]]
FindingsOn(P) == [validation |-> ValidationOn(P), external |-> ExternalOn(P)]

(* A control presents the findings at its own place, and so does a list    *)
(* that is no multiple choice; a multiple choice those of its items too.   *)
Places == Locations \cup UNION {ViolationsOf(d) : d \in Tree}
PlacesOf(n) ==
  {l \in Places :
     \/ l = At(n)
     \/ n = "list" /\ MultipleChoice /\ l.node = "list" /\ l.index > 0}

LEMMA PlacesAre ==
  \A n \in Control \cup {"list"} :
    n \in Control \/ ~MultipleChoice => PlacesOf(n) = {At(n)}
<1>1. \A n \in Control \cup {"list"} : At(n) \in Places
  BY DEF At, Places, Locations, StaticNode
<1>2. "list" \notin Control
  BY FormFacadeAssumption
<1> QED
  BY <1>1, <1>2 DEF PlacesOf

LEMMA NodeFindingsAre ==
  ASSUME RInv, RInv', NEW n \in Control \cup {"list"}
  PROVE  /\ NodeFindings(n) = FindingsOn(PlacesOf(n))
         /\ NodeFindings(n)' = FindingsOn(PlacesOf(n))'
<1>1. \A l \in Places : /\ Presents(n, l) <=> l \in PlacesOf(n)
                        /\ Presents(n, l)' <=> l \in PlacesOf(n)
  BY FormFacadeAssumption DEF Presents, At, PlacesOf
<1>2. ViolationsOf(validated) \subseteq Places /\ ViolationsOf(validated') \subseteq Places
  <2>1. validated \in Tree /\ validated' \in Tree
    BY DEF RInv, FInv, IInv, TypeOK, ValidationDescribesData
  <2> QED
    BY <2>1 DEF Places
<1>3. \A s \in Source : /\ \A f \in BagToSet(external[s].findings) : f.at \in Places
                        /\ \A f \in BagToSet(external'[s].findings) : f.at \in Places
  BY DEF RInv, BatchesInv, ABatch, Places
<1>4. \A l : l \in PlacesOf(n) => l \in Places
  BY DEF PlacesOf
<1> HIDE DEF PlacesOf, Places, Presents, VisibleAt
<1>5. NodeFindings(n).validation = ValidationOn(PlacesOf(n))
  BY <1>1, <1>2 DEF NodeFindings, FindingsWhere, ValidationOn
<1>6. (NodeFindings(n).validation)' = ValidationOn(PlacesOf(n))'
  BY <1>1, <1>2 DEF NodeFindings, FindingsWhere, ValidationOn
<1>7. \A s \in Source :
        /\ {f \in BagToSet(external[s].findings) :
              Presents(n, f.at) /\ VisibleAt(visibility.external, f.at)}
             = ShownOn(PlacesOf(n), s)
        /\ {f \in BagToSet(external'[s].findings) :
              Presents(n, f.at)' /\ VisibleAt(visibility.external, f.at)'}
             = ShownOn(PlacesOf(n), s)'
  BY <1>1, <1>3 DEF ShownOn
<1>8. NodeFindings(n).external = ExternalOn(PlacesOf(n))
  BY <1>7 DEF NodeFindings, FindingsWhere, ExternalOn
<1>9. (NodeFindings(n).external)' = ExternalOn(PlacesOf(n))'
  BY <1>7 DEF NodeFindings, FindingsWhere, ExternalOn
<1> QED
  BY <1>5, <1>6, <1>8, <1>9 DEF NodeFindings, FindingsWhere, FindingsOn

(* An item shows the findings at its index.                                *)
LEMMA ItemFindingsAre ==
  ASSUME NEW i
  PROVE  /\ ItemFindings(i) = FindingsOn({AtItem(i)})
         /\ ItemFindings(i)' = FindingsOn({AtItem(i)})'
BY DEF ItemFindings, FindingsWhere, FindingsOn, ValidationOn, ExternalOn, ShownOn

-----------------------------------------------------------------------------
(* When it stays the same: whether the places are visible does not change, *)
SeenAlike(P) ==
  /\ visibility' = visibility
  /\ submissionAttempted' = submissionAttempted
  /\ \A l \in P : TouchedAt(l)' <=> TouchedAt(l)

(* and the same lies there.                                                *)
LiesAlike(P) ==
  \A s \in Source, l \in P, blocking \in BOOLEAN :
    Occurrences(external'[s], [at |-> l, blocking |-> blocking])
      = Occurrences(external[s], [at |-> l, blocking |-> blocking])

AreBatches == \A s \in Source : ABatch(external[s])

(* What is as visible as before of a validation that is not repeated       *)
(* stays.                                                                  *)
LEMMA ValidationStays ==
  ASSUME NEW P, SeenAlike(P), validated' = validated
  PROVE  ValidationOn(P)' = ValidationOn(P)
BY DEF ValidationOn, SeenAlike, VisibleAt

(* So does what is as visible as before of external findings that lie      *)
(* there still.                                                            *)
LEMMA ExternalStays ==
  ASSUME AreBatches, AreBatches', NEW P, SeenAlike(P), LiesAlike(P)
  PROVE  ExternalOn(P)' = ExternalOn(P)
<1> SUFFICES ASSUME NEW s \in Source
             PROVE  /\ ShownOn(P, s)' = ShownOn(P, s)
                    /\ \A f \in ShownOn(P, s) :
                         external'[s].findings[f] = external[s].findings[f]
  BY DEF ExternalOn
<1>1. ABatch(external[s]) /\ ABatch(external'[s])
  BY DEF AreBatches, ABatch
<1>2. ASSUME NEW f, f \in [at : Locations, blocking : BOOLEAN], f.at \in P
      PROVE  Occurrences(external'[s], f) = Occurrences(external[s], f)
  <2>1. f = [at |-> f.at, blocking |-> f.blocking] /\ f.blocking \in BOOLEAN
    BY <1>2
  <2> QED
    BY <1>2, <2>1 DEF LiesAlike
<1>3. ASSUME NEW f, f.at \in P
      PROVE  /\ f \in BagToSet(external'[s].findings)
                  <=> f \in BagToSet(external[s].findings)
             /\ f \in BagToSet(external[s].findings) =>
                  external'[s].findings[f] = external[s].findings[f]
  BY <1>1, <1>2, <1>3 DEF ABatch, Occurrences, IsABag, BagToSet, BagIn
<1>4. \A f : f.at \in P => (VisibleAt(visibility.external, f.at)'
                              <=> VisibleAt(visibility.external, f.at))
  BY DEF SeenAlike, VisibleAt
<1> QED
  BY <1>3, <1>4 DEF ShownOn

(* Where nothing was shown, nothing is when all external findings go.      *)
LEMMA ExternalGone ==
  ASSUME NEW P, external' = NoBatches,
         \A s \in Source : ExternalOn(P)[s] = EmptyBag
  PROVE  ExternalOn(P)' = ExternalOn(P)
<1>1. \A s \in Source : BagToSet(external'[s].findings) = {}
  BY DEF NoBatches, NoBatch, BagToSet, EmptyBag, SetToBag
<1>2. \A s \in Source : ShownOn(P, s)' = {}
  BY <1>1 DEF ShownOn
<1>3. \A s \in Source : (ExternalOn(P)')[s] = EmptyBag
  BY <1>2 DEF ExternalOn, EmptyBag, SetToBag
<1> QED
  BY <1>3 DEF ExternalOn

(* Where no finding lies, none is shown.                                   *)
LEMMA NothingLies ==
  ASSUME NEW l, ~HasFindingAt(l)
  PROVE  \A s \in Source : ExternalOn({l})[s] = EmptyBag
<1>1. \A s \in Source : ShownOn({l}, s) = {}
  BY DEF HasFindingAt, ShownOn
<1> QED
  BY <1>1 DEF ExternalOn, EmptyBag, SetToBag
-----------------------------------------------------------------------------
(* A control shows the same as before when all it shows of the form is.    *)
LEMMA ControlStays ==
  ASSUME NEW c \in Control, NodeFindings(c)' = NodeFindings(c),
         readOnly' = readOnly, controls'[c] = controls[c],
         formData'.value[c] = formData.value[c],
         baseline'.value[c] = baseline.value[c],
         ParentIsObject(formData, c)' = ParentIsObject(formData, c)
  PROVE  Observe(c)' = Observe(c)
<1>1. c \notin {"root", "group", "list"}
  BY FormFacadeAssumption
<1>2. Below(formData, c)' = Below(formData, c) /\ Below(baseline, c)' = Below(baseline, c)
  BY DEF Below
<1>3. Writable(c)' = Writable(c)
  BY DEF Writable
<1>4. ControlAllows(c)' = ControlAllows(c)
  BY <1>3 DEF ControlAllows, ScalarOperations
<1>5. /\ (IF c \in Control THEN controls[c] ELSE Untouched)' = controls[c]
      /\ (c = "list" /\ arrayTouched)' = (c = "list" /\ arrayTouched)
      /\ (IF c = "list" THEN Identities ELSE <<>>)' = <<>>
  BY <1>1
<1> HIDE DEF NodeFindings, Below, Writable, ControlAllows
<1> QED
  BY <1>1, <1>2, <1>3, <1>4, <1>5 DEF Observe

(* So does the list,                                                       *)
LEMMA ListStays ==
  ASSUME NodeFindings("list")' = NodeFindings("list"),
         readOnly' = readOnly, arrayTouched' = arrayTouched,
         formData'.list = formData.list, formData'.items = formData.items,
         baseline'.list = baseline.list, baseline'.items = baseline.items,
         Identities' = Identities,
         ListParentIsObject(formData)' = ListParentIsObject(formData)
  PROVE  Observe("list")' = Observe("list")
<1>1. "list" \notin Control
  BY FormFacadeAssumption
<1>2. /\ Below(formData, "list")' = Below(formData, "list")
      /\ Below(baseline, "list")' = Below(baseline, "list")
  BY <1>1 DEF Below
<1>3. Writable("list")' = Writable("list")
  BY DEF Writable
<1>4. CanAppend' = CanAppend /\ CanRemove' = CanRemove
      /\ CanToggleChoice' = CanToggleChoice
      /\ HoldsOtherThanOptions' = HoldsOtherThanOptions
  BY DEF CanAppend, CanRemove, CanToggleChoice, HoldsOtherThanOptions, Count
<1>5. ListAllows' = ListAllows
  BY <1>3, <1>4 DEF ListAllows, Count
<1> QED
  BY <1>1, <1>2, <1>3, <1>5 DEF Observe

(* and an item that stays at its index.  (An item of a multiple choice     *)
(* leaves its findings to the list.)                                       *)
ShownOfItem(id) ==
  IF MultipleChoice THEN Unpresented(ObserveItem(id)) ELSE ObserveItem(id)

LEMMA ItemStays ==
  ASSUME NEW id, NEW i, IndexOf(id) = i, IndexOf(id)' = i,
         MultipleChoice \/ FindingsOn({AtItem(i)})' = FindingsOn({AtItem(i)}),
         readOnly' = readOnly, baseline' = baseline,
         items'[i].control = items[i].control,
         formData'.items[i] = formData.items[i]
  PROVE  ShownOfItem(id)' = ShownOfItem(id)
<1>1. (ItemFindings(IndexOf(id)))' = FindingsOn({AtItem(i)})'
  BY DEF ItemFindings, FindingsWhere, FindingsOn, ValidationOn, ExternalOn, ShownOn
<1>2. ItemFindings(IndexOf(id)) = FindingsOn({AtItem(i)})
  BY ItemFindingsAre
<1>3. Writable(ItemTemplate)' = Writable(ItemTemplate)
  BY DEF Writable
<1>4. ItemAllows(i)' = ItemAllows(i)
  BY <1>3 DEF ItemAllows, ScalarOperations
<1>5. CASE MultipleChoice
  <2> DEFINE data == formData.items[i]
             dirty == formData.items[i] # BaselineItem(i)
             state == items[i].control
             allowed == ItemAllows(i)
             Shown(findings) ==
               [index |-> i, data |-> data, dirty |-> dirty, findings |-> findings,
                state |-> state, allowed |-> allowed]
  <2>1. /\ ObserveItem(id) = Shown(FindingsOn({AtItem(i)}))
        /\ ObserveItem(id)' = Shown(FindingsOn({AtItem(i)})')
    BY <1>1, <1>2, <1>4 DEF ObserveItem, BaselineItem, ItemAllows
  <2> HIDE DEF data, dirty, state, allowed
  <2>2. \A f : Unpresented(Shown(f)) = Shown("elsewhere")
    BY DEF Unpresented
  <2> HIDE DEF Shown
  <2>3. Unpresented(ObserveItem(id))' = Unpresented(ObserveItem(id)')
    BY DEF Unpresented
  <2> QED
    BY <1>5, <2>1, <2>2, <2>3 DEF ShownOfItem
<1>6. CASE ~MultipleChoice
  <2>1. ObserveItem(id)' = ObserveItem(id)
    BY <1>1, <1>2, <1>4, <1>6 DEF ObserveItem, BaselineItem, ItemAllows
  <2> QED
    BY <1>6, <2>1 DEF ShownOfItem
<1> QED
  BY <1>5, <1>6
-----------------------------------------------------------------------------
(* Nothing that is shown has changed.                                      *)
Quiet ==
  /\ UNCHANGED <<formData, baseline, controls, items, arrayTouched,
                 submissionAttempted, validated, readOnly, visibility>>
  /\ \A s \in Source : external'[s].findings = external[s].findings

(* Then every node, every item and the whole form show the same as before. *)
LEMMA QuietFindings ==
  ASSUME Quiet
  PROVE  /\ \A n : NodeFindings(n)' = NodeFindings(n)
         /\ \A i : ItemFindings(i)' = ItemFindings(i)
<1>1. \A l : TouchedAt(l)' <=> TouchedAt(l)
  BY DEF Quiet, TouchedAt
<1>2. /\ \A l : VisibleAt(visibility.validation, l)'
                  <=> VisibleAt(visibility.validation, l)
      /\ \A l : VisibleAt(visibility.external, l)'
                  <=> VisibleAt(visibility.external, l)
  BY <1>1 DEF Quiet, VisibleAt
<1>3. \A n, l : Presents(n, l)' <=> Presents(n, l)
  BY DEF Quiet, Presents
<1>4. ASSUME NEW n PROVE NodeFindings(n)' = NodeFindings(n)
  BY <1>2, <1>3 DEF Quiet, NodeFindings, FindingsWhere
<1>5. ASSUME NEW i PROVE ItemFindings(i)' = ItemFindings(i)
  BY <1>2 DEF Quiet, ItemFindings, FindingsWhere
<1> QED
  BY <1>4, <1>5

(* each node with its data, edit state, findings and operations,           *)
LEMMA QuietNodes ==
  ASSUME Quiet, NEW n
  PROVE  Observe(n)' = Observe(n)
<1>1. /\ Below(formData, n)' = Below(formData, n)
      /\ Below(baseline, n)' = Below(baseline, n)
  BY DEF Quiet, Below
<1>2. Writable(n)' = Writable(n)
  BY DEF Quiet, Writable
<1>3. ControlAllows(n)' = ControlAllows(n)
  BY <1>2 DEF Quiet, ControlAllows, ScalarOperations
<1>4. GroupAllows' = GroupAllows /\ ListAllows' = ListAllows
  BY DEF Quiet, GroupAllows, ListAllows, Writable, CanAppend, CanRemove,
         CanToggleChoice, HoldsOtherThanOptions
<1>5. Identities' = Identities
  BY DEF Quiet, Identities
<1>6. NodeFindings(n)' = NodeFindings(n)
  BY QuietFindings
<1>7. controls' = controls /\ arrayTouched' = arrayTouched
  BY DEF Quiet
<1> HIDE DEF NodeFindings, Below, Writable, ControlAllows, GroupAllows,
             ListAllows, Identities
<1> QED
  BY <1>1, <1>2, <1>3, <1>4, <1>5, <1>6, <1>7 DEF Observe

(* each item at its index,                                                 *)
LEMMA QuietItems ==
  ASSUME Quiet
  PROVE  /\ ItemIds' = ItemIds
         /\ \A id : ObserveItem(id)' = ObserveItem(id)
<1>1. ItemIds' = ItemIds /\ \A id : IndexOf(id)' = IndexOf(id)
  BY DEF Quiet, ItemIds, IndexOf
<1>2. Writable(ItemTemplate)' = Writable(ItemTemplate)
  BY DEF Quiet, Writable
<1>3. \A i : ItemAllows(i)' = ItemAllows(i)
  BY <1>2 DEF Quiet, ItemAllows, ScalarOperations
<1>4. \A i : ItemFindings(i)' = ItemFindings(i)
  BY QuietFindings
<1>5. ASSUME NEW id PROVE ObserveItem(id)' = ObserveItem(id)
  <2> DEFINE i == IndexOf(id)
  <2>1. (ItemFindings(IndexOf(id)))' = ItemFindings(IndexOf(id))
    BY <1>1, <1>4
  <2> QED
    BY <1>1, <1>3, <2>1 DEF Quiet, ObserveItem, BaselineItem, ItemAllows
<1> QED
  BY <1>1, <1>5

(* and the form as a whole.                                                *)
LEMMA QuietWhole ==
  ASSUME Quiet
  PROVE  ShownByWhole' = ShownByWhole
<1>1. Identities' = Identities /\ (ParseBlocked' <=> ParseBlocked)
  BY DEF Quiet, Identities, ParseBlocked
<1> QED
  BY <1>1, QuietFindings DEF Quiet, ShownByWhole
-----------------------------------------------------------------------------
(* A step that settles the data leaves the findings of a place alone that  *)
(* is as visible as before, unless it tells of it: with new data whatever  *)
(* showed an external finding or shows another validation finding is told. *)
LEMMA SettledFindings ==
  ASSUME AreBatches, AreBatches', NEW P, SeenAlike(P), Settle,
         DataRevised => /\ ValidationOn(P)' = ValidationOn(P)
                        /\ \A s \in Source : ExternalOn(P)[s] = EmptyBag
  PROVE  FindingsOn(P)' = FindingsOn(P)
<1>1. CASE DataRevised
  <2>1. external' = NoBatches
    BY <1>1 DEF Settle, ClearFindings
  <2>2. ExternalOn(P)' = ExternalOn(P)
    BY <1>1, <2>1, ExternalGone
  <2> QED
    BY <1>1, <2>2 DEF FindingsOn
<1>2. CASE ~DataRevised
  <2>1. validated' = validated /\ external' = external
    BY <1>2 DEF Settle, Revalidate, ClearFindings
  <2>2. ValidationOn(P)' = ValidationOn(P)
    BY <2>1, ValidationStays
  <2>3. LiesAlike(P)
    BY <2>1 DEF LiesAlike
  <2>4. ExternalOn(P)' = ExternalOn(P)
    BY <2>3, ExternalStays
  <2> QED
    BY <2>2, <2>4 DEF FindingsOn
<1> QED
  BY <1>1, <1>2

(* A node that is not told for its findings shows those it did,            *)
LEMMA SettledNode ==
  ASSUME RInv, RInv', NEW n \in Control \cup {"list"},
         SeenAlike(PlacesOf(n)), Settle,
         DataRevised => n \notin ExternalTargets /\ n \notin Revalidated
  PROVE  NodeFindings(n)' = NodeFindings(n)
<1>1. /\ NodeFindings(n) = FindingsOn(PlacesOf(n))
      /\ NodeFindings(n)' = FindingsOn(PlacesOf(n))'
  BY NodeFindingsAre
<1>2. n \in StaticNode \ {"root"}
  BY FormFacadeAssumption DEF StaticNode
<1>3. ASSUME DataRevised
      PROVE  /\ ValidationOn(PlacesOf(n))' = ValidationOn(PlacesOf(n))
             /\ \A s \in Source : ExternalOn(PlacesOf(n))[s] = EmptyBag
  <2>1. ~ShowsExternal(NodeFindings(n)) /\ ValidationShown(n)' = ValidationShown(n)
    BY <1>2, <1>3 DEF ExternalTargets, Revalidated
  <2>2. ValidationShown(n)' = NodeFindings(n)'.validation
    BY DEF ValidationShown
  <2> QED
    BY <1>1, <2>1, <2>2 DEF ShowsExternal, ValidationShown, FindingsOn
<1>4. AreBatches /\ AreBatches'
  BY DEF AreBatches, RInv, BatchesInv
<1> HIDE DEF PlacesOf
<1> QED
  BY <1>1, <1>3, <1>4, SettledFindings

(* and so does an item that stays at its index.                            *)
LEMMA SettledItem ==
  ASSUME AreBatches, AreBatches', NEW id \in ItemIds \cap ItemIds',
         NEW i, IndexOf(id) = i, IndexOf(id)' = i,
         SeenAlike({AtItem(i)}), Settle,
         DataRevised => id \notin ExternalItemTargets /\ id \notin RevalidatedItems
  PROVE  FindingsOn({AtItem(i)})' = FindingsOn({AtItem(i)})
<1>1. (ItemFindings(IndexOf(id)))' = FindingsOn({AtItem(i)})'
  BY DEF ItemFindings, FindingsWhere, FindingsOn, ValidationOn, ExternalOn, ShownOn
<1>2. ItemFindings(IndexOf(id)) = FindingsOn({AtItem(i)})
  BY ItemFindingsAre
<1>3. ASSUME DataRevised
      PROVE  /\ ValidationOn({AtItem(i)})' = ValidationOn({AtItem(i)})
             /\ \A s \in Source : ExternalOn({AtItem(i)})[s] = EmptyBag
  <2>1. /\ ~ShowsExternal(ItemFindings(IndexOf(id)))
        /\ ItemValidationShown(id)' = ItemValidationShown(id)
    BY <1>3 DEF ExternalItemTargets, RevalidatedItems
  <2>2. ItemValidationShown(id)' = (ItemFindings(IndexOf(id)))'.validation
    BY DEF ItemValidationShown
  <2> QED
    BY <1>1, <1>2, <2>1, <2>2 DEF ShowsExternal, ItemValidationShown, FindingsOn
<1> QED
  BY <1>3, SettledFindings
-----------------------------------------------------------------------------
(* What a transition must tell: the nodes and the items that show anything *)
(* else than before, and the items that came and went.                     *)
NodesTold ==
  \A n \in Control \cup {"list"} :
    n \in transition'.nodes \/ Observe(n)' = Observe(n)
ItemsTold ==
  \A id \in ItemIds \cap ItemIds' :
    id \in transition'.items \/ ShownOfItem(id)' = ShownOfItem(id)
ComingsTold ==
  /\ transition'.items \subseteq ItemIds'
  /\ ItemIds' \ ItemIds \subseteq transition'.items
  /\ transition'.removed = ItemIds \ ItemIds'
AllTold == NodesTold /\ ItemsTold /\ ComingsTold

(* Whatever new data makes a node show of the findings is told,            *)
TellsOfFindings ==
  DataRevised =>
    /\ ExternalTargets \cup Revalidated \subseteq transition'.nodes
    /\ (ExternalItemTargets \cap ItemIds') \cup RevalidatedItems
         \subseteq transition'.items

(* and the rest of what it shows is as it was.                             *)
SettingsSame == UNCHANGED <<readOnly, visibility, baseline, submissionAttempted>>
ControlSame(c) ==
  /\ controls'[c] = controls[c]
  /\ formData'.value[c] = formData.value[c]
  /\ ParentIsObject(formData, c)' = ParentIsObject(formData, c)
ItemTouched(i) == i \in 1..Len(items) /\ items[i].control.touched
ListSame ==
  /\ arrayTouched' = arrayTouched
  /\ formData'.list = formData.list
  /\ formData'.items = formData.items
  /\ Identities' = Identities
  /\ ListParentIsObject(formData)' = ListParentIsObject(formData)
  /\ MultipleChoice => \A i : ItemTouched(i)' <=> ItemTouched(i)
ItemSame(i) ==
  /\ i \in 1..Len(items) /\ i \in 1..Len(items')
  /\ items'[i] = items[i]
  /\ formData'.items[i] = formData.items[i]

(* A place whose edit state is the same is as visible as it was.           *)
LEMMA PlacesSeen ==
  ASSUME visibility' = visibility, submissionAttempted' = submissionAttempted
  PROVE  /\ \A c \in Control :
              controls'[c] = controls[c] => SeenAlike(PlacesOf(c))
         /\ \/ ~MultipleChoice
            \/ /\ arrayTouched' = arrayTouched
               /\ \A i : ItemTouched(i)' <=> ItemTouched(i)
            => SeenAlike(PlacesOf("list"))
         /\ \A i : /\ i \in 1..Len(items) /\ i \in 1..Len(items')
                   /\ items'[i] = items[i]
                   => MultipleChoice \/ SeenAlike({AtItem(i)})
<1>1. ASSUME NEW c \in Control, controls'[c] = controls[c]
      PROVE  SeenAlike(PlacesOf(c))
  <2>1. TouchedAt(At(c))' <=> TouchedAt(At(c))
    <3>1. 0 \notin 1..Len(items) /\ 0 \notin 1..Len(items') /\ c # "list"
      BY FormFacadeAssumption
    <3> QED
      BY <1>1, <3>1 DEF TouchedAt, At
  <2>2. PlacesOf(c) = {At(c)}
    BY PlacesAre
  <2> QED
    BY <2>1, <2>2 DEF SeenAlike
<1>2. ASSUME \/ ~MultipleChoice
             \/ /\ arrayTouched' = arrayTouched
                /\ \A i : ItemTouched(i)' <=> ItemTouched(i)
      PROVE  SeenAlike(PlacesOf("list"))
  <2>1. CASE ~MultipleChoice
    <3>1. TouchedAt(At("list"))' <=> TouchedAt(At("list"))
      <4>1. /\ 0 \notin 1..Len(items) /\ 0 \notin 1..Len(items')
            /\ "list" \notin Control
        BY FormFacadeAssumption
      <4> QED
        BY <2>1, <4>1 DEF TouchedAt, At
    <3>2. PlacesOf("list") = {At("list")}
      BY <2>1, PlacesAre
    <3> QED
      BY <3>1, <3>2 DEF SeenAlike
  <2>2. CASE /\ arrayTouched' = arrayTouched
             /\ \A i : ItemTouched(i)' <=> ItemTouched(i)
    <3>1. ASSUME NEW l \in PlacesOf("list")
          PROVE  TouchedAt(l)' <=> TouchedAt(l)
      <4>1. l.node = "list" /\ "list" \notin Control
        BY FormFacadeAssumption DEF PlacesOf, At
      <4>2. ItemTouched(l.index)' <=> ItemTouched(l.index)
        BY <2>2
      <4> QED
        BY <2>2, <4>1, <4>2 DEF TouchedAt, ItemTouched
    <3> QED
      BY <3>1 DEF SeenAlike
  <2> QED
    BY <1>2, <2>1, <2>2
<1>3. ASSUME NEW i, i \in 1..Len(items), i \in 1..Len(items'), items'[i] = items[i],
             ~MultipleChoice, NEW l, l = AtItem(i)
      PROVE  TouchedAt(l)' <=> TouchedAt(l)
  <2>1. l.index = i /\ i # 0 /\ l.node = "list"
    BY <1>3 DEF AtItem
  <2> QED
    BY <1>3, <2>1 DEF TouchedAt
<1> QED
  BY <1>1, <1>2, <1>3 DEF SeenAlike

(* A step that settles its data and leaves alone the rest of what is shown *)
(* of whatever it does not tell of tells of everything that changed.       *)
LEMMA SettledTold ==
  ASSUME RInv, RInv', Settle, SettingsSame, TellsOfFindings,
         \A c \in Control : c \in transition'.nodes \/ ControlSame(c),
         "list" \in transition'.nodes \/ ListSame,
         \A id \in ItemIds \cap ItemIds' :
           \/ id \in transition'.items
           \/ \E i \in 1..Len(items) : items[i].identity = id /\ ItemSame(i)
  PROVE  NodesTold /\ ItemsTold
<1>1. AreBatches /\ AreBatches'
  BY DEF AreBatches, RInv, BatchesInv
<1>2. /\ visibility' = visibility /\ submissionAttempted' = submissionAttempted
      /\ readOnly' = readOnly /\ baseline' = baseline
  BY DEF SettingsSame
<1>3. ASSUME NEW c \in Control, c \notin transition'.nodes
      PROVE  Observe(c)' = Observe(c)
  <2>1. ControlSame(c)
    BY <1>3
  <2>2. SeenAlike(PlacesOf(c))
    BY <1>2, <2>1, PlacesSeen DEF ControlSame
  <2>3. NodeFindings(c)' = NodeFindings(c)
    BY <1>1, <1>3, <2>2, SettledNode DEF TellsOfFindings
  <2> QED
    BY <1>2, <2>1, <2>3, ControlStays DEF ControlSame
<1>4. ASSUME "list" \notin transition'.nodes
      PROVE  Observe("list")' = Observe("list")
  <2>1. ListSame
    BY <1>4
  <2>2. SeenAlike(PlacesOf("list"))
    BY <1>2, <2>1, PlacesSeen DEF ListSame
  <2>3. NodeFindings("list")' = NodeFindings("list")
    BY <1>1, <1>4, <2>2, SettledNode DEF TellsOfFindings
  <2> QED
    BY <1>2, <2>1, <2>3, ListStays DEF ListSame
<1>5. ASSUME NEW id \in ItemIds \cap ItemIds', id \notin transition'.items
      PROVE  ShownOfItem(id)' = ShownOfItem(id)
  <2>1. PICK i \in 1..Len(items) : items[i].identity = id /\ ItemSame(i)
    BY <1>5
  <2>2. IndexOf(id) = i /\ IndexOf(id)' = i
    BY <2>1, IndexIsItem DEF ItemSame, RInv, FInv
  <2>3. MultipleChoice \/ SeenAlike({AtItem(i)})
    BY <1>2, <2>1, PlacesSeen DEF ItemSame
  <2>4. MultipleChoice \/ FindingsOn({AtItem(i)})' = FindingsOn({AtItem(i)})
    BY <1>1, <1>5, <2>2, <2>3, SettledItem DEF TellsOfFindings
  <2> QED
    BY <1>2, <2>1, <2>2, <2>4, ItemStays DEF ItemSame
<1> QED
  BY <1>3, <1>4, <1>5 DEF NodesTold, ItemsTold

-----------------------------------------------------------------------------
(* What user_transition tells.                                             *)
LEMMA TellUserTells ==
  ASSUME NEW target, NEW targetItems, NEW ancestors,
         TellUser(target, targetItems, ancestors),
         targetItems \subseteq ItemIds, ItemIds' = ItemIds
  PROVE  /\ TellsOfFindings /\ ComingsTold
         /\ Revised => /\ target \subseteq transition'.nodes
                       /\ targetItems \subseteq transition'.items
         /\ DataRevised => ancestors \subseteq transition'.nodes
<1>1. ExternalItemTargets \subseteq ItemIds /\ RevalidatedItems \subseteq ItemIds'
  BY DEF ExternalItemTargets, RevalidatedItems
<1> HIDE DEF Revised, DataRevised, ItemIds, ExternalTargets, ExternalItemTargets,
             Revalidated, RevalidatedItems
<1> QED
  BY <1>1 DEF TellUser, Tell, TellsOfFindings, ComingsTold

(* An edit of one control changes what no other control or item shows,     *)
ControlEdited(c) ==
  /\ UNCHANGED <<items, arrayTouched>>
  /\ \A x \in Control \ {c} : /\ controls'[x] = controls[x]
                              /\ formData'.value[x] = formData.value[x]
  /\ formData'.group = formData.group
  /\ formData'.list = formData.list
  /\ formData'.items = formData.items

(* When it tells of that control, it tells of all it changed.              *)
LEMMA ControlEditTold ==
  ASSUME RInv, RInv', NEW c \in Control, ControlEdited(c),
         Settle, SettingsSame, TellsOfFindings, c \in transition'.nodes
  PROVE  NodesTold /\ ItemsTold
<1>1. Identities' = Identities /\ ItemIds' = ItemIds
  BY DEF ControlEdited, Identities, ItemIds
<1>2. \A x \in Control : x \in transition'.nodes \/ ControlSame(x)
  BY DEF ControlEdited, ControlSame, ParentIsObject
<1>3. ListSame
  BY <1>1 DEF ControlEdited, ListSame, ListParentIsObject, ItemTouched
<1>4. \A id \in ItemIds : \E i \in 1..Len(items) :
        items[i].identity = id /\ ItemSame(i)
  BY DEF ControlEdited, ItemSame, ItemIds
<1> QED
  BY <1>1, <1>2, <1>3, <1>4, SettledTold

(* So do the operations of a control, unless they revise nothing.          *)
LEMMA ControlActionTold ==
  ASSUME RInv, RInv', NEW c \in Control,
         \/ \E text \in Text : InputText(c, text)
         \/ \E v \in Value \cup {Null} : AssignValue(c, v)
         \/ RemoveValue(c)
         \/ BlurControl(c)
  PROVE  ComingsTold /\ (Revised => NodesTold /\ ItemsTold)
<1>1. formData \in Data /\ controls \in [Control -> ControlState]
  BY DEF RInv, FInv, IInv, TypeOK, Tree
<1>2. CASE \E text \in Text : InputText(c, text)
  <2>1. PICK text \in Text : InputText(c, text)
    BY <1>2
  <2>2. ControlEdited(c) /\ SettingsSame
    BY <1>1, <2>1 DEF InputText, EditText, SetControl, ControlEdited, SettingsSame,
       Settle, hostSettings, topologyVars, Data
  <2>3. Settle /\ TellUser({c}, {}, Above(c))
    BY <2>1 DEF InputText
  <2>4. ItemIds' = ItemIds
    BY <2>2 DEF ControlEdited, ItemIds
  <2> QED
    BY <2>2, <2>3, <2>4, TellUserTells, ControlEditTold
<1>3. CASE \E v \in Value \cup {Null} : AssignValue(c, v)
  <2>1. PICK v \in Value \cup {Null} : AssignValue(c, v)
    BY <1>3
  <2>2. ControlEdited(c) /\ SettingsSame
    <3>1. CASE formData.value[c] = v
      BY <2>1, <3>1 DEF AssignValue, SetValue, ControlEdited, SettingsSame, Settle,
         hostSettings, vars
    <3>2. CASE formData.value[c] # v
      <4>1. SettingsSame
        BY <2>1, <3>2 DEF AssignValue, SetValue, SettingsSame, Settle, hostSettings
      <4>2. ControlEdited(c)
        BY <1>1, <2>1, <3>2 DEF AssignValue, SetValue, SetControl, ControlEdited,
           topologyVars, Data
      <4> QED
        BY <4>1, <4>2
    <3> QED
      BY <3>1, <3>2
  <2>3. Settle /\ TellUser({c}, {}, Above(c))
    BY <2>1 DEF AssignValue
  <2>4. ItemIds' = ItemIds
    BY <2>2 DEF ControlEdited, ItemIds
  <2> QED
    BY <2>2, <2>3, <2>4, TellUserTells, ControlEditTold
<1>4. CASE RemoveValue(c)
  <2>2. ControlEdited(c) /\ SettingsSame
    BY <1>1, <1>4 DEF RemoveValue, RemoveControlValue, TakeControl, ControlEdited,
       SettingsSame, Settle, hostSettings, topologyVars, Data
  <2>3. Settle /\ TellUser({c}, {}, Above(c))
    BY <1>4 DEF RemoveValue
  <2>4. ItemIds' = ItemIds
    BY <2>2 DEF ControlEdited, ItemIds
  <2> QED
    BY <2>2, <2>3, <2>4, TellUserTells, ControlEditTold
<1>5. CASE BlurControl(c)
  <2>0. ~DataRevised
    BY <1>5 DEF BlurControl, Blur, AdvanceRevisions, DataRevised, RInv, FInv, IInv, TypeOK
  <2>1. ControlEdited(c) /\ SettingsSame /\ ~DataRevised /\ Settle
    BY <1>1, <1>5, <2>0 DEF BlurControl, Blur, ControlEdited, SettingsSame, Settle,
       Revalidate, ClearFindings, hostSettings, findingVars, topologyVars
  <2>2. TellsOfFindings
    BY <2>1 DEF TellsOfFindings
  <2>3. Tell(IF Revised THEN {c} ELSE {}, {}, {})
    BY <1>5 DEF BlurControl
  <2>4. ItemIds' = ItemIds
    BY <2>1 DEF ControlEdited, ItemIds
  <2>5. ComingsTold /\ (Revised => c \in transition'.nodes)
    BY <2>3, <2>4 DEF Tell, ComingsTold
  <2> QED
    BY <2>1, <2>2, <2>5, ControlEditTold
<1> QED
  BY <1>2, <1>3, <1>4, <1>5

(* and an edit of one item, what no other item or control does.            *)
ItemEdited(i) ==
  /\ UNCHANGED <<controls, arrayTouched>>
  /\ Len(items') = Len(items)
  /\ items'[i].identity = items[i].identity
  /\ formData'.group = formData.group
  /\ formData'.list = formData.list
  /\ formData'.value = formData.value
  /\ ~DataRevised => formData' = formData
  /\ \A k \in (1..Len(items)) \ {i} : /\ items'[k] = items[k]
                                      /\ formData'.items[k] = formData.items[k]

(* An edited item keeps its identity and its index.                        *)
LEMMA ItemEditIndices ==
  ASSUME RInv, RInv', NEW i \in 1..Len(items), ItemEdited(i)
  PROVE  Identities' = Identities /\ ItemIds' = ItemIds
<1>1. \A k \in 1..Len(items) : items'[k].identity = items[k].identity
  BY DEF ItemEdited
<1> QED
  BY <1>1, SameIndices DEF ItemEdited, RInv, FInv

(* When it is told, and the list with new data, all that changed is told.  *)
LEMMA ItemEditTold ==
  ASSUME RInv, RInv', NEW i \in 1..Len(items), ItemEdited(i),
         ~MultipleChoice \/ items'[i].control.touched = items[i].control.touched,
         Settle, SettingsSame, TellsOfFindings,
         items[i].identity \in transition'.items,
         DataRevised => "list" \in transition'.nodes
  PROVE  NodesTold /\ ItemsTold
<1>1. Identities' = Identities /\ ItemIds' = ItemIds
  BY ItemEditIndices
<1>2. \A x \in Control : ControlSame(x)
  BY DEF ItemEdited, ControlSame, ParentIsObject
<1>3. "list" \in transition'.nodes \/ ListSame
  <2>1. MultipleChoice => \A k : ItemTouched(k)' <=> ItemTouched(k)
    BY DEF ItemEdited, ItemTouched
  <2> QED
    BY <1>1, <2>1 DEF ItemEdited, ListSame, ListParentIsObject
<1>4. \A id \in ItemIds :
        \/ id \in transition'.items
        \/ \E k \in 1..Len(items) : items[k].identity = id /\ ItemSame(k)
  BY DEF ItemEdited, ItemSame, ItemIds
<1> QED
  BY <1>1, <1>2, <1>3, <1>4, SettledTold

(* So do the operations of an item, unless they revise nothing.  (Leaving  *)
(* an item of a multiple choice may reveal a finding that the list shows.) *)
LEMMA ItemActionTold ==
  ASSUME RInv, RInv', NEW i \in 1..Len(items),
         \/ \E text \in Text : InputItemText(i, text)
         \/ \E v \in Value \cup {Null} : AssignItemValue(i, v)
         \/ BlurItemControl(i) /\ ~MultipleChoice
  PROVE  ComingsTold /\ (Revised => NodesTold /\ ItemsTold)
<1>1. /\ formData \in Data /\ items \in Seq(ItemState) /\ dataRevision \in Nat
      /\ Len(items) = Len(formData.items)
  BY DEF RInv, FInv, IInv, TypeOK, Tree, TopologyMatchesData, Count
<1>0. formData.items \in Seq(Scalar) /\ items[i].identity \in ItemIds
  BY <1>1 DEF Data, ItemIds
<1>2. CASE \E text \in Text : InputItemText(i, text)
  <2>1. PICK text \in Text : InputItemText(i, text)
    BY <1>2
  <2>2. ItemEdited(i)
    <3>1. /\ items' = [items EXCEPT ![i].control = Typed(@, text)]
          /\ UNCHANGED <<controls, arrayTouched>>
      BY <2>1 DEF InputItemText, EditItemText
    <3>2. \/ formData' = formData
          \/ /\ formData' = [formData EXCEPT !.items[i] = Parse[text]]
             /\ DataRevised
      BY <1>1, <2>1 DEF InputItemText, EditItemText, AdvanceRevisions, DataRevised
    <3>3. /\ Len(items') = Len(items)
          /\ items'[i].identity = items[i].identity
          /\ \A k \in (1..Len(items)) \ {i} : items'[k] = items[k]
      BY <1>1, <3>1 DEF ItemState
    <3>4. /\ formData'.group = formData.group
          /\ formData'.list = formData.list
          /\ formData'.value = formData.value
          /\ \A k \in (1..Len(items)) \ {i} : formData'.items[k] = formData.items[k]
      BY <1>0, <1>1, <3>2 DEF Data
    <3> QED
      BY <3>1, <3>2, <3>3, <3>4 DEF ItemEdited
  <2>5. items'[i].control.touched = items[i].control.touched
    <3>1. items' = [items EXCEPT ![i].control = Typed(@, text)]
      BY <2>1 DEF InputItemText, EditItemText
    <3> QED
      BY <1>1, <3>1 DEF Typed, ItemState, ControlState
  <2>3. SettingsSame /\ Settle
    BY <2>1 DEF InputItemText, EditItemText, SettingsSame, Settle, hostSettings
  <2>4. TellUser({}, {items[i].identity}, {"list", "group"})
    BY <2>1 DEF InputItemText
  <2> QED
    BY <1>0, <2>2, <2>3, <2>4, <2>5, TellUserTells, ItemEditTold, ItemEditIndices
<1>3. CASE \E v \in Value \cup {Null} : AssignItemValue(i, v)
  <2>1. PICK v \in Value \cup {Null} : AssignItemValue(i, v)
    BY <1>3
  <2>2. ItemEdited(i)
    <3>1. CASE formData.items[i] = v
      BY <2>1, <3>1 DEF AssignItemValue, SetItemValue, ItemEdited, vars
    <3>2. CASE formData.items[i] # v
      <4>1. /\ items' = [items EXCEPT ![i].control = ClearEditState(@)]
            /\ formData' = [formData EXCEPT !.items[i] = v]
            /\ UNCHANGED <<controls, arrayTouched>>
        BY <2>1, <3>2 DEF AssignItemValue, SetItemValue
      <4>2. DataRevised
        BY <1>1, <2>1, <3>2 DEF AssignItemValue, SetItemValue, AdvanceRevisions,
           DataRevised
      <4>3. /\ Len(items') = Len(items)
            /\ items'[i].identity = items[i].identity
            /\ \A k \in (1..Len(items)) \ {i} : items'[k] = items[k]
        BY <1>1, <4>1 DEF ItemState
      <4>4. /\ formData'.group = formData.group
            /\ formData'.list = formData.list
            /\ formData'.value = formData.value
            /\ \A k \in (1..Len(items)) \ {i} :
                 formData'.items[k] = formData.items[k]
        BY <1>0, <1>1, <4>1 DEF Data
      <4> QED
        BY <4>1, <4>2, <4>3, <4>4 DEF ItemEdited
    <3> QED
      BY <3>1, <3>2
  <2>5. items'[i].control.touched = items[i].control.touched
    <3>1. \/ items' = items
          \/ items' = [items EXCEPT ![i].control = ClearEditState(@)]
      BY <2>1 DEF AssignItemValue, SetItemValue, vars, topologyVars
    <3>2. items[i] \in ItemState
      BY <1>1
    <3>3. \/ items'[i] = items[i]
          \/ items'[i] = [items[i] EXCEPT !.control = ClearEditState(@)]
      BY <1>1, <3>1
    <3> QED
      BY <3>2, <3>3 DEF ClearEditState, ItemState, ControlState
  <2>3. SettingsSame /\ Settle
    BY <2>1 DEF AssignItemValue, SetItemValue, SettingsSame, Settle, hostSettings, vars
  <2>4. TellUser({}, {items[i].identity}, {"list", "group"})
    BY <2>1 DEF AssignItemValue
  <2> QED
    BY <1>0, <2>2, <2>3, <2>4, <2>5, TellUserTells, ItemEditTold, ItemEditIndices
<1>4. CASE BlurItemControl(i) /\ ~MultipleChoice
  <2>1. ~DataRevised
    BY <1>1, <1>4 DEF BlurItemControl, BlurItem, AdvanceRevisions, DataRevised
  <2>2. ItemEdited(i)
    BY <1>0, <1>1, <1>4 DEF BlurItemControl, BlurItem, ItemEdited, ItemState
  <2>3. SettingsSame /\ Settle
    BY <1>4, <2>1 DEF BlurItemControl, BlurItem, SettingsSame, Settle, Revalidate,
       ClearFindings, hostSettings, findingVars
  <2>4. Tell({}, IF Revised THEN {items[i].identity} ELSE {}, {})
    BY <1>4 DEF BlurItemControl
  <2>5. ItemIds' = ItemIds
    BY <2>2, ItemEditIndices
  <2>6. ComingsTold /\ (Revised => items[i].identity \in transition'.items)
    BY <1>0, <2>4, <2>5 DEF Tell, ComingsTold
  <2>7. TellsOfFindings
    BY <2>1 DEF TellsOfFindings
  <2> QED
    BY <1>4, <2>1, <2>2, <2>3, <2>6, <2>7, ItemEditTold
<1> QED
  BY <1>2, <1>3, <1>4

-----------------------------------------------------------------------------
(* A structural edit tells of everything on its path and of every item; it *)
(* leaves the controls beside it alone.                                    *)
LEMMA StructuralEditTold ==
  ASSUME RInv, RInv', StructuralEdit
  PROVE  ComingsTold /\ NodesTold /\ ItemsTold
<1>1. formData \in Data /\ controls \in [Control -> ControlState]
  BY DEF RInv, FInv, IInv, TypeOK, Tree
<1>2. PICK path : /\ TellStructure(path) /\ "list" \in path /\ Settle /\ SettingsSame
                  /\ \A c \in Control \ path : ControlSame(c)
  <2>1. CASE /\ \/ "remove" \in GroupAllows /\ RemoveGroup
                \/ "materialize" \in GroupAllows /\ MaterializeGroup
                \/ /\ "replace" \in GroupAllows
                   /\ \E g \in HostData : g.group = "object" /\ ReplaceGroup(g)
             /\ Settle
             /\ TellStructure(Grouped \cup {"group", "list"})
    <3>1. \A c \in Control \ Grouped : ControlSame(c)
      <4>1. \A c \in Control \ Grouped : formData'.value[c] = formData.value[c]
        <5>1. \/ formData' = TakeGroup(formData)
              \/ \E g : formData' = SetGroup(formData, g)
          BY <2>1 DEF RemoveGroup, MaterializeGroup, ReplaceGroup
        <5>2. ASSUME formData' = TakeGroup(formData), NEW c \in Control \ Grouped
              PROVE  formData'.value[c] = formData.value[c]
          BY <1>1, <5>2 DEF TakeGroup, Data
        <5>3. ASSUME NEW g, formData' = SetGroup(formData, g),
                     NEW c \in Control \ Grouped
              PROVE  formData'.value[c] = formData.value[c]
          BY <1>1, <5>3 DEF SetGroup, Data
        <5> QED
          BY <5>1, <5>2, <5>3
      <4>2. \A c \in Control \ Grouped : controls'[c] = controls[c]
        BY <1>1, <2>1 DEF RemoveGroup, MaterializeGroup, ReplaceGroup,
           ClearGroupedEdits
      <4> QED
        BY <4>1, <4>2 DEF ControlSame, ParentIsObject
    <3>2. SettingsSame
      BY <2>1 DEF RemoveGroup, MaterializeGroup, ReplaceGroup, SettingsSame, Settle,
         hostSettings
    <3> QED
      BY <2>1, <3>1, <3>2
  <2>2. CASE /\ \/ "remove" \in ListAllows /\ RemoveList
                \/ "materialize" \in ListAllows /\ MaterializeList
                \/ /\ "replace" \in ListAllows
                   /\ \E g \in HostData : g.list = "array" /\ ReplaceList(g.items)
             /\ Settle
             /\ TellStructure({"group", "list"})
    <3>1. \A c \in Control : ControlSame(c)
      BY <1>1, <2>2 DEF RemoveList, MaterializeList, ReplaceList, TakeList, SetList,
         Data, ControlSame, ParentIsObject
    <3>2. SettingsSame
      BY <2>2 DEF RemoveList, MaterializeList, ReplaceList, SettingsSame, Settle,
         hostSettings
    <3> QED
      BY <2>2, <3>1, <3>2
  <2> QED
    BY <2>1, <2>2 DEF StructuralEdit
<1>3. /\ path \cup ExternalTargets \cup Revalidated \subseteq transition'.nodes
      /\ transition'.items = ItemIds'
      /\ ComingsTold
  BY <1>2 DEF TellStructure, Tell, ComingsTold
<1>4. TellsOfFindings
  BY <1>3 DEF TellsOfFindings, RevalidatedItems
<1>5. /\ \A c \in Control : c \in transition'.nodes \/ ControlSame(c)
      /\ "list" \in transition'.nodes
      /\ \A id \in ItemIds \cap ItemIds' : id \in transition'.items
  BY <1>2, <1>3
<1> QED
  BY <1>2, <1>3, <1>4, <1>5, SettledTold

-----------------------------------------------------------------------------
(* What an operation of the list tells.                                    *)
LEMMA TellArrayTells ==
  ASSUME NEW changed, NEW removed, TellArray(changed, removed),
         removed = ItemIds \ ItemIds'
  PROVE  /\ TellsOfFindings /\ ComingsTold
         /\ "list" \in transition'.nodes
         /\ changed \cap ItemIds' \subseteq transition'.items
<1>1. /\ RevalidatedItems \subseteq ItemIds'
      /\ ItemIds' \ ItemIds \subseteq RevalidatedItems
  BY DEF RevalidatedItems
<1> HIDE DEF Revised, DataRevised, ItemIds, ExternalTargets, ExternalItemTargets,
             Revalidated, RevalidatedItems
<1> QED
  BY <1>1 DEF TellArray, Tell, TellsOfFindings, ComingsTold

(* An insertion tells of the list, the new item and every item it shifts.  *)
LEMMA InsertedTold ==
  ASSUME RInv, RInv', NEW i \in 1..Len(items) + 1, NEW v \in Scalar,
         formData'.items = InsertAt(formData.items, i, v),
         items' = InsertAt(items, i, NewItem),
         Settle, SettingsSame, \A c \in Control : ControlSame(c),
         TellArray({nextItemIdentity} \cup Shifted(i), {})
  PROVE  ComingsTold /\ NodesTold /\ ItemsTold
<1>1. /\ formData \in Data /\ items \in Seq(ItemState) /\ Len(items) \in Nat
      /\ Len(items) = Len(formData.items) /\ nextItemIdentity \in Nat
      /\ formData.items \in Seq(Scalar)
  BY DEF RInv, FInv, IInv, TypeOK, Tree, TopologyMatchesData, Count, Data
<1>2. NewItem \in ItemState
  BY <1>1 DEF NewItem, ItemState, ControlState, Untouched
<1>3. /\ Len(items') = Len(items) + 1
      /\ \A k \in 1..Len(items) + 1 :
           items'[k] = IF k < i THEN items[k]
                       ELSE IF k = i THEN NewItem ELSE items[k - 1]
  <2> DEFINE s == items
             e == NewItem
  <2>1. s \in Seq(ItemState) /\ e \in ItemState /\ i \in 1..Len(s) + 1
    BY <1>1, <1>2
  <2>2. items' = InsertAt(s, i, e)
    OBVIOUS
  <2> HIDE DEF s, e
  <2>3. Len(InsertAt(s, i, e)) = Len(s) + 1
    BY <2>1, InsertAtLength
  <2>4. ASSUME NEW k \in 1..Len(s) + 1
        PROVE  InsertAt(s, i, e)[k] = IF k < i THEN s[k]
                                      ELSE IF k = i THEN e ELSE s[k - 1]
    BY <2>1, InsertAtElement
  <2> QED
    BY <2>2, <2>3, <2>4 DEF s, e
<1>4. \A k \in 1..Len(items) : k < i => formData'.items[k] = formData.items[k]
  <2> DEFINE s == formData.items
  <2>1. s \in Seq(Scalar) /\ Len(items) = Len(s) /\ i \in 1..Len(s) + 1
    BY <1>1
  <2>2. formData'.items = InsertAt(s, i, v)
    OBVIOUS
  <2> HIDE DEF s
  <2>3. ASSUME NEW k \in 1..Len(s), k < i
        PROVE  InsertAt(s, i, v)[k] = s[k]
    BY <2>1, <2>3, InsertAtKeeps
  <2>4. \A k \in 1..Len(items) : k < i => InsertAt(s, i, v)[k] = s[k]
    BY <2>1, <2>3
  <2> QED
    BY <2>2, <2>4 DEF s
<1>5. ItemIds \subseteq ItemIds'
  <2> SUFFICES ASSUME NEW k \in 1..Len(items)
               PROVE  \E m \in 1..Len(items') : items'[m].identity = items[k].identity
    BY DEF ItemIds
  <2>1. CASE k < i
    BY <1>1, <1>3, <2>1
  <2>2. CASE ~(k < i)
    <3>1. k + 1 \in 1..Len(items) + 1 /\ ~(k + 1 <= i) /\ k + 1 - 1 = k
      BY <1>1, <2>2
    <3>2. k + 1 \in 1..Len(items') /\ items'[k + 1] = items[k]
      BY <1>1, <1>3, <3>1
    <3> QED
      BY <3>2
  <2> QED
    BY <2>1, <2>2
<1>6. /\ TellsOfFindings /\ ComingsTold /\ "list" \in transition'.nodes
      /\ Shifted(i) \cap ItemIds' \subseteq transition'.items
  BY <1>5, TellArrayTells
<1>7. ASSUME NEW id \in ItemIds \cap ItemIds', id \notin transition'.items
       PROVE  \E k \in 1..Len(items) : items[k].identity = id /\ ItemSame(k)
  <2>1. PICK k \in 1..Len(items) : items[k].identity = id
    BY DEF ItemIds
  <2>2. k < i
    BY <1>1, <1>6, <1>7, <2>1 DEF Shifted
  <2>3. ItemSame(k)
    BY <1>1, <1>3, <1>4, <2>2 DEF ItemSame
  <2> QED
    BY <2>1, <2>3
<1> QED
  BY <1>6, <1>7, SettledTold

(* So does adding an item, at the end or before another.                   *)
LEMMA InsertionTold ==
  ASSUME RInv, RInv', NEW i \in 1..Len(items) + 1, AddItem(i)
  PROVE  ComingsTold /\ NodesTold /\ ItemsTold
<1>1. formData \in Data /\ Len(items) \in Nat
  BY InvariantFacts DEF RInv, FInv, IInv, TypeOK, Tree
<1>2. InsertItem(i)
  BY <1>1 DEF AddItem, AppendArrayItem, InsertArrayItemBefore
<1>3. Settle /\ TellArray({nextItemIdentity} \cup Shifted(i), {})
  BY DEF AddItem
<1>4. SettingsSame /\ \A c \in Control : ControlSame(c)
  BY <1>1, <1>2, <1>3 DEF InsertItem, SettingsSame, Settle, hostSettings, ControlSame,
     ParentIsObject, Data
<1>5. /\ formData'.items = InsertAt(formData.items, i, ItemSeed)
      /\ ItemSeed \in Scalar /\ items' = InsertAt(items, i, NewItem)
  BY <1>1, <1>2, FormEngineAssumption DEF InsertItem, Data
<1> QED
  BY <1>3, <1>4, <1>5, InsertedTold

(* and including a choice, wherever option order puts it.                  *)
LEMMA InclusionTold ==
  ASSUME RInv, RInv', NEW v \in Value, IncludeChoice(v), Settle,
         TellArray({nextItemIdentity} \cup
                     Shifted(InsertionPoint(formData.items, OptionPosition(v))), {})
  PROVE  ComingsTold /\ NodesTold /\ ItemsTold
<1> DEFINE at == InsertionPoint(formData.items, OptionPosition(v))
<1>1. formData \in Data /\ at \in 1..Len(items) + 1
  BY InvariantFacts, InsertionPointType DEF RInv, FInv, IInv, TypeOK, Tree
<1>2. /\ formData' = SetList(formData, InsertAt(formData.items, at, v))
      /\ items' = InsertAt(items, at, NewItem)
  BY DEF IncludeChoice
<1>3. TellArray({nextItemIdentity} \cup Shifted(at), {})
  OBVIOUS
<1> HIDE DEF at
<1>4. SettingsSame /\ \A c \in Control : ControlSame(c)
  BY <1>1, <1>2 DEF IncludeChoice, SetList, SettingsSame, Settle, hostSettings,
     ControlSame, ParentIsObject, Data
<1>5. formData'.items = InsertAt(formData.items, at, v) /\ v \in Scalar
  BY <1>1, <1>2 DEF SetList, Data, Scalar
<1> QED
  BY <1>1, <1>2, <1>3, <1>4, <1>5, InsertedTold

(* A removal tells of the list and every item it shifts.                   *)
LEMMA RemovalTold ==
  ASSUME RInv, RInv', NEW i \in 1..Len(items), RemoveItemAt(i)
  PROVE  ComingsTold /\ NodesTold /\ ItemsTold
<1>1. /\ formData \in Data /\ items \in Seq(ItemState) /\ Len(items) \in Nat
      /\ Len(items) = Len(formData.items)
      /\ formData.items \in Seq(Scalar)
      /\ IdentitiesDistinct
  BY DEF RInv, FInv, IInv, TypeOK, Tree, TopologyMatchesData, Count, Data
<1>2. RemoveArrayItem(i)
  BY DEF RemoveItemAt
<1>4. /\ Len(items') = Len(items) - 1
      /\ \A k \in 1..Len(items) - 1 :
           items'[k] = IF k < i THEN items[k] ELSE items[k + 1]
  BY <1>1, <1>2, RemoveAtProperties DEF RemoveArrayItem
<1>5. \A k \in 1..Len(items) : k < i => formData'.items[k] = formData.items[k]
  <2>1. formData'.items = RemoveAt(formData.items, i)
    BY <1>1, <1>2 DEF RemoveArrayItem, Data
  <2>2. i \in 1..Len(formData.items)
    BY <1>1
  <2>3. \A k \in 1..Len(formData.items) - 1 :
          formData'.items[k] = IF k < i THEN formData.items[k]
                               ELSE formData.items[k + 1]
    BY <1>1, <2>1, <2>2, RemoveAtProperties
  <2> QED
    BY <1>1, <2>2, <2>3
<1>6. {items[i].identity} = ItemIds \ ItemIds'
  <2>1. ASSUME NEW k \in 1..Len(items), k # i
        PROVE  items[k].identity \in ItemIds'
    <3>1. CASE k < i
      BY <1>1, <1>4, <3>1 DEF ItemIds
    <3>2. CASE ~(k < i)
      <4>1. k - 1 \in 1..Len(items') /\ items'[k - 1] = items[k]
        BY <1>1, <1>4, <2>1, <3>2
      <4> QED
        BY <4>1 DEF ItemIds
    <3> QED
      BY <3>1, <3>2
  <2>2. items[i].identity \notin ItemIds'
    <3> SUFFICES ASSUME NEW m \in 1..Len(items'),
                        items'[m].identity = items[i].identity
                 PROVE  FALSE
      BY DEF ItemIds
    <3>1. CASE m < i
      BY <1>1, <1>4, <3>1 DEF IdentitiesDistinct
    <3>2. CASE ~(m < i)
      <4>1. m + 1 \in 1..Len(items) /\ items'[m] = items[m + 1] /\ m + 1 # i
        BY <1>1, <1>4, <3>2
      <4> QED
        BY <1>1, <4>1 DEF IdentitiesDistinct
    <3> QED
      BY <3>1, <3>2
  <2> QED
    BY <2>1, <2>2 DEF ItemIds
<1>7. Settle /\ TellArray(Shifted(i + 1), {items[i].identity})
  BY DEF RemoveItemAt
<1>8. SettingsSame /\ \A c \in Control : ControlSame(c)
  BY <1>1, <1>2, <1>7 DEF RemoveArrayItem, SettingsSame, Settle, hostSettings,
     ControlSame, ParentIsObject, Data
<1>9. /\ TellsOfFindings /\ ComingsTold /\ "list" \in transition'.nodes
      /\ Shifted(i + 1) \cap ItemIds' \subseteq transition'.items
  BY <1>6, <1>7, TellArrayTells
<1>10. ASSUME NEW id \in ItemIds \cap ItemIds', id \notin transition'.items
       PROVE  \E k \in 1..Len(items) : items[k].identity = id /\ ItemSame(k)
  <2>1. PICK k \in 1..Len(items) : items[k].identity = id
    BY DEF ItemIds
  <2>2. k # i
    BY <1>6, <1>10, <2>1
  <2>3. k < i
    BY <1>1, <1>9, <1>10, <2>1, <2>2 DEF Shifted
  <2>4. ItemSame(k)
    BY <1>1, <1>4, <1>5, <2>3 DEF ItemSame
  <2> QED
    BY <2>1, <2>4
<1> QED
  BY <1>7, <1>8, <1>9, <1>10, SettledTold

-----------------------------------------------------------------------------
(* Positions in ascending order are all of them,                           *)
LEMMA AscendingAll ==
  ASSUME NEW n \in Nat, NEW I \in SUBSET (1..n), NEW p \in Ascending(I)
  PROVE  /\ Cardinality(I) \in Nat
         /\ p \in [1..Cardinality(I) -> I]
         /\ \A j, k \in 1..Cardinality(I) : j < k => p[j] < p[k]
         /\ \A i \in I : \E j \in 1..Cardinality(I) : p[j] = i
<1> DEFINE m == Cardinality(I)
<1>1. IsFiniteSet(I) /\ m \in Nat
  <2>1. IsFiniteSet(1..n)
    BY FS_Interval
  <2> QED
    BY <2>1, FS_Subset, FS_CardinalityType
<1>2. p \in [1..m -> I] /\ \A j, k \in 1..m : j < k => p[j] < p[k]
  BY DEF Ascending
<1> HIDE DEF m
<1>3. p \in Injection(1..m, I)
  <2> SUFFICES ASSUME NEW j \in 1..m, NEW k \in 1..m, p[j] = p[k]
               PROVE  j = k
    BY <1>2, Fun_IsInj
  <2>1. p[j] \in 1..n /\ p[k] \in 1..n
    <3>1. p[j] \in I /\ p[k] \in I
      BY <1>2
    <3> QED
      BY <3>1
  <2>2. ~(j < k) /\ ~(k < j)
    BY <1>2, <2>1
  <2> QED
    BY <1>1, <2>2
<1>4. Cardinality(1..m) = m
  BY <1>1, FS_Interval
<1>5. p \in Surjection(1..m, I)
  BY <1>1, <1>3, <1>4, FS_Injection DEF m
<1> QED
  BY <1>1, <1>2, <1>5, Fun_SurjectionProperties DEF m

(* and each is in its own place as long as none before it is missing.      *)
LEMMA AscendingStart ==
  ASSUME NEW n \in Nat, NEW I \in SUBSET (1..n), NEW p \in Ascending(I),
         NEW k \in 1..n, 1..k \subseteq I
  PROVE  k \in 1..Cardinality(I) /\ p[k] = k
<1> DEFINE m == Cardinality(I)
<1>1. /\ m \in Nat /\ p \in [1..m -> I]
      /\ \A j, i \in 1..m : j < i => p[j] < p[i]
      /\ \A i \in I : \E j \in 1..m : p[j] = i
  BY AscendingAll
<1> HIDE DEF m
<1>2. PICK last \in 1..m : p[last] = k
  <2>1. k \in I
    OBVIOUS
  <2> QED
    BY <1>1, <2>1
<1>3. \A j \in 1..last : p[j] \in 1..k
  <2> SUFFICES ASSUME NEW j \in 1..last PROVE p[j] \in 1..k
    OBVIOUS
  <2>1. j \in 1..m /\ p[j] \in 1..n
    <3>1. j \in 1..m
      BY <1>1, <1>2
    <3>2. p[j] \in I
      BY <1>1, <3>1
    <3> QED
      BY <3>1, <3>2
  <2>2. j < last => p[j] < k
    BY <1>1, <1>2, <2>1
  <2>3. j = last => p[j] = k
    BY <1>2
  <2> QED
    BY <1>1, <1>2, <2>1, <2>2, <2>3
<1>4. \A i \in 1..k : \E j \in 1..last : p[j] = i
  <2> SUFFICES ASSUME NEW i \in 1..k PROVE \E j \in 1..last : p[j] = i
    OBVIOUS
  <2>1. PICK j \in 1..m : p[j] = i
    BY <1>1
  <2>2. ~(last < j)
    <3>1. last < j => k < i
      BY <1>1, <1>2, <2>1
    <3> QED
      BY <3>1
  <2> QED
    BY <1>1, <1>2, <2>1, <2>2
<1> DEFINE start == [j \in 1..last |-> p[j]]
<1>5. start \in Bijection(1..last, 1..k)
  <2>1. start \in [1..last -> 1..k]
    BY <1>3
  <2>2. \A i \in 1..k : \E j \in 1..last : start[j] = i
    BY <1>4
  <2>3. ASSUME NEW j \in 1..last, NEW i \in 1..last, start[j] = start[i]
        PROVE  j = i
    <3>1. j \in 1..m /\ i \in 1..m /\ p[j] = p[i]
      BY <1>1, <1>2, <2>3
    <3>2. p[j] \in 1..n /\ p[i] \in 1..n
      <4>1. p[j] \in I /\ p[i] \in I
        BY <1>1, <3>1
      <4> QED
        BY <4>1
    <3>3. ~(j < i) /\ ~(i < j)
      <4>1. (j < i => p[j] < p[i]) /\ (i < j => p[i] < p[j])
        BY <1>1, <3>1
      <4> QED
        BY <3>1, <3>2, <4>1
    <3> QED
      BY <1>1, <3>1, <3>3
  <2> HIDE DEF start
  <2> QED
    BY <2>1, <2>2, <2>3, Fun_IsBij
<1>6. last = k
  <2>1. ExistsBijection(1..last, 1..k)
    BY <1>5 DEF ExistsBijection
  <2>2. /\ IsFiniteSet(1..last) /\ Cardinality(1..last) = last
        /\ Cardinality(1..k) = k
    BY <1>1, FS_Interval
  <2> QED
    BY <2>1, <2>2, FS_Bijection
<1> QED
  BY <1>2, <1>6 DEF m

(* Excluding a choice tells of the list and of every item behind one that  *)
(* carried it, for those before keep their index.                          *)
LEMMA ExclusionTold ==
  ASSUME RInv, RInv', NEW v \in Value, ExcludeChoice(v), Settle,
         TellArray({items[k].identity :
                      k \in {k \in 1..Len(items) : \E i \in Carrying(v) : i < k}},
                   {items[i].identity : i \in Carrying(v)})
  PROVE  ComingsTold /\ NodesTold /\ ItemsTold
<1> DEFINE I == (1..Count(formData)) \ Carrying(v)
           m == Cardinality(I)
           behind == {items[k].identity :
                        k \in {k \in 1..Len(items) : \E i \in Carrying(v) : i < k}}
<1>1. /\ formData \in Data /\ Len(items) \in Nat /\ Len(items) = Count(formData)
      /\ IdentitiesDistinct
  BY InvariantFacts DEF RInv, FInv, IInv, TypeOK, Tree
<1>2. Carrying(v) \subseteq 1..Len(items) /\ I \in SUBSET (1..Len(items))
  BY <1>1 DEF Carrying
<1>3. PICK kept \in Ascending(I) :
        /\ formData' = [formData EXCEPT !.items =
                          [l \in DOMAIN kept |-> formData.items[kept[l]]]]
        /\ items' = [l \in DOMAIN kept |-> items[kept[l]]]
  BY DEF ExcludeChoice
<1>4. TellArray(behind, {items[i].identity : i \in Carrying(v)})
  OBVIOUS
<1>5. \A i \in 1..Len(items) : i \in I <=> i \notin Carrying(v)
  BY <1>1
<1> HIDE DEF I, m, behind
<1>6. /\ m \in Nat /\ kept \in [1..m -> I]
      /\ \A i \in I : \E j \in 1..m : kept[j] = i
  BY <1>1, <1>2, <1>3, AscendingAll DEF m
<1>7. /\ Len(items') = m
      /\ \A l \in 1..m : /\ items'[l] = items[kept[l]]
                         /\ formData'.items[l] = formData.items[kept[l]]
  BY <1>1, <1>3, <1>6 DEF Data
<1>8. {items[i].identity : i \in Carrying(v)} = ItemIds \ ItemIds'
  <2>1. ItemIds' = {items[i].identity : i \in I}
    BY <1>6, <1>7 DEF ItemIds
  <2>2. \A i, j \in 1..Len(items) :
          items[i].identity = items[j].identity => i = j
    BY <1>1 DEF IdentitiesDistinct
  <2>3. \A i \in Carrying(v) : /\ items[i].identity \in ItemIds
                               /\ items[i].identity \notin ItemIds'
    BY <1>2, <1>5, <2>1, <2>2 DEF ItemIds
  <2>4. \A i \in 1..Len(items) :
          i \notin Carrying(v) => items[i].identity \in ItemIds'
    BY <1>5, <2>1
  <2>5. \A id \in ItemIds : \E i \in 1..Len(items) : items[i].identity = id
    BY DEF ItemIds
  <2> HIDE DEF ItemIds
  <2> QED
    BY <2>3, <2>4, <2>5
<1>9. SettingsSame /\ \A c \in Control : ControlSame(c)
  BY <1>1, <1>3 DEF ExcludeChoice, SettingsSame, Settle, hostSettings, ControlSame,
     ParentIsObject, Data
<1>10. /\ TellsOfFindings /\ ComingsTold /\ "list" \in transition'.nodes
       /\ behind \cap ItemIds' \subseteq transition'.items
  BY <1>4, <1>8, TellArrayTells
<1>11. ASSUME NEW id \in ItemIds \cap ItemIds', id \notin transition'.items
       PROVE  \E k \in 1..Len(items) : items[k].identity = id /\ ItemSame(k)
  <2>1. PICK k \in 1..Len(items) : items[k].identity = id
    BY DEF ItemIds
  <2>2. k \notin Carrying(v)
    BY <1>8, <1>11, <2>1
  <2>3. \A i \in Carrying(v) : ~(i < k)
    BY <1>10, <1>11, <2>1 DEF behind
  <2>4. 1..k \subseteq I
    <3> SUFFICES ASSUME NEW i \in 1..k PROVE i \in I
      OBVIOUS
    <3>1. i \in 1..Len(items) /\ (i = k \/ i < k)
      BY <1>1
    <3> QED
      BY <1>5, <2>2, <2>3, <3>1
  <2>5. k \in 1..m /\ kept[k] = k
    BY <1>1, <1>2, <1>3, <2>4, AscendingStart DEF m
  <2>6. ItemSame(k)
    BY <1>7, <2>5 DEF ItemSame
  <2> QED
    BY <2>1, <2>6
<1> QED
  BY <1>9, <1>10, <1>11, SettledTold

(* So both ways of toggling a choice tell of all they change,              *)
LEMMA ToggleTold ==
  ASSUME RInv, RInv', NEW v \in Value, ToggleChoice(v)
  PROVE  ComingsTold /\ NodesTold /\ ItemsTold
BY InclusionTold, ExclusionTold DEF ToggleChoice

(* and leaving a multiple choice tells of the list, which may show more of *)
(* its findings now.                                                       *)
LEMMA BlurListTold ==
  ASSUME RInv, RInv', BlurList
  PROVE  ComingsTold /\ (Revised => NodesTold /\ ItemsTold)
<1>1. /\ formData' = formData /\ controls' = controls /\ items' = items
      /\ dataRevision' = dataRevision /\ MultipleChoice
  BY DEF BlurList, BlurArray, AdvanceRevisions, topologyVars, RInv, FInv, IInv, TypeOK
<1>2. SettingsSame /\ Settle /\ TellsOfFindings
  BY <1>1 DEF BlurList, BlurArray, SettingsSame, Settle, Revalidate, ClearFindings,
     DataRevised, TellsOfFindings, hostSettings, findingVars
<1>3. Tell(IF Revised THEN {"list"} ELSE {}, {}, {})
  BY DEF BlurList
<1>4. ItemIds' = ItemIds
  BY <1>1 DEF ItemIds
<1>5. ComingsTold /\ (Revised => "list" \in transition'.nodes)
  BY <1>3, <1>4 DEF Tell, ComingsTold
<1>6. \A c \in Control : ControlSame(c)
  BY <1>1 DEF ControlSame, ParentIsObject
<1>7. \A id \in ItemIds : \E i \in 1..Len(items) :
        items[i].identity = id /\ ItemSame(i)
  BY <1>1 DEF ItemSame, ItemIds
<1> QED
  BY <1>2, <1>5, <1>6, <1>7, SettledTold

-----------------------------------------------------------------------------
(* A step that leaves the data alone, and the findings of every place it   *)
(* does not tell of.                                                       *)
LEMMA UnsettledTold ==
  ASSUME RInv, RInv', SettingsSame, validated' = validated,
         \A c \in Control :
           c \in transition'.nodes \/ (ControlSame(c) /\ LiesAlike({At(c)})),
         "list" \in transition'.nodes \/ (ListSame /\ LiesAlike(PlacesOf("list"))),
         \A id \in ItemIds \cap ItemIds' :
           \/ id \in transition'.items
           \/ \E i \in 1..Len(items) :
                items[i].identity = id /\ ItemSame(i) /\ LiesAlike({AtItem(i)})
  PROVE  NodesTold /\ ItemsTold
<1>1. AreBatches /\ AreBatches'
  BY DEF AreBatches, RInv, BatchesInv
<1>2. /\ visibility' = visibility /\ submissionAttempted' = submissionAttempted
      /\ readOnly' = readOnly /\ baseline' = baseline
  BY DEF SettingsSame
<1>3. ASSUME NEW P, SeenAlike(P), LiesAlike(P)
      PROVE  FindingsOn(P)' = FindingsOn(P)
  BY <1>1, <1>3, ValidationStays, ExternalStays DEF FindingsOn
<1>4. ASSUME NEW c \in Control, c \notin transition'.nodes
      PROVE  Observe(c)' = Observe(c)
  <2>1. ControlSame(c) /\ LiesAlike({At(c)})
    BY <1>4
  <2>2. SeenAlike(PlacesOf(c)) /\ PlacesOf(c) = {At(c)}
    BY <1>2, <2>1, PlacesSeen, PlacesAre DEF ControlSame
  <2>3. NodeFindings(c)' = NodeFindings(c)
    BY <1>3, <2>1, <2>2, NodeFindingsAre
  <2> QED
    BY <1>2, <2>1, <2>3, ControlStays DEF ControlSame
<1>5. ASSUME "list" \notin transition'.nodes
      PROVE  Observe("list")' = Observe("list")
  <2>1. ListSame /\ LiesAlike(PlacesOf("list"))
    BY <1>5
  <2>2. SeenAlike(PlacesOf("list"))
    BY <1>2, <2>1, PlacesSeen DEF ListSame
  <2>3. NodeFindings("list")' = NodeFindings("list")
    BY <1>3, <2>1, <2>2, NodeFindingsAre
  <2> QED
    BY <1>2, <2>1, <2>3, ListStays DEF ListSame
<1>6. ASSUME NEW id \in ItemIds \cap ItemIds', id \notin transition'.items
      PROVE  ShownOfItem(id)' = ShownOfItem(id)
  <2>1. PICK i \in 1..Len(items) :
          items[i].identity = id /\ ItemSame(i) /\ LiesAlike({AtItem(i)})
    BY <1>6
  <2>2. IndexOf(id) = i /\ IndexOf(id)' = i
    BY <2>1, IndexIsItem DEF ItemSame, RInv, FInv
  <2>3. MultipleChoice \/ SeenAlike({AtItem(i)})
    BY <1>2, <2>1, PlacesSeen DEF ItemSame
  <2>4. MultipleChoice \/ FindingsOn({AtItem(i)})' = FindingsOn({AtItem(i)})
    BY <1>3, <2>1, <2>3
  <2> QED
    BY <1>2, <2>1, <2>2, <2>4, ItemStays DEF ItemSame
<1> QED
  BY <1>4, <1>5, <1>6 DEF NodesTold, ItemsTold

(* A place that findings are not moved to or from keeps those it has.      *)
LEMMA PlaceKept ==
  ASSUME RInv, NEW keep, NEW where \in [Locations -> Locations],
         MovedAll(keep, where), NEW l \in Locations \cap keep, where[l] = l,
         \A m \in Locations \cap keep : where[m] = l => m = l
  PROVE  LiesAlike({l})
<1> SUFFICES ASSUME NEW s \in Source, NEW blocking \in BOOLEAN
             PROVE  Occurrences(external'[s], [at |-> l, blocking |-> blocking])
                      = Occurrences(external[s], [at |-> l, blocking |-> blocking])
  BY DEF LiesAlike
<1>1. ABatch(external[s]) /\ IsFiniteSet(Copies(external[s].findings))
  BY CopiesFinite DEF RInv, BatchesInv
<1>2. external'[s] = MovedTo(external[s], keep, where)
  BY DEF MovedAll
<1> QED
  BY <1>1, <1>2, MovedToKeeps

(* Neighbours that exchange findings leave those of every other place.     *)
LEMMA SwapKeeps ==
  ASSUME RInv, NEW i \in Nat \ {0}, NEW j \in Nat \ {0}, SwapFindings(i, j)
  PROVE  /\ \A n \in Control \cup {"list"} : LiesAlike({At(n)})
         /\ \A k \in Nat \ {i, j} : LiesAlike({AtItem(k)})
<1>1. /\ SwapWhere(i, j) \in [Locations -> Locations]
      /\ MovedAll(Locations, SwapWhere(i, j))
  BY SwapIsMove DEF RInv, BatchesInv
<1>2. ASSUME NEW l \in Locations, l # AtItem(i), l # AtItem(j)
      PROVE  LiesAlike({l})
  <2>1. SwapWhere(i, j)[l] = l
    BY <1>2 DEF SwapWhere
  <2>2. \A m \in Locations : SwapWhere(i, j)[m] = l => m = l
    BY <1>2 DEF SwapWhere
  <2> QED
    BY <1>1, <2>1, <2>2, PlaceKept
<1>3. ASSUME NEW n \in Control \cup {"list"} PROVE LiesAlike({At(n)})
  <2>1. At(n) \in Locations /\ At(n).index = 0
    BY DEF At, Locations, StaticNode
  <2>2. AtItem(i).index = i /\ AtItem(j).index = j
    BY DEF AtItem
  <2> QED
    BY <1>2, <2>1, <2>2
<1>4. ASSUME NEW k \in Nat \ {i, j} PROVE LiesAlike({AtItem(k)})
  <2>1. AtItem(k) \in Locations /\ AtItem(k).index = k
    BY DEF AtItem, Locations, StaticNode
  <2>2. AtItem(i).index = i /\ AtItem(j).index = j
    BY DEF AtItem
  <2> QED
    BY <1>2, <2>1, <2>2
<1> QED
  BY <1>3, <1>4

(* A move tells of the list and the two items, whose findings trade places *)
(* with them when their values are equal.                                  *)
LEMMA MoveTold ==
  ASSUME RInv, RInv', NEW i \in 1..Len(items), NEW j,
         MoveItemTo(i, j)
  PROVE  ComingsTold /\ NodesTold /\ ItemsTold
<1>1. /\ formData \in Data /\ items \in Seq(ItemState) /\ Len(items) \in Nat
      /\ Len(items) = Len(formData.items)
      /\ formData.items \in Seq(Scalar)
  BY DEF RInv, FInv, IInv, TypeOK, Tree, TopologyMatchesData, Count, Data
<1>2. MoveArrayItem(i, j) /\ j \in 1..Len(items)
  BY DEF MoveItemTo, MoveArrayItem
<1>3. /\ Len(items') = Len(items)
      /\ \A k \in 1..Len(items) :
           items'[k] = IF k = j THEN items[i] ELSE IF k = i THEN items[j]
                       ELSE items[k]
  BY <1>1, <1>2, SwapProperties DEF MoveArrayItem, Swap
<1>4. \A k \in (1..Len(items)) \ {i, j} : formData'.items[k] = formData.items[k]
  BY <1>1, <1>2 DEF MoveArrayItem, Swap, Data
<1>5. ItemIds' = ItemIds
  <2>1. ItemIds' \subseteq ItemIds
    BY <1>2, <1>3 DEF ItemIds
  <2>2. ASSUME NEW k \in 1..Len(items) PROVE items[k].identity \in ItemIds'
    <3>1. CASE k = i
      BY <1>2, <1>3, <3>1 DEF ItemIds
    <3>2. CASE k = j
      BY <1>2, <1>3, <3>2 DEF ItemIds
    <3>3. CASE k # i /\ k # j
      BY <1>3, <3>3 DEF ItemIds
    <3> QED
      BY <3>1, <3>2, <3>3
  <2> QED
    BY <2>1, <2>2 DEF ItemIds
<1>6. TellArray({items[i].identity, items[j].identity}, {})
  BY DEF MoveItemTo
<1>7. /\ TellsOfFindings /\ ComingsTold /\ "list" \in transition'.nodes
      /\ {items[i].identity, items[j].identity} \cap ItemIds'
           \subseteq transition'.items
  BY <1>5, <1>6, TellArrayTells
<1>8. UNCHANGED <<baseline, controls, submissionAttempted, hostSettings>>
  BY <1>2 DEF MoveItemTo, MoveArrayItem, Settle
<1>9. SettingsSame /\ \A c \in Control : ControlSame(c)
  BY <1>1, <1>2, <1>8 DEF MoveArrayItem, SettingsSame, hostSettings, ControlSame,
     ParentIsObject, Data
<1>10. ASSUME NEW id \in ItemIds \cap ItemIds', id \notin transition'.items
       PROVE  \E k \in (1..Len(items)) \ {i, j} :
                items[k].identity = id /\ ItemSame(k)
  <2>1. PICK k \in 1..Len(items) : items[k].identity = id
    BY DEF ItemIds
  <2>2. k \notin {i, j}
    BY <1>7, <1>10, <2>1
  <2>3. ItemSame(k)
    BY <1>1, <1>3, <1>4, <2>2 DEF ItemSame
  <2> QED
    BY <2>1, <2>2, <2>3
<1>11. CASE DataRevised
  <2>1. Settle
    BY <1>11 DEF MoveItemTo
  <2> QED
    BY <1>7, <1>9, <1>10, <2>1, SettledTold
<1>12. CASE ~DataRevised
  <2>1. SwapFindings(i, j) /\ validated' = validated
    BY <1>12 DEF MoveItemTo
  <2>2. /\ \A n \in Control \cup {"list"} : LiesAlike({At(n)})
        /\ \A k \in Nat \ {i, j} : LiesAlike({AtItem(k)})
    BY <1>1, <1>2, <2>1, SwapKeeps
  <2>3. \A c \in Control :
          c \in transition'.nodes \/ (ControlSame(c) /\ LiesAlike({At(c)}))
    BY <1>9, <2>2
  <2>4. "list" \in transition'.nodes
    BY <1>7
  <2>5. ASSUME NEW id \in ItemIds \cap ItemIds', id \notin transition'.items
        PROVE  \E k \in 1..Len(items) :
                 items[k].identity = id /\ ItemSame(k) /\ LiesAlike({AtItem(k)})
    <3>1. PICK k \in (1..Len(items)) \ {i, j} :
            items[k].identity = id /\ ItemSame(k)
      BY <1>10, <2>5
    <3>2. LiesAlike({AtItem(k)})
      BY <1>1, <2>2
    <3> QED
      BY <3>1, <3>2
  <2>6. NodesTold /\ ItemsTold
    BY <1>9, <2>1, <2>3, <2>4, <2>5, UnsettledTold
  <2> QED
    BY <1>7, <2>6
<1> QED
  BY <1>7, <1>11, <1>12

-----------------------------------------------------------------------------
(* Findings that are rebased to a topology: places beside the items keep   *)
(* theirs, and so do items the topology leaves at their index.             *)
LEMMA RebaseKeeps ==
  ASSUME RInv, NEW topology \in Seq(Nat), RebaseFindings(topology, "remove")
  PROVE  /\ \A n \in Control \cup {"list"} : LiesAlike({At(n)})
         /\ \A k \in 1..Len(items) :
              /\ k \in 1..Len(topology) /\ topology[k] = items[k].identity
              /\ \A m \in 1..Len(topology) : topology[m] = items[k].identity => m = k
              => LiesAlike({AtItem(k)})
<1> DEFINE keep == RebaseKeep(topology, "remove")
           where == RebaseWhere(topology)
<1>1. IInv /\ Len(items) \in Nat /\ Len(topology) \in Nat /\ IdentitiesDistinct
  BY InvariantFacts, LenProperties DEF RInv, FInv, IInv
<1>2. where \in [Locations -> Locations] /\ MovedAll(keep, where)
  BY RebaseIsMove DEF RInv, BatchesInv
<1>3. ASSUME NEW l \in Locations, l.index \in 1..Len(items), ~IsGone(topology, l)
      PROVE  \E j \in 1..Len(topology) :
               /\ where[l] = AtItem(j) /\ topology[j] = items[l.index].identity
  <2>1. where[l] = AtItem(CHOOSE j \in 1..Len(topology) :
                            topology[j] = items[l.index].identity)
    BY <1>3 DEF RebaseWhere
  <2>2. \E j \in 1..Len(topology) : topology[j] = items[l.index].identity
    BY <1>3 DEF IsGone
  <2> QED
    BY <2>1, <2>2
<1>4. ASSUME NEW l \in Locations, l.index \notin 1..Len(items)
      PROVE  where[l] = l /\ l \in keep
  BY <1>4 DEF RebaseWhere, RebaseKeep, IsGone
<1>5. ASSUME NEW l \in keep, l.index \in 1..Len(items)
      PROVE  l \in Locations /\ ~IsGone(topology, l)
  BY <1>5 DEF RebaseKeep
<1> HIDE DEF keep, where
<1>6. ASSUME NEW n \in Control \cup {"list"} PROVE LiesAlike({At(n)})
  <2>1. At(n) \in Locations /\ At(n).index = 0 /\ 0 \notin 1..Len(items)
    BY DEF At, Locations, StaticNode
  <2>2. where[At(n)] = At(n) /\ At(n) \in keep
    BY <1>4, <2>1
  <2>3. ASSUME NEW m \in Locations \cap keep, where[m] = At(n) PROVE m = At(n)
    <3>1. CASE m.index \in 1..Len(items)
      <4>1. PICK j \in 1..Len(topology) : where[m] = AtItem(j)
        BY <1>3, <1>5, <3>1
      <4>2. AtItem(j).index = j /\ j # 0
        BY DEF AtItem
      <4> QED
        BY <2>1, <2>3, <4>1, <4>2
    <3>2. CASE m.index \notin 1..Len(items)
      BY <1>4, <2>3, <3>2
    <3> QED
      BY <3>1, <3>2
  <2> QED
    BY <1>2, <2>1, <2>2, <2>3, PlaceKept
<1>7. ASSUME NEW k \in 1..Len(items), k \in 1..Len(topology),
             topology[k] = items[k].identity,
             \A m \in 1..Len(topology) : topology[m] = items[k].identity => m = k
      PROVE  LiesAlike({AtItem(k)})
  <2>1. AtItem(k) \in Locations /\ AtItem(k).index = k
    BY <1>1 DEF AtItem, Locations
  <2>2. ~IsGone(topology, AtItem(k))
    BY <1>7, <2>1 DEF IsGone
  <2>3. AtItem(k) \in keep
    BY <2>1, <2>2 DEF keep, RebaseKeep
  <2>4. where[AtItem(k)] = AtItem(k)
    <3>1. PICK j \in 1..Len(topology) :
            where[AtItem(k)] = AtItem(j) /\ topology[j] = items[k].identity
      BY <1>3, <2>1, <2>2
    <3> QED
      BY <1>7, <3>1
  <2>5. ASSUME NEW m \in Locations \cap keep, where[m] = AtItem(k)
        PROVE  m = AtItem(k)
    <3>1. CASE m.index \in 1..Len(items)
      <4>1. PICK j \in 1..Len(topology) :
              where[m] = AtItem(j) /\ topology[j] = items[m.index].identity
        BY <1>3, <1>5, <3>1
      <4>2. j = k
        BY <2>1, <2>5, <4>1 DEF AtItem
      <4>3. m.index = k
        BY <1>1, <1>7, <3>1, <4>1, <4>2 DEF IdentitiesDistinct
      <4>4. m = [node |-> "list", index |-> m.index]
        BY <1>1, <3>1 DEF Locations
      <4> QED
        BY <4>3, <4>4 DEF AtItem
    <3>2. CASE m.index \notin 1..Len(items)
      BY <1>4, <2>5, <3>2
    <3> QED
      BY <3>1, <3>2
  <2> QED
    BY <1>2, <2>1, <2>3, <2>4, <2>5, PlaceKept
<1> QED
  BY <1>6, <1>7

(* Where external findings are shown, findings lie.                        *)
LEMMA ShownLie ==
  ASSUME ~MultipleChoice
  PROVE  /\ \A n \in ExternalTargets : HasFindingAt(At(n))
         /\ \A id \in ExternalItemTargets : HasFindingAt(AtItem(IndexOf(id)))
<1>1. ASSUME NEW n \in ExternalTargets PROVE HasFindingAt(At(n))
  <2>1. n \in StaticNode \ {"root"} /\ ShowsExternal(NodeFindings(n))
    BY DEF ExternalTargets
  <2>2. \A l : Presents(n, l) => l = At(n)
    BY <2>1 DEF Presents
  <2>3. PICK s \in Source : NodeFindings(n).external[s] # EmptyBag
    BY <2>1 DEF ShowsExternal
  <2>4. ASSUME ~HasFindingAt(At(n)) PROVE FALSE
    <3>1. {f \in BagToSet(external[s].findings) :
             Presents(n, f.at) /\ VisibleAt(visibility.external, f.at)} = {}
      BY <2>2, <2>4 DEF HasFindingAt
    <3>2. NodeFindings(n).external[s] = EmptyBag
      BY <3>1 DEF NodeFindings, FindingsWhere, EmptyBag, SetToBag
    <3> QED
      BY <2>3, <3>2
  <2> QED
    BY <2>4
<1>2. ASSUME NEW id \in ExternalItemTargets
      PROVE  HasFindingAt(AtItem(IndexOf(id)))
  <2> DEFINE i == IndexOf(id)
  <2>1. ShowsExternal(FindingsOn({AtItem(i)}))
    BY ItemFindingsAre DEF ExternalItemTargets
  <2> HIDE DEF i
  <2>2. HasFindingAt(AtItem(i))
    BY <2>1, NothingLies DEF ShowsExternal, FindingsOn
  <2> QED
    BY <2>2 DEF i
<1> QED
  BY <1>1, <1>2

-----------------------------------------------------------------------------
(* A transaction whose topology is that of the form leaves it so.          *)
LEMMA SameTopology ==
  ASSUME IInv, NEW itemWrites, items' = PreservedItems(Identities, itemWrites)
  PROVE  Identities' = Identities
<1>1. /\ Len(items) \in Nat /\ items \in Seq(ItemState) /\ nextItemIdentity \in Nat
      /\ Len(Identities) = Len(items) /\ Identities \in Seq(Nat)
  BY InvariantFacts, IdentitiesType
<1>2. ASSUME NEW i \in 1..Len(items)
      PROVE  /\ Identities[i] = items[i].identity /\ Identities[i] # Fresh
             /\ ItemOf(Identities[i]) = items[i]
  <2>1. Identities[i] = items[i].identity /\ items[i].identity # Fresh
    BY <1>1 DEF IInv, IdentitiesDistinct, Fresh, Identities
  <2>2. \A j \in 1..Len(items) :
          items[j].identity = items[i].identity => j = i
    BY DEF IInv, IdentitiesDistinct
  <2> QED
    BY <2>1, <2>2 DEF ItemOf
<1>3. items' = [i \in 1..Len(items) |-> Rewritten(items[i], itemWrites)]
  BY <1>1, <1>2 DEF PreservedItems
<1>4. Len(items') = Len(items)
  BY <1>1, <1>3
<1>5. \A i \in 1..Len(items) : items'[i].identity = items[i].identity
  <2>1. ASSUME NEW i \in 1..Len(items)
        PROVE  Rewritten(items[i], itemWrites).identity = items[i].identity
    <3>1. items[i] \in ItemState
      BY ItemControlType
    <3> QED
      BY <3>1 DEF Rewritten, ItemState
  <2> QED
    BY <1>3, <2>1
<1> QED
  BY <1>4, <1>5 DEF Identities

(* What a transaction commits, and what it then tells.                     *)
Structural(d, replace, topology) ==
  IF replace THEN Len(items) + Count(d) > 0 ELSE topology # Identities

(* A control or the list that is not told shows data and edit state as     *)
(* before,                                                                 *)
LEMMA UntoldControl ==
  ASSUME RInv, NEW d \in Tree, NEW writes, NEW itemWrites, NEW replace, NEW topology,
         ApplyHostTransaction(d, writes, itemWrites, replace, topology),
         NEW c \in Control, c \notin DirectlyChanged(d, writes)
  PROVE  ControlSame(c)
<1>1. c \in StaticNode \ {"root"} /\ c \notin {"root", "group", "list"}
  BY FormFacadeAssumption DEF StaticNode
<1>2. controls \in [Control -> ControlState]
  BY InvariantFacts DEF RInv, FInv
<1>3. /\ Below(formData, c) = Below(d, c)
      /\ c \in Grouped => (formData.group = "object" <=> d.group = "object")
      /\ (\E w \in writes : Overlaps(w, c)) => ~Edited(controls[c])
  BY <1>1 DEF DirectlyChanged
<1>4. formData' = d /\ controls' = [x \in Control |->
                    IF \E w \in writes : Overlaps(w, x)
                    THEN ClearEditState(controls[x]) ELSE controls[x]]
  BY DEF ApplyHostTransaction
<1>5. controls'[c] = controls[c]
  <2>1. ~Edited(controls[c]) => ClearEditState(controls[c]) = controls[c]
    BY <1>2 DEF Edited, ClearEditState, ControlState
  <2> QED
    BY <1>3, <1>4, <2>1
<1>6. formData'.value[c] = formData.value[c]
  BY <1>1, <1>3, <1>4 DEF Below
<1>7. ParentIsObject(formData, c)' = ParentIsObject(formData, c)
  BY <1>3, <1>4 DEF ParentIsObject
<1> QED
  BY <1>5, <1>6, <1>7 DEF ControlSame

(* so does the list, unless the items were replaced or rearranged,         *)
LEMMA UntoldList ==
  ASSUME ~MultipleChoice, RInv, RInv', NEW d \in Tree, NEW writes, NEW itemWrites,
         NEW replace \in BOOLEAN, NEW topology,
         ApplyHostTransaction(d, writes, itemWrites, replace, topology),
         "list" \notin DirectlyChanged(d, writes),
         ~Structural(d, replace, topology)
  PROVE  ListSame
<1>1. "list" \in StaticNode \ {"root"} /\ "list" \notin Control
  BY FormFacadeAssumption DEF StaticNode
<1>2. /\ Below(formData, "list") = Below(d, "list")
      /\ formData.group = "object" <=> d.group = "object"
  BY <1>1 DEF DirectlyChanged
<1>3. formData' = d /\ arrayTouched' = arrayTouched
  BY DEF ApplyHostTransaction
<1>4. formData.list = d.list /\ formData.items = d.items
  BY <1>1, <1>2 DEF Below
<1>5. Identities' = Identities
  <2>1. CASE replace
    <3>1. Len(items) \in Nat /\ Len(items') = Count(d) /\ Count(d) \in Nat
      BY <1>3, InvariantFacts DEF RInv, FInv, IInv, TopologyMatchesData
    <3>2. Len(items) = 0 /\ Len(items') = 0
      BY <2>1, <3>1 DEF Structural
    <3> QED
      BY <3>2 DEF Identities
  <2>2. CASE ~replace
    <3>1. items' = PreservedItems(topology, itemWrites) /\ topology = Identities
      BY <2>2 DEF ApplyHostTransaction, Structural
    <3> QED
      BY <3>1, SameTopology DEF RInv, FInv
  <2> QED
    BY <2>1, <2>2
<1> QED
  BY <1>2, <1>3, <1>4, <1>5 DEF ListSame, ListParentIsObject

(* and so does an item.                                                    *)
LEMMA UntoldItem ==
  ASSUME RInv, RInv', NEW d \in Tree, NEW writes, NEW indices,
         NEW replace \in BOOLEAN, NEW topology \in Seq(Nat),
         ApplyHostTransaction(d, writes, WrittenItems(writes, indices), replace,
                              topology),
         NEW id \in ItemIds \cap ItemIds',
         id \notin DirectlyChangedItems(d, writes, indices),
         Structural(d, replace, topology) => id \notin MovedItems(topology)
  PROVE  \E k \in 1..Len(items) :
           /\ items[k].identity = id /\ ItemSame(k)
           /\ k \in 1..Len(topology) /\ topology[k] = id
           /\ \A n \in 1..Len(topology) : topology[n] = id => n = k
<1> DEFINE w == WrittenItems(writes, indices)
<1>1. IInv /\ IInv' /\ Len(items) \in Nat /\ Len(topology) \in Nat
  BY InvariantFacts, LenProperties DEF RInv, FInv
<1>2. StayByTopology(topology, w)
  BY <1>1, KeptByTopology
<1>3. PICK k \in 1..Len(items) : items[k].identity = id
  BY DEF ItemIds
<1>4. PICK m \in 1..Len(items') : items'[m].identity = id
  BY DEF ItemIds
<1>5. /\ m \in 1..Len(topology) /\ topology[m] = id
      /\ \A n \in 1..Len(topology) : topology[n] = id => n = m
      /\ items'[m] = Rewritten(items[k], w)
  BY <1>2, <1>3, <1>4 DEF StayByTopology
<1>6. m = k
  <2>1. CASE Structural(d, replace, topology)
    <3>1. id \in ItemIds /\ IndexOf(id) = k
      BY <1>1, <1>3, IndexIsItem
    <3>2. IndexOf(topology[m]) = m
      BY <1>5, <2>1, <3>1 DEF MovedItems
    <3> QED
      BY <1>5, <3>1, <3>2
  <2>2. CASE ~Structural(d, replace, topology)
    <3>1. CASE replace
      <4>1. Len(items) = 0
        BY <1>1, <2>2, <3>1, LenProperties DEF Structural, Count, Tree, Data
      <4> QED
        BY <1>3, <4>1
    <3>2. CASE ~replace
      <4>1. topology[k] = id /\ k \in 1..Len(topology)
        BY <1>1, <1>3, <2>2, <3>2, IdentitiesType DEF Structural, Identities
      <4> QED
        BY <1>5, <4>1
    <3> QED
      BY <3>1, <3>2
  <2> QED
    BY <2>1, <2>2
<1>7. /\ k <= Count(d) /\ d.items[k] = formData.items[k]
      /\ ~(Edited(items[k].control) /\ id \in w)
  <2>1. Count(d) \in Nat
    BY LenProperties DEF Count, Tree, Data
  <2>2. /\ ~(k > Count(d))
        /\ ~(k \in 1..Count(d) /\ d.items[k] # formData.items[k])
        /\ ~(Edited(items[k].control) /\ id \in w)
    BY <1>3 DEF DirectlyChangedItems
  <2>3. k \in Nat /\ k > 0
    BY <1>1
  <2> HIDE DEF w
  <2>4. k <= Count(d) /\ k \in 1..Count(d)
    BY <2>1, <2>2, <2>3
  <2> QED
    BY <2>2, <2>4
<1>8. Rewritten(items[k], w) = items[k]
  <2>1. items[k] \in ItemState
    BY <1>1, ItemControlType
  <2> HIDE DEF w
  <2>2. id \notin w => Rewritten(items[k], w) = items[k]
    BY <1>3 DEF Rewritten
  <2>3. ASSUME ~Edited(items[k].control)
        PROVE  [items[k] EXCEPT !.control = ClearEditState(@)] = items[k]
    <3>1. ClearEditState(items[k].control) = items[k].control
      BY <2>1, <2>3 DEF Edited, ClearEditState, ItemState, ControlState
    <3> QED
      BY <2>1, <3>1 DEF ItemState
  <2> QED
    BY <1>7, <2>2, <2>3 DEF Rewritten
<1>9. ItemSame(k)
  <2>1. formData' = d
    BY DEF ApplyHostTransaction
  <2> QED
    BY <1>4, <1>5, <1>6, <1>7, <1>8, <2>1 DEF ItemSame
<1> QED
  BY <1>3, <1>5, <1>6, <1>9

(* A transaction that changes anything tells of it.                        *)
LEMMA TransactTold ==
  ASSUME ~MultipleChoice, RInv, RInv', NEW d \in HostData, NEW writes, NEW indices,
         NEW replace \in BOOLEAN, NEW topology \in Seq(Nat),
         Transact(d, writes, indices, replace, topology), Revised
  PROVE  AllTold
<1> DEFINE w == WrittenItems(writes, indices)
           moved == IF Structural(d, replace, topology) THEN MovedItems(topology)
                                                        ELSE {}
<1>1. d \in Tree
  BY FormEngineAssumption
<1>2. /\ ApplyHostTransaction(d, writes, w, replace, topology)
      /\ Revalidate
      /\ IF DataRevised THEN external' = NoBatches
                        ELSE RebaseFindings(topology, "remove")
      /\ UNCHANGED hostSettings
  BY DEF Transact
<1>3. Tell(DirectlyChanged(d, writes) \cup Revalidated
             \cup (IF Structural(d, replace, topology) THEN {"list"} ELSE {}),
           ((DirectlyChangedItems(d, writes, indices) \cup moved) \cap ItemIds')
              \cup RevalidatedItems,
           ItemIds \ ItemIds')
  BY DEF Transact, Structural
<1>4. /\ RevalidatedItems \subseteq ItemIds'
      /\ ItemIds' \ ItemIds \subseteq RevalidatedItems
  BY DEF RevalidatedItems
<1>5. /\ DirectlyChanged(d, writes) \cup Revalidated \subseteq transition'.nodes
      /\ Structural(d, replace, topology) => "list" \in transition'.nodes
      /\ transition'.items =
           ((DirectlyChangedItems(d, writes, indices) \cup moved) \cap ItemIds')
              \cup RevalidatedItems
      /\ transition'.removed = ItemIds \ ItemIds'
  <2> HIDE DEF moved
  <2> QED
    BY <1>3 DEF Tell
<1>6. ComingsTold
  <2> HIDE DEF moved
  <2> QED
    BY <1>4, <1>5 DEF ComingsTold
<1>7. SettingsSame
  BY <1>2 DEF ApplyHostTransaction, SettingsSame, hostSettings
<1>8. \A c \in Control : c \in transition'.nodes \/ ControlSame(c)
  BY <1>1, <1>2, <1>5, UntoldControl
<1>9. "list" \in transition'.nodes \/ ListSame
  BY <1>1, <1>2, <1>5, UntoldList
<1>10. ASSUME NEW id \in ItemIds \cap ItemIds', id \notin transition'.items
       PROVE  \E k \in 1..Len(items) :
                /\ items[k].identity = id /\ ItemSame(k)
                /\ k \in 1..Len(topology) /\ topology[k] = id
                /\ \A n \in 1..Len(topology) : topology[n] = id => n = k
  <2>1. /\ id \notin DirectlyChangedItems(d, writes, indices)
        /\ Structural(d, replace, topology) => id \notin MovedItems(topology)
    BY <1>5, <1>10
  <2> QED
    BY <1>1, <1>2, <2>1, UntoldItem
<1>11. CASE DataRevised
  <2>1. Settle
    BY <1>2, <1>11 DEF Settle, ClearFindings
  <2>2. formData # d
    BY <1>2, <1>11, InvariantFacts DEF ApplyHostTransaction, AdvanceRevisions,
       DataRevised, RInv, FInv
  <2>3. ExternalTargets \subseteq DirectlyChanged(d, writes)
    BY <2>2, ShownLie DEF ExternalTargets, DirectlyChanged
  <2>4. ExternalItemTargets \subseteq DirectlyChangedItems(d, writes, indices)
    <3> SUFFICES ASSUME NEW id \in ExternalItemTargets
                 PROVE  id \in DirectlyChangedItems(d, writes, indices)
      OBVIOUS
    <3>1. id \in ItemIds
      BY DEF ExternalItemTargets
    <3>2. /\ IndexOf(id) \in 1..Len(items)
          /\ items[IndexOf(id)].identity = id
      BY <3>1, IndexIsItem
    <3>3. HasFindingAt(AtItem(IndexOf(id)))
      BY ShownLie
    <3> QED
      BY <2>2, <3>2, <3>3 DEF DirectlyChangedItems
  <2>5. TellsOfFindings
    BY <1>5, <2>3, <2>4 DEF TellsOfFindings
  <2>6. \A id \in ItemIds \cap ItemIds' :
          \/ id \in transition'.items
          \/ \E k \in 1..Len(items) : items[k].identity = id /\ ItemSame(k)
    BY <1>10
  <2> QED
    BY <1>6, <1>7, <1>8, <1>9, <2>1, <2>5, <2>6, SettledTold DEF AllTold
<1>12. CASE ~DataRevised
  <2>1. validated' = validated /\ RebaseFindings(topology, "remove")
    BY <1>2, <1>12 DEF Revalidate
  <2>2. \A n \in Control \cup {"list"} : LiesAlike({At(n)})
    BY <2>1, RebaseKeeps
  <2>3. \A c \in Control :
          c \in transition'.nodes \/ (ControlSame(c) /\ LiesAlike({At(c)}))
    BY <1>8, <2>2
  <2>4. "list" \in transition'.nodes \/ (ListSame /\ LiesAlike(PlacesOf("list")))
    BY <1>9, <2>2, PlacesAre
  <2>5. ASSUME NEW id \in ItemIds \cap ItemIds', id \notin transition'.items
        PROVE  \E k \in 1..Len(items) :
                 items[k].identity = id /\ ItemSame(k) /\ LiesAlike({AtItem(k)})
    <3>1. PICK k \in 1..Len(items) :
            /\ items[k].identity = id /\ ItemSame(k)
            /\ k \in 1..Len(topology) /\ topology[k] = id
            /\ \A n \in 1..Len(topology) : topology[n] = id => n = k
      BY <1>10, <2>5
    <3>2. LiesAlike({AtItem(k)})
      BY <2>1, <3>1, RebaseKeeps
    <3> QED
      BY <3>1, <3>2
  <2>6. NodesTold /\ ItemsTold
    BY <1>7, <2>1, <2>3, <2>4, <2>5, UnsettledTold
  <2> QED
    BY <1>6, <2>6 DEF AllTold
<1> QED
  BY <1>11, <1>12

-----------------------------------------------------------------------------
(* External findings that a host applies change what is told, and nothing  *)
(* else.                                                                   *)
LEMMA AppliedTold ==
  ASSUME RInv, RInv', NEW s \in Source, NEW F, NEW revision,
         ApplyExternalFindings(s, revision, F)
  PROVE  AllTold
<1>1. /\ UNCHANGED <<formData, baseline, controls, items, arrayTouched,
                     submissionAttempted, validated, readOnly, visibility>>
      /\ Tell({n \in StaticNode :
                 (NodeFindings(n).external)' # NodeFindings(n).external},
              {id \in ItemIds : (ItemFindings(IndexOf(id)).external)'
                                  # ItemFindings(IndexOf(id)).external},
              {})
  BY DEF ApplyExternalFindings, topologyVars, hostSettings
<1>2. ItemIds' = ItemIds /\ Identities' = Identities
  BY <1>1 DEF ItemIds, Identities
<1>3. /\ \A n \in StaticNode : n \in transition'.nodes
           \/ (NodeFindings(n).external)' = NodeFindings(n).external
      /\ \A id \in ItemIds : id \in transition'.items
           \/ (ItemFindings(IndexOf(id)).external)' = ItemFindings(IndexOf(id)).external
      /\ ComingsTold
  <2> HIDE DEF NodeFindings, ItemFindings, IndexOf, ItemIds
  <2> QED
    BY <1>1, <1>2 DEF Tell, ComingsTold
<1>4. ASSUME NEW n \in Control \cup {"list"}, SeenAlike(PlacesOf(n)),
             n \notin transition'.nodes
      PROVE  NodeFindings(n)' = NodeFindings(n)
  <2>1. (NodeFindings(n).external)' = NodeFindings(n).external
    BY <1>3, <1>4 DEF StaticNode
  <2>2. ValidationOn(PlacesOf(n))' = ValidationOn(PlacesOf(n))
    BY <1>1, <1>4, ValidationStays
  <2>3. /\ NodeFindings(n) = FindingsOn(PlacesOf(n))
        /\ NodeFindings(n)' = FindingsOn(PlacesOf(n))'
    BY NodeFindingsAre
  <2> HIDE DEF NodeFindings
  <2> QED
    BY <2>1, <2>2, <2>3 DEF FindingsOn
<1>5. ASSUME NEW c \in Control, c \notin transition'.nodes
      PROVE  Observe(c)' = Observe(c)
  <2>1. SeenAlike(PlacesOf(c))
    BY <1>1, PlacesSeen
  <2>2. NodeFindings(c)' = NodeFindings(c)
    BY <1>4, <1>5, <2>1
  <2>3. ParentIsObject(formData, c)' = ParentIsObject(formData, c)
    BY <1>1 DEF ParentIsObject
  <2> QED
    BY <1>1, <2>2, <2>3, ControlStays
<1>6. ASSUME "list" \notin transition'.nodes
      PROVE  Observe("list")' = Observe("list")
  <2>1. SeenAlike(PlacesOf("list"))
    <3>1. \A i : ItemTouched(i)' <=> ItemTouched(i)
      BY <1>1 DEF ItemTouched
    <3> QED
      BY <1>1, <3>1, PlacesSeen
  <2>2. NodeFindings("list")' = NodeFindings("list")
    BY <1>4, <1>6, <2>1
  <2>3. ListParentIsObject(formData)' = ListParentIsObject(formData)
    BY <1>1 DEF ListParentIsObject
  <2> QED
    BY <1>1, <1>2, <2>2, <2>3, ListStays
<1>7. ASSUME NEW id \in ItemIds, id \notin transition'.items
      PROVE  ShownOfItem(id)' = ShownOfItem(id)
  <2>1. PICK i \in 1..Len(items) : items[i].identity = id
    BY DEF ItemIds
  <2>2. IndexOf(id) = i /\ IndexOf(id)' = i
    BY <1>1, <2>1, IndexIsItem DEF RInv, FInv
  <2>3. MultipleChoice \/ SeenAlike({AtItem(i)})
    BY <1>1, PlacesSeen
  <2>4. MultipleChoice \/ ValidationOn({AtItem(i)})' = ValidationOn({AtItem(i)})
    BY <1>1, <2>3, ValidationStays
  <2>5. (ItemFindings(IndexOf(id)))' = FindingsOn({AtItem(i)})'
    BY <2>2 DEF ItemFindings, FindingsWhere, FindingsOn, ValidationOn, ExternalOn,
       ShownOn
  <2>6. ItemFindings(IndexOf(id)) = FindingsOn({AtItem(i)})
    BY <2>2, ItemFindingsAre
  <2>7. (ItemFindings(IndexOf(id)).external)' = ItemFindings(IndexOf(id)).external
    BY <1>3, <1>7
  <2>8. (ItemFindings(IndexOf(id)).external)' = (ItemFindings(IndexOf(id)))'.external
    OBVIOUS
  <2>9. MultipleChoice \/ FindingsOn({AtItem(i)})' = FindingsOn({AtItem(i)})
    BY <2>4, <2>5, <2>6, <2>7, <2>8 DEF FindingsOn
  <2> QED
    BY <1>1, <2>2, <2>9, ItemStays
<1> QED
  BY <1>2, <1>3, <1>5, <1>6, <1>7 DEF AllTold, NodesTold, ItemsTold

(* What an item shows is the same without its findings too.                *)
LEMMA UnpresentedStays ==
  ASSUME NEW id, ObserveItem(id)' = ObserveItem(id)
  PROVE  ShownOfItem(id)' = ShownOfItem(id)
<1>1. Unpresented(ObserveItem(id))' = Unpresented(ObserveItem(id)')
  BY DEF Unpresented
<1> HIDE DEF ObserveItem
<1> QED
  BY <1>1 DEF ShownOfItem

(* Operations that compare what is shown before and after tell just that.  *)
LEMMA ObservedTold ==
  ASSUME TellObserved
  PROVE  AllTold
<1>1. /\ \A n \in StaticNode : n \in transition'.nodes \/ Observe(n)' = Observe(n)
      /\ transition'.items =
           {id \in ItemIds' : id \in ItemIds => ObserveItem(id)' # ObserveItem(id)}
      /\ transition'.removed = ItemIds \ ItemIds'
  <2> HIDE DEF Observe, ObserveItem, ItemIds
  <2> QED
    BY DEF TellObserved, Tell
<1>2. \A id : ObserveItem(id)' = ObserveItem(id) => ShownOfItem(id)' = ShownOfItem(id)
  BY UnpresentedStays
<1> HIDE DEF Observe, ObserveItem, ItemIds, ShownOfItem
<1> QED
  BY <1>1, <1>2 DEF AllTold, NodesTold, ItemsTold, ComingsTold, StaticNode
-----------------------------------------------------------------------------
(* Findings that are rebased to the identities as they are stay what they  *)
(* were: every item is where it was, and none is gone.                     *)
LEMMA RebaseSame ==
  ASSUME RInv, RInv', NEW unmatched, RebaseFindings(Identities, unmatched)
  PROVE  \A s \in Source : external'[s].findings = external[s].findings
<1> DEFINE keep == RebaseKeep(Identities, unmatched)
           where == RebaseWhere(Identities)
<1>1. /\ IInv /\ IdentitiesDistinct
      /\ Identities \in Seq(Nat) /\ Len(Identities) = Len(items)
      /\ \A i \in 1..Len(items) : Identities[i] = items[i].identity
  BY IdentitiesType DEF RInv, FInv, IInv, Identities
<1>2. where \in [Locations -> Locations] /\ MovedAll(keep, where)
  BY <1>1, RebaseIsMove DEF RInv, BatchesInv
<1>3. ASSUME NEW l \in Locations
      PROVE  l \in keep /\ where[l] = l
  <2>1. CASE l.index \in 1..Len(items)
    <3>1. ~IsGone(Identities, l)
      BY <1>1, <2>1 DEF IsGone
    <3>2. (CHOOSE j \in 1..Len(Identities) : Identities[j] = items[l.index].identity)
            = l.index
      BY <1>1, <2>1 DEF IdentitiesDistinct
    <3>3. AtItem(l.index) = l
      <4>1. l.index # 0
        BY <2>1
      <4> QED
        BY <4>1 DEF Locations, AtItem
    <3> QED
      BY <2>1, <3>1, <3>2, <3>3 DEF RebaseKeep, RebaseWhere
  <2>2. CASE l.index \notin 1..Len(items)
    BY <2>2 DEF RebaseKeep, RebaseWhere, IsGone
  <2> QED
    BY <2>1, <2>2
<1> HIDE DEF keep, where
<1>4. ASSUME NEW l \in Locations PROVE LiesAlike({l})
  <2>1. l \in Locations \cap keep /\ where[l] = l
    BY <1>3
  <2>2. \A m \in Locations \cap keep : where[m] = l => m = l
    BY <1>3
  <2> QED
    BY <1>2, <2>1, <2>2, PlaceKept
<1> SUFFICES ASSUME NEW s \in Source
             PROVE  external'[s].findings = external[s].findings
  OBVIOUS
<1>5. ABatch(external[s]) /\ ABatch(external'[s])
  BY DEF RInv, BatchesInv
<1>6. ASSUME NEW f \in [at : Locations, blocking : BOOLEAN]
      PROVE  Occurrences(external'[s], f) = Occurrences(external[s], f)
  <2>1. /\ f = [at |-> f.at, blocking |-> f.blocking]
        /\ f.at \in Locations /\ f.blocking \in BOOLEAN
    OBVIOUS
  <2> QED
    BY <1>4, <2>1 DEF LiesAlike
<1>7. ASSUME NEW f
      PROVE  /\ f \in DOMAIN external'[s].findings
                  <=> f \in DOMAIN external[s].findings
             /\ f \in DOMAIN external[s].findings =>
                  external'[s].findings[f] = external[s].findings[f]
  BY <1>5, <1>6 DEF ABatch, Occurrences, IsABag, BagToSet, BagIn
<1>8. /\ external[s].findings =
           [f \in DOMAIN external[s].findings |-> external[s].findings[f]]
      /\ external'[s].findings =
           [f \in DOMAIN external'[s].findings |-> external'[s].findings[f]]
  BY <1>5 DEF ABatch, IsABag
<1> QED
  BY <1>7, <1>8

(* An operation that advances no revision changes nothing that is shown.   *)
LEMMA StillIsQuiet ==
  ASSUME RevisionStep, ~Revised, UNCHANGED <<validated, hostSettings>>,
         \A s \in Source : external'[s].findings = external[s].findings
  PROVE  Quiet
<1>1. UNCHANGED observable
  BY DEF RevisionStep, Revised
<1> QED
  BY <1>1 DEF observable, hostSettings, Quiet

(* None of a user's operations changes the settings of the host.           *)
LEMMA UserKeepsSettings ==
  ASSUME UserAction
  PROVE  UNCHANGED hostSettings
<1>1. Settle => UNCHANGED hostSettings
  BY DEF Settle
<1>2. ASSUME NEW c \in Control,
             \/ \E text \in Text : InputText(c, text)
             \/ \E v \in Value \cup {Null} : AssignValue(c, v)
             \/ RemoveValue(c)
             \/ BlurControl(c)
      PROVE  UNCHANGED hostSettings
  BY <1>1, <1>2 DEF InputText, AssignValue, RemoveValue, BlurControl
<1>3. ASSUME NEW k \in 1..Len(items),
             \/ \E text \in Text : InputItemText(k, text)
             \/ \E v \in Value \cup {Null} : AssignItemValue(k, v)
             \/ BlurItemControl(k)
      PROVE  UNCHANGED hostSettings
  BY <1>1, <1>3 DEF InputItemText, AssignItemValue, BlurItemControl
<1>4. BlurList \/ StructuralEdit => UNCHANGED hostSettings
  BY <1>1 DEF BlurList, StructuralEdit
<1>5. ASSUME NEW i, NEW j, AddItem(i) \/ RemoveItemAt(i) \/ ToggleChoice(i)
                           \/ MoveItemTo(i, j)
      PROVE  UNCHANGED hostSettings
  BY <1>1, <1>5 DEF AddItem, RemoveItemAt, ToggleChoice, MoveItemTo
<1> QED
  BY <1>2, <1>3, <1>4, <1>5 DEF UserAction, ArrayOperation

(* So it is for the operations of a user,                                  *)
LEMMA UserStill ==
  ASSUME RInv, UserAction, ~Revised
  PROVE  Quiet
<1>1. UserOperation /\ RevisionStep
  BY UserActionOperates, UserOperationRevises DEF RInv, FInv
<1>2. ~DataRevised
  BY DEF Revised, DataRevised
<1>3. UNCHANGED findingVars
  <2>1. ASSUME NEW i, NEW j, MoveArrayItem(i, j) PROVE FALSE
    BY <2>1 DEF MoveArrayItem, AdvanceRevisions, Revised, RInv, FInv, IInv, TypeOK
  <2> QED
    BY <1>2, <2>1, UserActionStays
<1> QED
  BY <1>1, <1>3, UserKeepsSettings, StillIsQuiet DEF findingVars

(* for those of the host, where a reset of a form at its baseline moves no *)
(* finding either,                                                         *)
LEMMA HostStill ==
  ASSUME RInv, RInv', HostAction, ~Revised
  PROVE  Quiet
<1>1. dataRevision \in Nat /\ stateRevision \in Nat /\ IInv
  BY DEF RInv, FInv, IInv, TypeOK
<1>2. ASSUME NEW s \in Source, NEW F \in Batches, NEW revision,
             ApplyExternalFindings(s, revision, F)
      PROVE  Quiet
  <2>1. external' = external
    BY <1>1, <1>2 DEF ApplyExternalFindings, AdvanceRevisions, Revised
  <2> QED
    BY <1>2, <2>1 DEF ApplyExternalFindings, topologyVars, hostSettings, Quiet
<1>3. ASSUME NEW flag \in BOOLEAN, SetReadOnly(flag) PROVE Quiet
  <2>1. readOnly' = readOnly
    BY <1>1, <1>3 DEF SetReadOnly, MarkStateChanged, AdvanceRevisions, Revised
  <2> QED
    BY <1>3, <2>1 DEF SetReadOnly, MarkStateChanged, topologyVars, findingVars, Quiet
<1>4. ASSUME NEW policy \in Policies, SetFindingVisibility(policy) PROVE Quiet
  <2>1. visibility' = visibility
    BY <1>1, <1>4 DEF SetFindingVisibility, MarkStateChanged, AdvanceRevisions, Revised
  <2> QED
    BY <1>4, <2>1 DEF SetFindingVisibility, MarkStateChanged, topologyVars,
       findingVars, Quiet
<1>5. Lifecycled => RevisionStep
  BY <1>1, LifecycledOperates, LifecycleRevises DEF RInv
<1>6. CASE FinalizeSubmission
  BY <1>5, <1>6, StillIsQuiet DEF FinalizeSubmission, Lifecycled, findingVars
<1>7. CASE ResetForm
  <2>1. RevisionStep /\ ~DataRevised
    BY <1>5, <1>7 DEF Lifecycled, Revised, DataRevised
  <2>2. items' = items
    BY <2>1 DEF RevisionStep, Revised, observable
  <2>3. Identities' = Identities
    BY <2>2 DEF Identities
  <2>4. RebaseFindings(Identities', "preserve") /\ validated' = validated
    BY <1>7, <2>1 DEF ResetForm, Revalidate
  <2>5. RebaseFindings(Identities, "preserve")
    BY <2>3, <2>4
  <2>6. \A s \in Source : external'[s].findings = external[s].findings
    BY <2>5, RebaseSame
  <2> QED
    BY <1>7, <2>1, <2>4, <2>6, StillIsQuiet DEF ResetForm
<1>8. ASSUME NEW d \in HostData, ReinitializeForm(d) PROVE FALSE
  BY <1>1, <1>8 DEF ReinitializeForm, Reinitialize, AdvanceRevisions, Revised
<1> QED
  BY <1>2, <1>3, <1>4, <1>6, <1>7, <1>8 DEF HostAction

(* and for a transaction that keeps every item where it is.                *)
LEMMA TransactStill ==
  ASSUME RInv, RInv', NEW d \in HostData, NEW writes, NEW indices,
         NEW replace \in BOOLEAN, NEW topology \in Seq(Nat),
         Transact(d, writes, indices, replace, topology), ~Revised
  PROVE  Quiet /\ ComingsTold
<1>1. /\ ApplyHostTransaction(d, writes, WrittenItems(writes, indices), replace,
                              topology)
      /\ RevisionStep /\ ~DataRevised /\ stateRevision \in Nat
  BY TransactPreserves DEF Transact, RInv, FInv, IInv, TypeOK, Revised, DataRevised
<1>2. topology = Identities
  <2>1. \/ stateRevision' = stateRevision + 1
        \/ Identities = topology
    BY <1>1 DEF ApplyHostTransaction, AdvanceRevisions
  <2> QED
    BY <1>1, <2>1 DEF Revised
<1>3. RebaseFindings(topology, "remove") /\ validated' = validated
  BY <1>1 DEF Transact, Revalidate
<1>4. \A s \in Source : external'[s].findings = external[s].findings
  BY <1>2, <1>3, RebaseSame
<1>5. Quiet
  BY <1>1, <1>3, <1>4, StillIsQuiet DEF Transact
<1>6. TellNothing
  BY DEF Transact
<1>7. ItemIds' = ItemIds
  BY <1>5, QuietItems
<1>8. ComingsTold
  <2>1. /\ transition'.items = {} /\ transition'.removed = {}
    BY <1>6 DEF TellNothing, Tell
  <2> QED
    BY <1>7, <2>1 DEF ComingsTold
<1> QED
  BY <1>5, <1>8

-----------------------------------------------------------------------------
(* An operation that changes nothing that is shown has nothing to tell.    *)
LEMMA QuietTold ==
  ASSUME Quiet
  PROVE  NodesTold /\ ItemsTold /\ ShownByWhole' = ShownByWhole
<1>1. \A n \in Control \cup {"list"} : Observe(n)' = Observe(n)
  BY QuietNodes
<1>2. \A id : ShownOfItem(id)' = ShownOfItem(id)
  BY QuietItems, UnpresentedStays
<1>3. ShownByWhole' = ShownByWhole
  BY QuietWhole
<1> HIDE DEF Observe, ShownOfItem, ShownByWhole
<1> QED
  BY <1>1, <1>2, <1>3 DEF NodesTold, ItemsTold

(* What every operation tells: which items came and went always, and the   *)
(* rest when it advances a revision, without which nothing changes.        *)
LEMMA UserTold ==
  ASSUME RInv, RInv', UserAction,
         ~MultipleChoice \/ \A i \in 1..Len(items) : ~BlurItemControl(i)
  PROVE  ComingsTold /\ (Revised => NodesTold /\ ItemsTold)
<1>1. ASSUME NEW c \in Control,
             \/ \E text \in Text : InputText(c, text)
             \/ \E v \in Value \cup {Null} : AssignValue(c, v)
             \/ RemoveValue(c)
             \/ BlurControl(c)
      PROVE  ComingsTold /\ (Revised => NodesTold /\ ItemsTold)
  BY <1>1, ControlActionTold
<1>2. ASSUME NEW i \in 1..Len(items),
             \/ \E text \in Text : InputItemText(i, text)
             \/ \E v \in Value \cup {Null} : AssignItemValue(i, v)
             \/ BlurItemControl(i)
      PROVE  ComingsTold /\ (Revised => NodesTold /\ ItemsTold)
  BY <1>2, ItemActionTold
<1>3. StructuralEdit => ComingsTold /\ NodesTold /\ ItemsTold
  BY StructuralEditTold
<1>4. ArrayOperation => ComingsTold /\ NodesTold /\ ItemsTold
  BY InsertionTold, RemovalTold, MoveTold, ToggleTold DEF ArrayOperation
<1> QED
  BY <1>1, <1>2, <1>3, <1>4, BlurListTold DEF UserAction

(* A host's calls compare all that is shown, but for external findings,    *)
LEMMA HostTold ==
  ASSUME RInv, RInv', HostAction
  PROVE  AllTold
<1>1. ASSUME NEW s \in Source, NEW F \in Batches, NEW revision,
             ApplyExternalFindings(s, revision, F)
      PROVE  AllTold
  BY <1>1, AppliedTold
<1>2. ASSUME \/ \E flag \in BOOLEAN : SetReadOnly(flag)
             \/ \E policy \in Policies : SetFindingVisibility(policy)
             \/ FinalizeSubmission
             \/ ResetForm
             \/ \E d \in HostData : ReinitializeForm(d)
      PROVE  TellObserved
  BY <1>2 DEF SetReadOnly, SetFindingVisibility, FinalizeSubmission, ResetForm,
     ReinitializeForm
<1> QED
  BY <1>1, <1>2, ObservedTold DEF HostAction

(* so that every step tells of all it changed, and revises what it changes *)
(* of the form as a whole.                                                 *)
LEMMA CallTold ==
  ASSUME RInv, RInv', UserAction \/ HostAction,
         ~MultipleChoice \/ \A i \in 1..Len(items) : ~BlurItemControl(i)
  PROVE  AllTold /\ (ShownByWhole' # ShownByWhole => Revised)
<1>1. CASE UserAction
  <2>1. ComingsTold /\ (Revised => NodesTold /\ ItemsTold)
    BY <1>1, UserTold
  <2>2. ~Revised => Quiet
    BY <1>1, UserStill
  <2> QED
    BY <2>1, <2>2, QuietTold DEF AllTold
<1>2. CASE HostAction
  <2>1. ~Revised => Quiet
    BY <1>2, HostStill
  <2> QED
    BY <1>2, <2>1, HostTold, QuietTold
<1> QED
  BY <1>1, <1>2

LEMMA StepTold ==
  ASSUME ~MultipleChoice, RInv, RInv', FacadeNext
  PROVE  AllTold /\ (ShownByWhole' # ShownByWhole => Revised)
<1>1. CASE UserAction \/ HostAction
  BY <1>1, CallTold
<1>2. CASE HostTransact
  <2>1. PICK d \in HostData, writes \in WriteSets,
             indices \in SUBSET (1..Len(items)) :
          \/ Transact(d, writes, indices, TRUE, <<>>)
          \/ \E topology \in Topologies(Count(d)) :
               Transact(d, writes, indices, FALSE, topology)
    BY <1>2 DEF HostTransact
  <2>2. PICK replace \in BOOLEAN, topology \in Seq(Nat) :
          Transact(d, writes, indices, replace, topology)
    <3>1. <<>> \in Seq(Nat)
      BY EmptySeq
    <3> QED
      BY <2>1, <3>1, TopologyIsSequence DEF RInv, FInv
  <2>3. CASE Revised
    BY <2>2, <2>3, TransactTold
  <2>4. CASE ~Revised
    BY <2>2, <2>4, TransactStill, QuietTold DEF AllTold
  <2> QED
    BY <2>3, <2>4
<1> QED
  BY <1>1, <1>2 DEF FacadeNext

-----------------------------------------------------------------------------
(* The nodes and items of the contract are those of the form.              *)
LEMMA ContractNodes ==
  /\ Followed' = Followed
  /\ \A x : x \in Followed <=> \E n \in Control \cup {"list"} : x = <<"node", n>>
  /\ \A n : <<"node", n>> \in Followed <=> n \in Control \cup {"list"}
  /\ \A id : <<"item", id>> \in PresentItems <=> id \in ItemIds
  /\ \A id : <<"item", id>> \in PresentItems' <=> id \in ItemIds'
  /\ \A x \in PresentItems : \E id \in ItemIds : x = <<"item", id>>
  /\ \A x \in PresentItems' : \E id \in ItemIds' : x = <<"item", id>>
  /\ \A id : <<"item", id>> \notin Followed
<1> HIDE DEF ItemIds
<1> QED
  BY DEF Followed, PresentItems

(* What the contract says they show is what they do.                       *)
LEMMA ShownAre ==
  /\ \A n \in Control \cup {"list"} :
       /\ ShownByForm[<<"node", n>>] = Observe(n)
       /\ (ShownByForm')[<<"node", n>>] = Observe(n)'
  /\ \A id \in ItemIds : ShownByForm[<<"item", id>>] = ObserveItem(id)
  /\ \A id \in ItemIds' : (ShownByForm')[<<"item", id>>] = ObserveItem(id)'
<1>1. ASSUME NEW n \in Control \cup {"list"}
      PROVE  /\ ShownByForm[<<"node", n>>] = Observe(n)
             /\ (ShownByForm')[<<"node", n>>] = Observe(n)'
  <2>1. <<"node", n>> \in Followed
    BY ContractNodes
  <2> QED
    BY <2>1, ContractNodes DEF ShownByForm
<1> QED
  BY <1>1, ContractNodes DEF ShownByForm

(* What is told of a node or an item is told to those who follow it.       *)
LEMMA ToldAre ==
  /\ \A n \in Control \cup {"list"} :
       n \in transition'.nodes => <<"node", n>> \in Told'.changed
  /\ \A id : <<"item", id>> \in Told'.changed <=> id \in transition'.items
  /\ \A x \in Told'.changed :
       x \in Followed \/ \E id \in transition'.items : x = <<"item", id>>
  /\ Told'.removed = {<<"item", id>> : id \in transition'.removed}
<1>1. /\ Told'.changed = (Followed \cap {<<"node", n>> : n \in transition'.nodes})
                           \cup {<<"item", id>> : id \in transition'.items}
      /\ Told'.removed = {<<"item", id>> : id \in transition'.removed}
  BY ContractNodes DEF Told
<1> QED
  BY <1>1, ContractNodes

(* Hence every operation does what the contract lets it do,                *)
LEMMA StepImplements ==
  ASSUME ~MultipleChoice, RInv, RInv', FacadeNext
  PROVE  Contract!ContractNext
<1>1. /\ NodesTold /\ ItemsTold /\ ComingsTold
      /\ ShownByWhole' # ShownByWhole => Revised
  BY StepTold DEF AllTold
<1> HIDE DEF NodesTold, ItemsTold, ComingsTold
<1>2. Told'.changed \subseteq Followed \cup PresentItems'
  <2>1. transition'.items \subseteq ItemIds'
    BY <1>1 DEF ComingsTold
  <2> QED
    BY <2>1, ToldAre, ContractNodes
<1>3. Told'.removed = PresentItems \ PresentItems'
  <2>1. transition'.removed = ItemIds \ ItemIds'
    BY <1>1 DEF ComingsTold
  <2>2. Told'.removed = {<<"item", id>> : id \in ItemIds \ ItemIds'}
    BY <2>1, ToldAre
  <2> QED
    BY <2>2, ContractNodes
<1>4. PresentItems' \ PresentItems \subseteq Told'.changed
  <2>1. ItemIds' \ ItemIds \subseteq transition'.items
    BY <1>1 DEF ComingsTold
  <2> QED
    BY <2>1, ToldAre, ContractNodes
<1>5. ASSUME NEW x \in Followed, (ShownByForm')[x] # ShownByForm[x]
      PROVE  x \in Told'.changed
  <2>1. PICK n \in Control \cup {"list"} : x = <<"node", n>>
    BY ContractNodes
  <2>2. Observe(n)' # Observe(n)
    BY <1>5, <2>1, ShownAre
  <2>3. n \in transition'.nodes
    BY <1>1, <2>2 DEF NodesTold
  <2> QED
    BY <2>1, <2>3, ToldAre
<1>6. ASSUME NEW x \in PresentItems \cap PresentItems',
             (ShownByForm')[x] # ShownByForm[x]
      PROVE  x \in Told'.changed
  <2>1. PICK id \in ItemIds \cap ItemIds' : x = <<"item", id>>
    <3>1. PICK id \in ItemIds : x = <<"item", id>>
      BY ContractNodes
    <3>2. id \in ItemIds'
      BY <3>1, ContractNodes
    <3> QED
      BY <3>1, <3>2
  <2>2. ObserveItem(id)' # ObserveItem(id)
    BY <1>6, <2>1, ShownAre
  <2>3. id \in transition'.items
    BY <1>1, <2>2 DEF ItemsTold, ShownOfItem
  <2> QED
    BY <2>1, <2>3, ToldAre
<1>7. \A x \in (Followed \cup PresentItems) \cap (Followed \cup PresentItems') :
        (ShownByForm')[x] # ShownByForm[x] => x \in Told'.changed
  <2>1. ASSUME NEW x \in Followed, x \in PresentItems \/ x \in PresentItems'
        PROVE  FALSE
    BY <2>1, ContractNodes
  <2> QED
    BY <1>5, <1>6, <2>1
<1>8. Contract!Differing \subseteq Told'.changed
  <2> HIDE DEF ShownByForm, Told, PresentItems, Followed
  <2> QED
    BY <1>7, ContractNodes DEF Contract!Differing
<1>9. ShownByWhole' # ShownByWhole =>
        <<dataRevision, stateRevision>>' # <<dataRevision, stateRevision>>
  BY <1>1 DEF Revised
<1> HIDE DEF Told, PresentItems, Followed, ShownByWhole
<1> QED
  BY <1>2, <1>3, <1>4, <1>8, <1>9, ContractNodes
  DEF Contract!ContractNext, Contract!Tells, Contract!TellsOf, Contract!IsEmpty

(* and what is no operation changes nothing the contract is about.         *)
LEMMA StutterImplements ==
  ASSUME UNCHANGED facadeVars
  PROVE  UNCHANGED Contract!contractVars
<1>1. Quiet /\ transition' = transition
      /\ dataRevision' = dataRevision /\ stateRevision' = stateRevision
  BY DEF facadeVars, vars, Quiet
<1>2. /\ ItemIds' = ItemIds
      /\ \A id : ObserveItem(id)' = ObserveItem(id)
      /\ \A n : Observe(n)' = Observe(n)
      /\ ShownByWhole' = ShownByWhole
  BY <1>1, QuietNodes, QuietItems, QuietWhole
<1>3. PresentItems' = PresentItems
  BY <1>2 DEF PresentItems
<1>4. Told' = Told
  BY <1>1, ContractNodes DEF Told
<1>5. ShownByForm' = ShownByForm
  <2>1. \A x \in Followed : (ShownByForm')[x] = ShownByForm[x]
    BY <1>2, ShownAre, ContractNodes
  <2>2. \A x \in PresentItems : (ShownByForm')[x] = ShownByForm[x]
    BY <1>2, ShownAre, ContractNodes
  <2>3. /\ ShownByForm = [x \in Followed \cup PresentItems |-> ShownByForm[x]]
        /\ ShownByForm' = [x \in Followed \cup PresentItems |-> (ShownByForm')[x]]
    BY <1>3, ContractNodes DEF ShownByForm
  <2> QED
    BY <2>1, <2>2, <2>3
<1> HIDE DEF ShownByWhole, ShownByForm, Told, PresentItems
<1> QED
  BY <1>1, <1>2, <1>3, <1>4, <1>5 DEF Contract!contractVars

(* A new form has told of nothing.                                         *)
LEMMA InitImplements == FacadeInit => Contract!ContractInit
BY DEF FacadeInit, Contract!ContractInit, Told

(* The form keeps the contract its observers rely on, however often and in *)
(* whatever order its operations are called: a handle that reads again     *)
(* what a transition names (and nothing else) shows the form as it is.     *)
THEOREM FormImplementsContract ==
  ASSUME ~MultipleChoice
  PROVE  FacadeSpec => ImplementsContract
<1>1. RInv /\ RInv' /\ [FacadeNext]_facadeVars
        => [Contract!ContractNext]_(Contract!contractVars)
  BY StepImplements, StutterImplements
<1> QED
  BY <1>1, InitImplements, FacadeInitRetains, FacadeNextRetains, PTL
  DEF FacadeSpec, ImplementsContract, Contract!ContractSpec

(* A form whose list is a multiple choice tells as much, whatever is       *)
(* called: the list, which presents the findings of its items, whenever    *)
(* what it shows of them changes, and every item whose place, data or      *)
(* state does.  (Leaving an item's own control is the exception.)          *)
THEOREM ChoicesTold == UserFacadeSpec => ChoiceChangesAreTold
<1>1. /\ RInv /\ UserFacadeNext => RInv'
      /\ RInv /\ UNCHANGED facadeVars => RInv'
  BY FacadeNextRetains DEF UserFacadeNext, FacadeNext
<1>2. ASSUME RInv, RInv', UserFacadeNext,
             \A i \in 1..Len(items) : ~BlurItemControl(i)
      PROVE  /\ \A n \in (Control \cup {"list"}) \ transition'.nodes :
                   Observe(n)' = Observe(n)
             /\ \A id \in ItemIds' \ transition'.items :
                  /\ id \in ItemIds
                  /\ Unpresented(ObserveItem(id))' = Unpresented(ObserveItem(id))
             /\ transition'.removed = ItemIds \ ItemIds'
  <2>1. NodesTold /\ ItemsTold /\ ComingsTold
    BY <1>2, CallTold DEF UserFacadeNext, AllTold
  <2>2. ASSUME NEW id, ShownOfItem(id)' = ShownOfItem(id)
        PROVE  Unpresented(ObserveItem(id))' = Unpresented(ObserveItem(id))
    <3>1. Unpresented(ObserveItem(id))' = Unpresented(ObserveItem(id)')
      BY DEF Unpresented
    <3> HIDE DEF ObserveItem
    <3> QED
      BY <2>2, <3>1 DEF ShownOfItem
  <2> HIDE DEF Observe, ObserveItem, ShownOfItem, ItemIds
  <2> QED
    BY <2>1, <2>2 DEF NodesTold, ItemsTold, ComingsTold
<1> QED
  BY <1>1, <1>2, FacadeInitRetains, PTL DEF UserFacadeSpec, ChoiceChangesAreTold
=============================================================================
