-------------------------- MODULE HostDraftProofs --------------------------
(***************************************************************************)
(* Proofs about HostDraft: whatever operations a caller makes, a draft has *)
(* one place in its topology for every item, and records what it changes.  *)
(* A commit therefore is a host transaction as FormEngine expects it.      *)
(***************************************************************************)
EXTENDS HostDraft, FormEngineProofs

NamesOnce(topology) ==
  \A i, j \in 1..Len(topology) :
    topology[i] = topology[j] /\ topology[i] # Fresh => i = j

(* What both properties of HostDraft say of a draft.                       *)
DraftOK(e) ==
  /\ e \in Drafts
  /\ Len(e.topology) = Count(e.data)
  /\ NamesOnce(e.topology)
  /\ RecordsChanges(e.data, e.writes, e.itemWrites, e.replaced, e.topology)

DraftInv == EditInv /\ (draft # NoDraft => DraftOK(draft))
-----------------------------------------------------------------------------
(* The candidates are trees.                                               *)
LEMMA DraftFacts ==
  ASSUME NEW e, DraftOK(e)
  PROVE  /\ e.data \in Tree /\ e.data \in Data
         /\ e.data.items \in Seq(Scalar)
         /\ e.topology \in Seq(Nat)
         /\ Len(e.topology) \in Nat /\ Len(e.topology) = Len(e.data.items)
BY LenProperties DEF DraftOK, Drafts, Tree, Data, Count

LEMMA PutGroupTree ==
  ASSUME NEW d \in Tree, NEW g \in Tree
  PROVE  /\ PutGroup(d, g) \in Tree
         /\ PutGroup(d, g).group = g.group
         /\ ListOf(PutGroup(d, g)) = ListOf(g)
         /\ \A c \in Control \ Grouped : PutGroup(d, g).value[c] = d.value[c]
<1> d \in Data /\ g \in Data /\ IsTree(g)
  BY DEF Tree
<1>1. /\ PutGroup(d, g).value = [c \in Control |-> IF c \in Grouped
                                     THEN g.value[c] ELSE d.value[c]]
      /\ PutGroup(d, g).group = g.group
      /\ PutGroup(d, g).list = g.list /\ PutGroup(d, g).items = g.items
  BY DEF PutGroup, SetGroup, Data
<1>2. PutGroup(d, g) \in Data
  BY DEF PutGroup, SetGroup, Data
<1>3. IsTree(PutGroup(d, g))
  BY <1>1, FormDataAssumption DEF IsTree, FormDataAssumption
<1> QED
  BY <1>1, <1>2, <1>3 DEF Tree, ListOf

LEMMA PutListTree ==
  ASSUME NEW d \in Tree, NEW g \in Tree, ListParentIsObject(d)
  PROVE  /\ PutList(d, g) \in Tree
         /\ PutList(d, g).group = d.group /\ PutList(d, g).value = d.value
<1> d \in Data /\ IsTree(d) /\ g \in Data /\ IsTree(g)
  BY DEF Tree
<1>1. /\ PutList(d, g).value = d.value /\ PutList(d, g).group = d.group
      /\ PutList(d, g).list = g.list /\ PutList(d, g).items = g.items
  BY DEF PutList, Data
<1>2. PutList(d, g) \in Data
  BY DEF PutList, Data
<1>3. IsTree(PutList(d, g))
  BY <1>1 DEF IsTree, ListParentIsObject
<1> QED
  BY <1>1, <1>2, <1>3 DEF Tree
-----------------------------------------------------------------------------
(* An identity is never the mark of a fresh item.                          *)
LEMMA IdentityNotFresh ==
  ASSUME IInv, NEW i \in 1..Len(items)
  PROVE  /\ items[i].identity # Fresh /\ items[i].identity \in Nat
         /\ \A j \in 1..Len(items) :
              items[j].identity = items[i].identity => j = i
<1>1. items[i].identity \in 1..nextItemIdentity - 1 /\ nextItemIdentity \in Nat
  BY DEF IInv, IdentitiesDistinct, TypeOK
<1> QED
  BY <1>1 DEF Fresh, IInv, IdentitiesDistinct

(* Counting operations and telling whether they were valid changes nothing *)
(* of what a draft has to be.                                              *)
LEMMA CountedDraft ==
  ASSUME NEW e, DraftOK(e), NEW n \in 0..MaxOperations + 1, NEW b \in BOOLEAN
  PROVE  /\ DraftOK([e EXCEPT !.operations = n])
         /\ DraftOK([e EXCEPT !.valid = b])
<1>1. ASSUME NEW f \in {[e EXCEPT !.operations = n], [e EXCEPT !.valid = b]}
      PROVE  /\ f \in Drafts
             /\ f.data = e.data /\ f.topology = e.topology
             /\ f.writes = e.writes /\ f.itemWrites = e.itemWrites
             /\ f.replaced = e.replaced
  BY DEF DraftOK, Drafts
<1> QED
  BY <1>1 DEF DraftOK

LEMMA PerformKeeps ==
  ASSUME DraftOK(draft), NEW e, DraftOK(e), Perform(e)
  PROVE  DraftOK(draft')
<1>1. draft.operations + 1 \in 0..MaxOperations + 1
  BY HostDraftAssumption DEF HostDraftAssumption, Perform, Accepting, DraftOK, Drafts
<1> QED
  BY <1>1, CountedDraft DEF Perform

LEMMA PerformIfKeeps ==
  ASSUME DraftOK(draft), NEW e, NEW allowed \in BOOLEAN,
         allowed => DraftOK(e), PerformIf(allowed, e)
  PROVE  DraftOK(draft')
<1>1. DraftOK(Poisoned)
  <2>1. 0 \in 0..MaxOperations + 1
    BY HostDraftAssumption DEF HostDraftAssumption
  <2> QED
    BY <2>1, CountedDraft DEF Poisoned
<1> QED
  BY <1>1, PerformKeeps DEF PerformIf
-----------------------------------------------------------------------------
(* Writing one control records it.                                         *)
LEMMA ControlWrite ==
  ASSUME DraftOK(draft), NEW c \in Control, NEW d \in Tree,
         \A k \in Control : k # c => d.value[k] = draft.data.value[k],
         d.group = draft.data.group, d.list = draft.data.list,
         d.items = draft.data.items
  PROVE  DraftOK([draft EXCEPT !.data = d, !.writes = draft.writes \cup {c}])
<1> DEFINE e == [draft EXCEPT !.data = d, !.writes = draft.writes \cup {c}]
<1>1. draft \in Drafts
  BY DEF DraftOK
<1>2. e \in Drafts
  BY <1>1 DEF Drafts
<1>3. /\ e.data = d /\ e.topology = draft.topology
      /\ e.writes = draft.writes \cup {c} /\ e.itemWrites = draft.itemWrites
      /\ e.replaced = draft.replaced
  BY <1>1 DEF Drafts
<1> HIDE DEF e
<1>4. Len(e.topology) = Count(e.data) /\ NamesOnce(e.topology)
  BY <1>3 DEF DraftOK, Count
<1>5. RecordsChanges(draft.data, draft.writes, draft.itemWrites, draft.replaced,
                     draft.topology)
  BY DEF DraftOK
<1>6. \A k \in Control : \/ d.value[k] = formData.value[k]
                         \/ \E w \in e.writes : Overlaps(w, k)
  BY <1>3, <1>5 DEF RecordsChanges, Overlaps
<1>7. /\ d.group # formData.group => e.writes \cap {"group", "root"} # {}
      /\ d.list # formData.list => e.replaced
  BY <1>3, <1>5 DEF RecordsChanges
<1>8. ~e.replaced =>
        /\ e.topology \in Seq(Nat)
        /\ ValidTopology(d, e.topology)
        /\ \A i \in 1..Len(e.topology), j \in 1..Len(items) :
             \/ e.topology[i] # items[j].identity
             \/ d.items[i] = formData.items[j]
             \/ e.topology[i] \in e.itemWrites
  BY <1>3, <1>5 DEF RecordsChanges, ValidTopology, Count
<1>9. RecordsChanges(e.data, e.writes, e.itemWrites, e.replaced, e.topology)
  BY <1>3, <1>6, <1>7, <1>8 DEF RecordsChanges
<1> QED
  BY <1>2, <1>4, <1>9 DEF DraftOK, e

(* Values and a topology whose kept items were in those before them.       *)
Rearranged(values, topology, oldValues, oldTopology) ==
  /\ values \in Seq(Scalar) /\ topology \in Seq(Nat)
  /\ Len(values) = Len(topology)
  /\ NamesOnce(topology)
  /\ \A i \in 1..Len(topology) :
       \/ topology[i] = Fresh
       \/ \E j \in 1..Len(oldTopology) :
            topology[i] = oldTopology[j] /\ values[i] = oldValues[j]

(* Editing the list keeps each value with its place in the topology, or    *)
(* has a fresh item.                                                       *)
LEMMA ListEdit ==
  ASSUME IInv, DraftOK(draft), draft.data.list = "array",
         NEW values, NEW topology,
         Rearranged(values, topology, draft.data.items, draft.topology)
  PROVE  DraftOK([draft EXCEPT !.data.items = values, !.topology = topology])
<1> USE DEF Rearranged
<1> DEFINE d == [draft.data EXCEPT !.items = values]
           e == [draft EXCEPT !.data.items = values, !.topology = topology]
<1>1. draft \in Drafts /\ draft.data \in Tree /\ draft.data \in Data
  BY DraftFacts DEF DraftOK
<1>2. /\ d \in Tree /\ d.items = values /\ d.value = draft.data.value
      /\ d.group = draft.data.group /\ d.list = draft.data.list
  BY <1>1, ItemsTree DEF Data
<1>3. e = [draft EXCEPT !.data = d, !.topology = topology]
  BY <1>1 DEF Drafts
<1> HIDE DEF d, e
<1>4. /\ e \in Drafts
      /\ e.data = d /\ e.topology = topology
      /\ e.writes = draft.writes /\ e.itemWrites = draft.itemWrites
      /\ e.replaced = draft.replaced
  BY <1>1, <1>2, <1>3 DEF Drafts
<1>5. RecordsChanges(draft.data, draft.writes, draft.itemWrites, draft.replaced,
                     draft.topology)
  BY DEF DraftOK
<1>6. ASSUME ~e.replaced
      PROVE  /\ ValidTopology(d, topology)
             /\ \A i \in 1..Len(topology), j \in 1..Len(items) :
                  \/ topology[i] # items[j].identity
                  \/ d.items[i] = formData.items[j]
                  \/ topology[i] \in e.itemWrites
  <2>1. /\ ValidTopology(draft.data, draft.topology)
        /\ \A i \in 1..Len(draft.topology), j \in 1..Len(items) :
             \/ draft.topology[i] # items[j].identity
             \/ draft.data.items[i] = formData.items[j]
             \/ draft.topology[i] \in draft.itemWrites
    BY <1>4, <1>5, <1>6 DEF RecordsChanges
  <2>2. ASSUME NEW i \in 1..Len(topology), topology[i] # Fresh
        PROVE  /\ \E j \in 1..Len(items) : items[j].identity = topology[i]
               /\ \A j \in 1..Len(topology) : topology[j] = topology[i] => j = i
    <3>1. PICK l \in 1..Len(draft.topology) : topology[i] = draft.topology[l]
      BY <2>2
    <3>2. \E j \in 1..Len(items) : items[j].identity = draft.topology[l]
      BY <2>1, <2>2, <3>1 DEF ValidTopology
    <3> QED
      BY <2>2, <3>1, <3>2 DEF NamesOnce
  <2>3. ValidTopology(d, topology)
    BY <1>2, <2>2 DEF ValidTopology, Count
  <2>4. ASSUME NEW i \in 1..Len(topology), NEW j \in 1..Len(items),
               topology[i] = items[j].identity
        PROVE  d.items[i] = formData.items[j] \/ topology[i] \in e.itemWrites
    <3>1. topology[i] # Fresh
      BY <2>4, IdentityNotFresh
    <3>2. PICK l \in 1..Len(draft.topology) :
            topology[i] = draft.topology[l] /\ values[i] = draft.data.items[l]
      BY <3>1
    <3> QED
      BY <1>2, <1>4, <2>1, <2>4, <3>2
  <2> QED
    BY <2>3, <2>4
<1>7. RecordsChanges(e.data, e.writes, e.itemWrites, e.replaced, e.topology)
  BY <1>2, <1>4, <1>5, <1>6 DEF RecordsChanges
<1> QED
  BY <1>2, <1>4, <1>7 DEF DraftOK, Count, e
-----------------------------------------------------------------------------
(* A write at or above the list: the topology names the items of the form  *)
(* where the list is the form's, and fresh ones where it is another.       *)
LEMMA IdentitiesFacts ==
  ASSUME IInv
  PROVE  /\ Identities \in Seq(Nat) /\ Len(Identities) = Len(items)
         /\ NamesOnce(Identities)
         /\ \A i \in 1..Len(items) : Identities[i] = items[i].identity
<1>1. Len(items) \in Nat
  BY InvariantFacts
<1>2. Identities \in [1..Len(items) -> Nat]
  BY IdentityNotFresh DEF Identities
<1>3. Identities \in Seq(Nat) /\ Len(Identities) = Len(items)
  BY <1>1, <1>2, FunctionIsSequence
<1>4. \A i \in 1..Len(items) : Identities[i] = items[i].identity
  BY DEF Identities
<1> QED
  BY <1>3, <1>4, IdentityNotFresh DEF NamesOnce

LEMMA AllFreshFacts ==
  ASSUME NEW n \in Nat
  PROVE  /\ AllFresh(n) \in Seq(Nat) /\ Len(AllFresh(n)) = n
         /\ NamesOnce(AllFresh(n))
<1>1. AllFresh(n) \in [1..n -> Nat]
  BY DEF AllFresh, Fresh
<1>2. AllFresh(n) \in Seq(Nat) /\ Len(AllFresh(n)) = n
  BY <1>1, FunctionIsSequence
<1> QED
  BY <1>2 DEF NamesOnce, AllFresh

(* The list of the form, kept as it is, is recorded by its identities.     *)
LEMMA IdentitiesRecord ==
  ASSUME IInv, NEW d, d.items = formData.items, NEW w
  PROVE  /\ ValidTopology(d, Identities)
         /\ \A i \in 1..Len(Identities), j \in 1..Len(items) :
              \/ Identities[i] # items[j].identity
              \/ d.items[i] = formData.items[j]
              \/ Identities[i] \in w
<1>1. Len(items) = Len(formData.items)
  BY InvariantFacts
<1>2. ValidTopology(d, Identities)
  BY <1>1, IdentitiesFacts DEF ValidTopology, Count, NamesOnce
<1> QED
  BY <1>2, IdentitiesFacts, IdentityNotFresh

(* What the array part of a draft becomes: its topology fits the new list. *)
LEMMA ReconciledFits ==
  ASSUME IInv, DraftOK(draft), NEW d \in Tree
  PROVE  LET e == Reconciled(d)
         IN  /\ e \in Drafts
             /\ e.writes = draft.writes /\ e.itemWrites = draft.itemWrites
             /\ Len(e.topology) = Len(d.items) /\ NamesOnce(e.topology)
             /\ d.list # formData.list => e.replaced
             /\ ~e.replaced =>
                  /\ ValidTopology(d, e.topology)
                  /\ \A i \in 1..Len(e.topology), j \in 1..Len(items) :
                       \/ e.topology[i] # items[j].identity
                       \/ d.items[i] = formData.items[j]
                       \/ e.topology[i] \in draft.itemWrites
<1> DEFINE e == Reconciled(d)
<1>1. draft \in Drafts /\ Len(draft.topology) = Len(draft.data.items)
  BY DEF DraftOK, Count
<1>2. d.items \in Seq(Scalar) /\ Len(d.items) \in Nat
  BY LenProperties DEF Tree, Data
<1>3. CASE ListOf(d) = ListOf(draft.data)
  <2>1. e = draft /\ d.list = draft.data.list /\ d.items = draft.data.items
    BY <1>3 DEF Reconciled, ListOf
  <2>2. RecordsChanges(draft.data, draft.writes, draft.itemWrites,
                       draft.replaced, draft.topology)
    BY DEF DraftOK
  <2>3. d.list # formData.list => draft.replaced
    BY <2>1, <2>2 DEF RecordsChanges
  <2>4. ~draft.replaced =>
          /\ ValidTopology(d, draft.topology)
          /\ \A i \in 1..Len(draft.topology), j \in 1..Len(items) :
               \/ draft.topology[i] # items[j].identity
               \/ d.items[i] = formData.items[j]
               \/ draft.topology[i] \in draft.itemWrites
    BY <2>1, <2>2 DEF RecordsChanges, ValidTopology, Count
  <2> HIDE DEF e
  <2> QED
    BY <1>1, <2>1, <2>3, <2>4 DEF DraftOK, e
<1>4. CASE ListOf(d) # ListOf(draft.data) /\ ListOf(d) # ListOf(formData)
  <2>1. e = [draft EXCEPT !.replaced = TRUE, !.topology = AllFresh(Len(d.items))]
    BY <1>4 DEF Reconciled, Count
  <2>2. /\ e \in Drafts /\ e.replaced /\ e.topology = AllFresh(Len(d.items))
        /\ e.writes = draft.writes /\ e.itemWrites = draft.itemWrites
    BY <1>1, <1>2, <2>1, AllFreshFacts DEF Drafts
  <2> HIDE DEF e
  <2> QED
    BY <1>2, <2>2, AllFreshFacts DEF e
<1>5. CASE ListOf(d) # ListOf(draft.data) /\ ListOf(d) = ListOf(formData)
  <2>1. e = [draft EXCEPT !.replaced = FALSE, !.topology = Identities]
    BY <1>5 DEF Reconciled
  <2>2. /\ e \in Drafts /\ ~e.replaced /\ e.topology = Identities
        /\ e.writes = draft.writes /\ e.itemWrites = draft.itemWrites
    BY <1>1, <2>1, IdentitiesFacts DEF Drafts
  <2>3. d.items = formData.items /\ d.list = formData.list
    BY <1>5 DEF ListOf
  <2>4. Len(formData.items) = Len(items)
    BY InvariantFacts
  <2> HIDE DEF e
  <2>5. ~e.replaced =>
                  /\ ValidTopology(d, e.topology)
                  /\ \A i \in 1..Len(e.topology), j \in 1..Len(items) :
                       \/ e.topology[i] # items[j].identity
                       \/ d.items[i] = formData.items[j]
                       \/ e.topology[i] \in draft.itemWrites
    BY <2>2, <2>3, IdentitiesRecord
  <2> QED
    BY <2>2, <2>3, <2>4, <2>5, IdentitiesFacts DEF e
<1> QED
  BY <1>3, <1>4, <1>5

LEMMA WriteAboveKeeps ==
  ASSUME IInv, DraftOK(draft), NEW d \in Tree, NEW w \in {"root", "group", "list"},
         \A c \in Control : \/ d.value[c] = draft.data.value[c]
                            \/ Overlaps(w, c),
         d.group # draft.data.group => w \in {"root", "group"}
  PROVE  DraftOK(WriteAbove(d, w))
<1> DEFINE r == Reconciled(d)
           e == WriteAbove(d, w)
<1>1. /\ r \in Drafts
      /\ r.writes = draft.writes /\ r.itemWrites = draft.itemWrites
      /\ Len(r.topology) = Len(d.items) /\ NamesOnce(r.topology)
      /\ d.list # formData.list => r.replaced
      /\ ~r.replaced =>
           /\ ValidTopology(d, r.topology)
           /\ \A i \in 1..Len(r.topology), j \in 1..Len(items) :
                \/ r.topology[i] # items[j].identity
                \/ d.items[i] = formData.items[j]
                \/ r.topology[i] \in draft.itemWrites
  BY ReconciledFits
<1>2. Existing \subseteq Nat
  <2>1. draft.topology \in Seq(Nat)
    BY DraftFacts
  <2> QED
    BY <2>1, ElementOfSeq DEF Existing
<1>3. e = [r EXCEPT !.data = d, !.writes = r.writes \cup {w},
                    !.itemWrites = r.itemWrites \cup Existing]
  BY DEF WriteAbove
<1> HIDE DEF r, e
<1>4. /\ e \in Drafts /\ e.data = d /\ e.writes = draft.writes \cup {w}
      /\ e.itemWrites = draft.itemWrites \cup Existing
      /\ e.topology = r.topology /\ e.replaced = r.replaced
  BY <1>1, <1>2, <1>3 DEF Drafts
<1>5. RecordsChanges(draft.data, draft.writes, draft.itemWrites,
                     draft.replaced, draft.topology)
  BY DEF DraftOK
<1>6. \A c \in Control : \/ d.value[c] = formData.value[c]
                         \/ \E v \in e.writes : Overlaps(v, c)
  BY <1>4, <1>5 DEF RecordsChanges
<1>7. d.group # formData.group => e.writes \cap {"group", "root"} # {}
  BY <1>4, <1>5 DEF RecordsChanges
<1>8. r.topology \in Seq(Nat)
  BY <1>1 DEF Drafts
<1>9. RecordsChanges(e.data, e.writes, e.itemWrites, e.replaced, e.topology)
  BY <1>1, <1>4, <1>6, <1>7, <1>8 DEF RecordsChanges
<1> QED
  BY <1>1, <1>4, <1>9 DEF DraftOK, Count, e
-----------------------------------------------------------------------------
(* The operations at a binding.                                            *)
LEMMA SetControlToKeeps ==
  ASSUME IInv, DraftOK(draft), NEW c \in Control, NEW v \in Scalar,
         SetControlTo(c, v)
  PROVE  DraftOK(draft')
<1> DEFINE d == SetControl(draft.data, c, v)
           e == [draft EXCEPT !.data = SetControl(@, c, v),
                              !.writes = @ \cup {c}]
           allowed == ParentIsObject(draft.data, c)
<1>1. draft.data \in Tree /\ draft.data \in Data /\ draft \in Drafts
  BY DraftFacts DEF DraftOK
<1>2. /\ \A k \in Control : k # c => d.value[k] = draft.data.value[k]
      /\ d.group = draft.data.group /\ d.list = draft.data.list
      /\ d.items = draft.data.items
  BY <1>1 DEF SetControl, Data
<1>3. allowed => d \in Tree
  BY <1>1, SetControlTree
<1>4. e = [draft EXCEPT !.data = d, !.writes = draft.writes \cup {c}]
  BY <1>1 DEF Drafts
<1>5. allowed \in BOOLEAN /\ PerformIf(allowed, e)
  BY DEF SetControlTo, ParentIsObject
<1> HIDE DEF d, e, allowed
<1>6. allowed => DraftOK(e)
  BY <1>2, <1>3, <1>4, ControlWrite
<1> QED
  BY <1>5, <1>6, PerformIfKeeps

LEMMA DropControlKeeps ==
  ASSUME IInv, DraftOK(draft), NEW c \in Control, DropControl(c)
  PROVE  DraftOK(draft')
<1> DEFINE d == TakeControl(draft.data, c)
           e == [draft EXCEPT !.data = TakeControl(@, c),
                              !.writes = @ \cup {c}]
           allowed == draft.data.value[c] # Absent
<1>1. draft.data \in Tree /\ draft.data \in Data /\ draft \in Drafts
  BY DraftFacts DEF DraftOK
<1>2. /\ \A k \in Control : k # c => d.value[k] = draft.data.value[k]
      /\ d.group = draft.data.group /\ d.list = draft.data.list
      /\ d.items = draft.data.items
  BY <1>1 DEF TakeControl, Data
<1>3. d \in Tree
  BY <1>1, TakeControlTree
<1>4. e = [draft EXCEPT !.data = d, !.writes = draft.writes \cup {c}]
  BY <1>1 DEF Drafts
<1>5. allowed \in BOOLEAN /\ PerformIf(allowed, e)
  BY DEF DropControl
<1> HIDE DEF d, e, allowed
<1>6. DraftOK(e)
  BY <1>2, <1>3, <1>4, ControlWrite
<1> QED
  BY <1>5, <1>6, PerformIfKeeps

(* At and above the list.                                                  *)
LEMMA GroupWriteKeeps ==
  ASSUME IInv, DraftOK(draft),
         DropGroup \/ \E g \in HostData : SetGroupTo(g)
  PROVE  DraftOK(draft')
<1>1. draft.data \in Tree /\ draft.data \in Data
  BY DraftFacts
<1>2. ASSUME NEW d \in Tree,
             \A c \in Control \ Grouped : d.value[c] = draft.data.value[c]
      PROVE  DraftOK(WriteAbove(d, "group"))
  BY <1>2, WriteAboveKeeps DEF Overlaps
<1>3. ASSUME NEW g \in HostData, SetGroupTo(g) PROVE DraftOK(draft')
  <2>1. g \in Tree
    BY FormEngineAssumption DEF FormEngineAssumption
  <2>2. DraftOK(WriteAbove(PutGroup(draft.data, g), "group"))
    BY <1>1, <1>2, <2>1, PutGroupTree
  <2> QED
    BY <1>3, <2>2, PerformKeeps DEF SetGroupTo
<1>4. CASE DropGroup
  <2>1. /\ TakeGroup(draft.data) \in Tree
        /\ \A c \in Control \ Grouped :
             TakeGroup(draft.data).value[c] = draft.data.value[c]
    BY <1>1, TakeGroupTree DEF TakeGroup, Data
  <2>2. DraftOK(WriteAbove(TakeGroup(draft.data), "group"))
    BY <1>2, <2>1
  <2>3. (draft.data.group # "absent") \in BOOLEAN
    OBVIOUS
  <2> QED
    BY <1>4, <2>2, <2>3, PerformIfKeeps DEF DropGroup
<1> QED
  BY <1>3, <1>4

LEMMA ListWriteKeeps ==
  ASSUME IInv, DraftOK(draft),
         DropList \/ \E g \in HostData : SetListTo(g)
  PROVE  DraftOK(draft')
<1>1. draft.data \in Tree /\ draft.data \in Data
  BY DraftFacts
<1>2. ASSUME NEW d \in Tree, d.value = draft.data.value,
             d.group = draft.data.group
      PROVE  DraftOK(WriteAbove(d, "list"))
  BY <1>2, WriteAboveKeeps
<1>3. ASSUME NEW g \in HostData, SetListTo(g) PROVE DraftOK(draft')
  <2>1. g \in Tree
    BY FormEngineAssumption DEF FormEngineAssumption
  <2>2. ListParentIsObject(draft.data) =>
          DraftOK(WriteAbove(PutList(draft.data, g), "list"))
    BY <1>1, <1>2, <2>1, PutListTree
  <2>3. ListParentIsObject(draft.data) \in BOOLEAN
    BY DEF ListParentIsObject
  <2> QED
    BY <1>3, <2>2, <2>3, PerformIfKeeps DEF SetListTo
<1>4. CASE DropList
  <2>1. /\ TakeList(draft.data) \in Tree
        /\ TakeList(draft.data).value = draft.data.value
        /\ TakeList(draft.data).group = draft.data.group
    BY <1>1, TakeListTree DEF TakeList, Data
  <2>2. DraftOK(WriteAbove(TakeList(draft.data), "list"))
    BY <1>2, <2>1
  <2>3. (draft.data.list # "absent") \in BOOLEAN
    OBVIOUS
  <2> QED
    BY <1>4, <2>2, <2>3, PerformIfKeeps DEF DropList
<1> QED
  BY <1>3, <1>4

LEMMA SetRootKeeps ==
  ASSUME IInv, DraftOK(draft), NEW d \in HostData, SetRoot(d)
  PROVE  DraftOK(draft')
<1>1. d \in Tree
  BY FormEngineAssumption DEF FormEngineAssumption
<1>2. DraftOK(WriteAbove(d, "root"))
  BY <1>1, WriteAboveKeeps DEF Overlaps
<1> QED
  BY <1>2, PerformKeeps DEF SetRoot

(* An item written by its index is recorded by its identity.               *)
LEMMA SetItemToKeeps ==
  ASSUME IInv, DraftOK(draft), NEW i \in Nat, NEW v \in Scalar, SetItemTo(i, v)
  PROVE  DraftOK(draft')
<1> DEFINE values == [draft.data.items EXCEPT ![i] = v]
           d == [draft.data EXCEPT !.items = values]
           e == [draft EXCEPT !.data.items[i] = v,
                   !.itemWrites = @ \cup ({draft.topology[i]} \ {Fresh})]
<1>1. /\ draft.data \in Tree /\ draft.data \in Data /\ draft \in Drafts
      /\ draft.data.items \in Seq(Scalar) /\ draft.topology \in Seq(Nat)
      /\ Len(draft.topology) = Len(draft.data.items)
      /\ Len(draft.topology) \in Nat
  BY DraftFacts DEF DraftOK
<1>2. HasItem(i) \in BOOLEAN /\ PerformIf(HasItem(i), e)
  BY DEF SetItemTo, HasItem
<1>3. ASSUME HasItem(i) PROVE DraftOK(e)
  <2>1. i \in 1..Len(draft.data.items)
    BY <1>3 DEF HasItem, Count
  <2>2. draft.data.list = "array"
    <3>1. draft.data.items # <<>>
      BY <1>1, <2>1
    <3> QED
      BY <1>1, <3>1 DEF Tree, IsTree
  <2>3. /\ values \in Seq(Scalar) /\ Len(values) = Len(draft.data.items)
        /\ \A k \in 1..Len(draft.data.items) :
             k # i => values[k] = draft.data.items[k]
    BY <1>1, <2>1
  <2>4. e = [draft EXCEPT !.data = d,
               !.itemWrites = draft.itemWrites
                                \cup ({draft.topology[i]} \ {Fresh})]
    BY <1>1 DEF Drafts, Data
  <2>5. /\ d \in Tree /\ d.items = values /\ d.value = draft.data.value
        /\ d.group = draft.data.group /\ d.list = draft.data.list
    BY <1>1, <2>2, <2>3, ItemsTree DEF Data
  <2>6. draft.topology[i] \in Nat
    BY <1>1, <2>1
  <2> HIDE DEF e, d, values
  <2>7. /\ e \in Drafts /\ e.data = d /\ e.topology = draft.topology
        /\ e.writes = draft.writes /\ e.replaced = draft.replaced
        /\ e.itemWrites = draft.itemWrites \cup ({draft.topology[i]} \ {Fresh})
    BY <1>1, <2>4, <2>5, <2>6 DEF Drafts
  <2>8. RecordsChanges(draft.data, draft.writes, draft.itemWrites,
                       draft.replaced, draft.topology)
    BY DEF DraftOK
  <2>9. ASSUME ~e.replaced
        PROVE  /\ ValidTopology(d, draft.topology)
               /\ \A k \in 1..Len(draft.topology), j \in 1..Len(items) :
                    \/ draft.topology[k] # items[j].identity
                    \/ d.items[k] = formData.items[j]
                    \/ draft.topology[k] \in e.itemWrites
    <3>1. /\ ValidTopology(draft.data, draft.topology)
          /\ \A k \in 1..Len(draft.topology), j \in 1..Len(items) :
               \/ draft.topology[k] # items[j].identity
               \/ draft.data.items[k] = formData.items[j]
               \/ draft.topology[k] \in draft.itemWrites
      BY <2>7, <2>8, <2>9 DEF RecordsChanges
    <3>2. ValidTopology(d, draft.topology)
      BY <2>3, <2>5, <3>1 DEF ValidTopology, Count
    <3>3. ASSUME NEW k \in 1..Len(draft.topology), NEW j \in 1..Len(items),
                 draft.topology[k] = items[j].identity
          PROVE  d.items[k] = formData.items[j] \/ draft.topology[k] \in e.itemWrites
      <4>1. CASE k = i
        BY <2>7, <3>3, <4>1, IdentityNotFresh
      <4>2. CASE k # i
        BY <1>1, <2>3, <2>5, <2>7, <3>1, <3>3, <4>2
      <4> QED
        BY <4>1, <4>2
    <3> QED
      BY <3>2, <3>3
  <2>10. RecordsChanges(e.data, e.writes, e.itemWrites, e.replaced, e.topology)
    BY <1>1, <2>5, <2>7, <2>8, <2>9 DEF RecordsChanges
  <2> QED
    BY <1>1, <2>3, <2>5, <2>7, <2>10 DEF DraftOK, Count
<1> HIDE DEF e
<1> QED
  BY <1>2, <1>3, PerformIfKeeps
-----------------------------------------------------------------------------
(* The array methods edit values and topology at the same place.           *)
LEMMA ValueInsertion ==
  ASSUME NEW s \in Seq(Scalar), NEW i \in 1..Len(s) + 1, NEW v \in Scalar
  PROVE  /\ InsertAt(s, i, v) \in Seq(Scalar)
         /\ Len(InsertAt(s, i, v)) = Len(s) + 1
         /\ \A k \in 1..Len(s) + 1 :
              InsertAt(s, i, v)[k] = IF k < i THEN s[k]
                                     ELSE IF k = i THEN v ELSE s[k - 1]
<1> DEFINE S == Scalar
<1>1. s \in Seq(S) /\ v \in S
  OBVIOUS
<1> HIDE DEF S
<1>2. /\ InsertAt(s, i, v) \in Seq(S)
      /\ Len(InsertAt(s, i, v)) = Len(s) + 1
      /\ \A k \in 1..Len(s) + 1 :
           InsertAt(s, i, v)[k] = IF k < i THEN s[k]
                                  ELSE IF k = i THEN v ELSE s[k - 1]
  BY <1>1, InsertAtProperties
<1> QED
  BY <1>2 DEF S

LEMMA FreshInsertion ==
  ASSUME NEW t \in Seq(Nat), NEW i \in 1..Len(t) + 1
  PROVE  /\ InsertAt(t, i, Fresh) \in Seq(Nat)
         /\ Len(InsertAt(t, i, Fresh)) = Len(t) + 1
         /\ \A k \in 1..Len(t) + 1 :
              InsertAt(t, i, Fresh)[k] = IF k < i THEN t[k]
                                         ELSE IF k = i THEN Fresh ELSE t[k - 1]
<1> DEFINE N == Nat
<1>1. t \in Seq(N) /\ Fresh \in N
  BY DEF Fresh
<1> HIDE DEF N
<1>2. /\ InsertAt(t, i, Fresh) \in Seq(N)
      /\ Len(InsertAt(t, i, Fresh)) = Len(t) + 1
      /\ \A k \in 1..Len(t) + 1 :
           InsertAt(t, i, Fresh)[k] = IF k < i THEN t[k]
                                      ELSE IF k = i THEN Fresh ELSE t[k - 1]
  BY <1>1, InsertAtProperties
<1> QED
  BY <1>2 DEF N

LEMMA InsertionRearranges ==
  ASSUME NEW s \in Seq(Scalar), NEW t \in Seq(Nat), Len(s) = Len(t), NamesOnce(t),
         NEW i \in 1..Len(t) + 1, NEW v \in Scalar
  PROVE  Rearranged(InsertAt(s, i, v), InsertAt(t, i, Fresh), s, t)
<1> DEFINE values == InsertAt(s, i, v)
           topology == InsertAt(t, i, Fresh)
           old(k) == IF k < i THEN k ELSE k - 1
<1>1. Len(t) \in Nat /\ i \in 1..Len(s) + 1
  BY LenProperties
<1>2. /\ values \in Seq(Scalar) /\ Len(values) = Len(s) + 1
      /\ \A k \in 1..Len(s) + 1 :
           values[k] = IF k < i THEN s[k] ELSE IF k = i THEN v ELSE s[k - 1]
  BY <1>1, ValueInsertion, ZenonT(30)
<1>3. /\ topology \in Seq(Nat) /\ Len(topology) = Len(t) + 1
      /\ \A k \in 1..Len(t) + 1 :
           topology[k] = IF k < i THEN t[k] ELSE IF k = i THEN Fresh ELSE t[k - 1]
  BY FreshInsertion
<1> HIDE DEF values, topology
<1>4. \A k \in 1..Len(topology) :
        \/ k = i /\ topology[k] = Fresh
        \/ /\ k # i /\ old(k) \in 1..Len(t)
           /\ topology[k] = t[old(k)] /\ values[k] = s[old(k)]
  <2> SUFFICES ASSUME NEW k \in 1..Len(topology), k # i
               PROVE  /\ old(k) \in 1..Len(t)
                      /\ topology[k] = t[old(k)] /\ values[k] = s[old(k)]
    BY <1>1, <1>3
  <2>1. k \in Nat /\ k \in 1..Len(t) + 1 /\ k \in 1..Len(s) + 1
    BY <1>1, <1>3
  <2>2. old(k) \in 1..Len(t)
    BY <1>1, <2>1
  <2>3. CASE k < i
    BY <1>2, <1>3, <2>1, <2>2, <2>3
  <2>4. CASE ~(k < i)
    BY <1>2, <1>3, <2>1, <2>2, <2>4
  <2> QED
    BY <2>3, <2>4
<1>5. ASSUME NEW k \in 1..Len(topology), NEW l \in 1..Len(topology),
             k # i, l # i, old(k) = old(l)
      PROVE  k = l
  <2>1. k \in Nat /\ l \in Nat /\ i \in Nat
    BY <1>1, <1>3
  <2> QED
    BY <1>5, <2>1
<1> HIDE DEF old
<1>6. NamesOnce(topology)
  <2> SUFFICES ASSUME NEW k \in 1..Len(topology), NEW l \in 1..Len(topology),
                      topology[k] = topology[l], topology[k] # Fresh
               PROVE  k = l
    BY DEF NamesOnce
  <2>1. /\ k # i /\ old(k) \in 1..Len(t) /\ topology[k] = t[old(k)]
        /\ l # i /\ old(l) \in 1..Len(t) /\ topology[l] = t[old(l)]
    BY <1>4
  <2>2. old(k) = old(l)
    BY <2>1 DEF NamesOnce
  <2> QED
    BY <1>5, <2>1, <2>2
<1>7. \A k \in 1..Len(topology) :
        \/ topology[k] = Fresh
        \/ \E j \in 1..Len(t) : topology[k] = t[j] /\ values[k] = s[j]
  BY <1>4
<1>8. Len(values) = Len(topology)
  BY <1>2, <1>3
<1>9. Rearranged(values, topology, s, t)
  BY <1>2, <1>3, <1>6, <1>7, <1>8 DEF Rearranged
<1> QED
  BY <1>9 DEF values, topology

LEMMA RemovalRearranges ==
  ASSUME NEW s \in Seq(Scalar), NEW t \in Seq(Nat), Len(s) = Len(t), NamesOnce(t),
         NEW i \in 1..Len(t)
  PROVE  Rearranged(RemoveAt(s, i), RemoveAt(t, i), s, t)
<1> DEFINE values == RemoveAt(s, i)
           topology == RemoveAt(t, i)
           old(k) == IF k < i THEN k ELSE k + 1
<1>1. Len(t) \in Nat /\ i \in 1..Len(s) /\ i \in Nat
  BY LenProperties
<1>2. /\ values \in Seq(Scalar) /\ Len(values) = Len(t) - 1
      /\ \A k \in 1..Len(s) - 1 : values[k] = IF k < i THEN s[k] ELSE s[k + 1]
  BY <1>1, RemoveAtProperties
<1>3. /\ topology \in Seq(Nat) /\ Len(topology) = Len(t) - 1
      /\ \A k \in 1..Len(t) - 1 : topology[k] = IF k < i THEN t[k] ELSE t[k + 1]
  BY <1>1, RemoveAtProperties
<1> HIDE DEF values, topology
<1>4. \A k \in 1..Len(topology) :
        /\ old(k) \in 1..Len(t)
        /\ topology[k] = t[old(k)] /\ values[k] = s[old(k)]
  <2> SUFFICES ASSUME NEW k \in 1..Len(topology)
               PROVE  /\ old(k) \in 1..Len(t)
                      /\ topology[k] = t[old(k)] /\ values[k] = s[old(k)]
    OBVIOUS
  <2>1. k \in Nat /\ k \in 1..Len(t) - 1 /\ k \in 1..Len(s) - 1
    BY <1>1, <1>3
  <2>2. old(k) \in 1..Len(t)
    BY <1>1, <2>1
  <2>3. CASE k < i
    BY <1>2, <1>3, <2>1, <2>2, <2>3
  <2>4. CASE ~(k < i)
    BY <1>2, <1>3, <2>1, <2>2, <2>4
  <2> QED
    BY <2>3, <2>4
<1>5. ASSUME NEW k \in 1..Len(topology), NEW l \in 1..Len(topology), old(k) = old(l)
      PROVE  k = l
  <2>1. k \in Nat /\ l \in Nat
    BY <1>1, <1>3
  <2> QED
    BY <1>1, <1>5, <2>1
<1> HIDE DEF old
<1>6. NamesOnce(topology)
  <2> SUFFICES ASSUME NEW k \in 1..Len(topology), NEW l \in 1..Len(topology),
                      topology[k] = topology[l], topology[k] # Fresh
               PROVE  k = l
    BY DEF NamesOnce
  <2>1. /\ old(k) \in 1..Len(t) /\ topology[k] = t[old(k)]
        /\ old(l) \in 1..Len(t) /\ topology[l] = t[old(l)]
    BY <1>4
  <2>2. old(k) = old(l)
    BY <2>1 DEF NamesOnce
  <2> QED
    BY <1>5, <2>2
<1>7. \A k \in 1..Len(topology) :
        \E j \in 1..Len(t) : topology[k] = t[j] /\ values[k] = s[j]
  BY <1>4
<1>8. Len(values) = Len(topology)
  BY <1>2, <1>3
<1>9. Rearranged(values, topology, s, t)
  BY <1>2, <1>3, <1>6, <1>7, <1>8 DEF Rearranged
<1> QED
  BY <1>9 DEF values, topology

LEMMA SwapRearranges ==
  ASSUME NEW s \in Seq(Scalar), NEW t \in Seq(Nat), Len(s) = Len(t), NamesOnce(t),
         NEW i \in 1..Len(t), NEW j \in 1..Len(t)
  PROVE  Rearranged(Swap(s, i, j), Swap(t, i, j), s, t)
<1> DEFINE values == Swap(s, i, j)
           topology == Swap(t, i, j)
           old(k) == IF k = j THEN i ELSE IF k = i THEN j ELSE k
<1>1. i \in 1..Len(s) /\ j \in 1..Len(s)
  OBVIOUS
<1>2. /\ values \in Seq(Scalar) /\ Len(values) = Len(s)
      /\ \A k \in 1..Len(s) :
           values[k] = IF k = j THEN s[i] ELSE IF k = i THEN s[j] ELSE s[k]
  BY <1>1, SwapProperties DEF Swap
<1>3. /\ topology \in Seq(Nat) /\ Len(topology) = Len(t)
      /\ \A k \in 1..Len(t) :
           topology[k] = IF k = j THEN t[i] ELSE IF k = i THEN t[j] ELSE t[k]
  BY SwapProperties DEF Swap
<1> HIDE DEF values, topology
<1>4. \A k \in 1..Len(topology) :
        /\ old(k) \in 1..Len(t)
        /\ topology[k] = t[old(k)] /\ values[k] = s[old(k)]
  <2> SUFFICES ASSUME NEW k \in 1..Len(topology)
               PROVE  /\ old(k) \in 1..Len(t)
                      /\ topology[k] = t[old(k)] /\ values[k] = s[old(k)]
    OBVIOUS
  <2>1. k \in 1..Len(t) /\ k \in 1..Len(s)
    BY <1>3
  <2>2. old(k) \in 1..Len(t)
    BY <2>1
  <2> QED
    BY <1>2, <1>3, <2>1, <2>2
<1>5. \A k, l \in 1..Len(topology) : old(k) = old(l) => k = l
  OBVIOUS
<1> HIDE DEF old
<1>6. NamesOnce(topology)
  <2> SUFFICES ASSUME NEW k \in 1..Len(topology), NEW l \in 1..Len(topology),
                      topology[k] = topology[l], topology[k] # Fresh
               PROVE  k = l
    BY DEF NamesOnce
  <2>1. /\ old(k) \in 1..Len(t) /\ topology[k] = t[old(k)]
        /\ old(l) \in 1..Len(t) /\ topology[l] = t[old(l)]
    BY <1>4
  <2>2. old(k) = old(l)
    BY <2>1 DEF NamesOnce
  <2> QED
    BY <1>5, <2>2
<1>7. \A k \in 1..Len(topology) :
        \E l \in 1..Len(t) : topology[k] = t[l] /\ values[k] = s[l]
  BY <1>4
<1>8. Len(values) = Len(topology)
  BY <1>2, <1>3
<1>9. Rearranged(values, topology, s, t)
  BY <1>2, <1>3, <1>6, <1>7, <1>8 DEF Rearranged
<1> QED
  BY <1>9 DEF values, topology

LEMMA InsertFreshKeeps ==
  ASSUME IInv, DraftOK(draft), draft.data.list = "array",
         NEW i \in 1..Len(draft.topology) + 1, NEW v \in Scalar
  PROVE  DraftOK(InsertFresh(i, v))
<1>1. Rearranged(InsertAt(draft.data.items, i, v),
                 InsertAt(draft.topology, i, Fresh),
                 draft.data.items, draft.topology)
  BY DraftFacts, InsertionRearranges DEF DraftOK
<1>2. InsertFresh(i, v) =
        [draft EXCEPT !.data.items = InsertAt(draft.data.items, i, v),
                      !.topology = InsertAt(draft.topology, i, Fresh)]
  BY DEF InsertFresh, DraftOK, Drafts, Tree, Data
<1>3. DraftOK([draft EXCEPT
                 !.data.items = InsertAt(draft.data.items, i, v),
                 !.topology = InsertAt(draft.topology, i, Fresh)])
  BY <1>1, ListEdit
<1> QED
  BY <1>2, <1>3

(* The item an array method names.                                         *)
LEMMA PositionFacts ==
  ASSUME NEW identity, Kept(identity)
  PROVE  PositionOf(identity) \in 1..Len(draft.topology)
<1>1. \E i \in 1..Len(draft.topology) : Holds(identity, i)
  BY DEF Kept, Existing, Holds
<1> QED
  BY <1>1 DEF PositionOf

LEMMA InsertKeeps ==
  ASSUME IInv, DraftOK(draft), NEW v \in Value,
         AppendItem(v) \/ \E identity : InsertItemBefore(identity, v)
  PROVE  DraftOK(draft')
<1>1. v \in Scalar /\ Len(draft.topology) \in Nat
  BY DraftFacts DEF Scalar
<1>2. CASE AppendItem(v)
  <2>1. ArrayParts => DraftOK(InsertFresh(Len(draft.topology) + 1, v))
    BY <1>1, InsertFreshKeeps DEF ArrayParts
  <2>2. ArrayParts \in BOOLEAN
    BY DEF ArrayParts
  <2> QED
    BY <1>2, <2>1, <2>2, PerformIfKeeps DEF AppendItem
<1>3. ASSUME NEW identity, InsertItemBefore(identity, v) PROVE DraftOK(draft')
  <2> DEFINE allowed == ArrayParts /\ Kept(identity)
  <2>1. allowed => DraftOK(InsertFresh(PositionOf(identity), v))
    <3> SUFFICES ASSUME allowed PROVE DraftOK(InsertFresh(PositionOf(identity), v))
      OBVIOUS
    <3>1. PositionOf(identity) \in 1..Len(draft.topology) + 1
      BY <1>1, PositionFacts
    <3> QED
      BY <1>1, <3>1, InsertFreshKeeps DEF ArrayParts
  <2>2. allowed \in BOOLEAN
         /\ PerformIf(allowed, InsertFresh(PositionOf(identity), v))
    BY <1>3 DEF InsertItemBefore
  <2> HIDE DEF allowed
  <2> QED
    BY <2>1, <2>2, PerformIfKeeps
<1> QED
  BY <1>2, <1>3

LEMMA RemoveItemKeeps ==
  ASSUME IInv, DraftOK(draft), NEW identity, RemoveItem(identity)
  PROVE  DraftOK(draft')
<1> DEFINE i == PositionOf(identity)
           allowed == ArrayParts /\ Kept(identity)
           e == [draft EXCEPT !.data.items = RemoveAt(@, PositionOf(identity)),
                              !.topology = RemoveAt(@, PositionOf(identity))]
<1>1. allowed \in BOOLEAN /\ PerformIf(allowed, e)
  BY DEF RemoveItem
<1>2. ASSUME allowed PROVE DraftOK(e)
  <2>1. i \in 1..Len(draft.topology)
    BY <1>2, PositionFacts
  <2>2. e = [draft EXCEPT !.data.items = RemoveAt(draft.data.items, i),
                          !.topology = RemoveAt(draft.topology, i)]
    BY DEF DraftOK, Drafts, Tree, Data
  <2> HIDE DEF i, e
  <2>3. Rearranged(RemoveAt(draft.data.items, i), RemoveAt(draft.topology, i),
                   draft.data.items, draft.topology)
    BY <2>1, DraftFacts, RemovalRearranges DEF DraftOK
  <2> QED
    BY <1>2, <2>2, <2>3, ListEdit DEF ArrayParts
<1> HIDE DEF allowed, e
<1> QED
  BY <1>1, <1>2, PerformIfKeeps

LEMMA MoveItemKeeps ==
  ASSUME IInv, DraftOK(draft), NEW identity, NEW by, MoveItem(identity, by)
  PROVE  DraftOK(draft')
<1> DEFINE i == PositionOf(identity)
           j == i + by
           allowed == /\ ArrayParts /\ Kept(identity)
                      /\ j \in 1..Len(draft.topology)
           e == [draft EXCEPT !.data.items = Swap(@, i, j),
                              !.topology = Swap(@, i, j)]
<1>1. allowed \in BOOLEAN /\ PerformIf(allowed, e)
  BY DEF MoveItem
<1>2. ASSUME allowed PROVE DraftOK(e)
  <2>1. i \in 1..Len(draft.topology) /\ j \in 1..Len(draft.topology)
    BY <1>2, PositionFacts
  <2>2. e = [draft EXCEPT !.data.items = Swap(draft.data.items, i, j),
                          !.topology = Swap(draft.topology, i, j)]
    BY DEF DraftOK, Drafts, Tree, Data
  <2> HIDE DEF i, j, e
  <2>3. Rearranged(Swap(draft.data.items, i, j), Swap(draft.topology, i, j),
                   draft.data.items, draft.topology)
    BY <2>1, DraftFacts, SwapRearranges DEF DraftOK
  <2> QED
    BY <1>2, <2>2, <2>3, ListEdit DEF ArrayParts
<1> HIDE DEF allowed, e
<1> QED
  BY <1>1, <1>2, PerformIfKeeps

LEMMA OperationKeeps ==
  ASSUME IInv, DraftOK(draft), WriteBinding \/ EditArray
  PROVE  DraftOK(draft')
<1>1. \A i \in 1..MaxItems : i \in Nat
  BY FormDataAssumption DEF FormDataAssumption
<1>2. WriteBinding => DraftOK(draft')
  BY <1>1, SetControlToKeeps, DropControlKeeps, GroupWriteKeeps, ListWriteKeeps,
     SetRootKeeps, SetItemToKeeps DEF WriteBinding
<1>3. EditArray => DraftOK(draft')
  BY InsertKeeps, RemoveItemKeeps, MoveItemKeeps DEF EditArray
<1> QED
  BY <1>2, <1>3
-----------------------------------------------------------------------------
(* A draft is opened on the form as it is.                                 *)
LEMMA BeginKeeps ==
  ASSUME IInv, Begin
  PROVE  DraftOK(draft')
<1> DEFINE e == [data |-> formData, topology |-> Identities,
                 replaced |-> FALSE, writes |-> {}, itemWrites |-> {},
                 valid |-> TRUE, operations |-> 0]
<1>1. draft' = e
  BY DEF Begin
<1>2. 0 \in 0..MaxOperations + 1
  BY HostDraftAssumption DEF HostDraftAssumption
<1>3. e \in Drafts
  BY <1>2, InvariantFacts, IdentitiesFacts DEF Drafts
<1>4. Len(e.topology) = Count(e.data) /\ NamesOnce(e.topology)
  BY InvariantFacts, IdentitiesFacts
<1>5. RecordsChanges(formData, {}, {}, FALSE, Identities)
  <2> DEFINE none == {}
  <2> HIDE DEF none
  <2>1. /\ ValidTopology(formData, Identities)
        /\ \A i \in 1..Len(Identities), j \in 1..Len(items) :
             \/ Identities[i] # items[j].identity
             \/ formData.items[i] = formData.items[j]
             \/ Identities[i] \in none
    BY IdentitiesRecord
  <2> QED
    BY <2>1, IdentitiesFacts DEF RecordsChanges, none
<1> QED
  BY <1>1, <1>3, <1>4, <1>5 DEF DraftOK

LEMMA DraftInvPreserved == DraftInv /\ [HostNext]_hostVars => DraftInv'
<1> SUFFICES ASSUME DraftInv, [HostNext]_hostVars PROVE DraftInv'
  OBVIOUS
<1>1. EditInv /\ IInv
  BY DEF DraftInv, EditInv
<1>2. ASSUME UNCHANGED vars PROVE EditInv'
  BY <1>1, <1>2, EditInvPreserved
<1>3. ASSUME UNCHANGED vars, DraftOK(draft') PROVE DraftInv'
  <2>1. DraftOK(draft)'
    BY <1>3 DEF DraftOK, Drafts, RecordsChanges, ValidTopology, vars
  <2> QED
    BY <1>2, <1>3, <2>1 DEF DraftInv
<1>4. CASE Caller
  <2>1. UserOperation \/ Lifecycle
    BY <1>4 DEF Caller, UserNext
  <2>2. EditInv'
    BY <1>1, <2>1, OperationKeepsEditInv
  <2> QED
    BY <1>4, <2>2 DEF Caller, DraftInv
<1>5. CASE Begin
  BY <1>1, <1>3, <1>5, BeginKeeps DEF Begin
<1>6. CASE Operation
  <2>1. draft # NoDraft
    BY <1>6 DEF Operation, WriteBinding, EditArray, SetControlTo, DropControl,
       SetGroupTo, SetListTo, SetRoot, DropGroup, DropList, SetItemTo,
       AppendItem, InsertItemBefore, RemoveItem, MoveItem, PerformIf, Perform,
       Accepting
  <2> QED
    BY <1>1, <1>3, <1>6, <2>1, OperationKeeps DEF Operation, DraftInv
<1>7. CASE Commit
  <2>1. DraftOK(draft) /\ draft' = NoDraft
    BY <1>7 DEF Commit, Accepting, DraftInv
  <2>2. /\ draft.data \in Tree /\ draft.topology \in Seq(Nat)
        /\ draft.replaced \in BOOLEAN
    BY <2>1, DraftFacts DEF DraftOK, Drafts
  <2>3. RecordsChanges(draft.data, draft.writes, draft.itemWrites,
                       draft.replaced, draft.topology)
    BY <2>1 DEF DraftOK
  <2>4. EditInv'
    BY <1>1, <1>7, <2>2, <2>3, HostStepKeepsEditInv DEF Commit
  <2> QED
    BY <2>1, <2>4 DEF DraftInv
<1>8. CASE Rollback
  BY <1>2, <1>8 DEF Rollback, DraftInv
<1>9. CASE UNCHANGED hostVars
  <2>1. UNCHANGED vars /\ draft' = draft
    BY <1>9 DEF hostVars
  <2> QED
    BY <1>2, <1>3, <2>1 DEF DraftInv
<1> QED
  BY <1>4, <1>5, <1>6, <1>7, <1>8, <1>9 DEF HostNext, Transaction

(* The form's invariant and the draft's hold together: that of the form    *)
(* survives a commit because of what the draft recorded.                   *)
THEOREM DraftInvariant == HostSpec => []DraftInv
<1>1. HostInit => DraftInv
  BY EditInvInitial DEF HostInit, DraftInv
<1> QED
  BY <1>1, DraftInvPreserved, PTL DEF HostSpec

(* A transaction is never refused for its topology, whatever operations    *)
(* it was made of, and in whatever order.                                  *)
THEOREM DraftsAgree == HostSpec => []DraftTopologyAgrees
<1>1. DraftInv => DraftTopologyAgrees
  BY DEF DraftInv, DraftOK, NamesOnce, DraftTopologyAgrees
<1> QED
  BY <1>1, DraftInvariant, PTL

(* Every difference between candidate and form is covered by a write, a    *)
(* replaced list or the topology: what FormEngine requires of the          *)
(* transactions it commits is what every draft provides.                   *)
THEOREM DraftsRecord == HostSpec => []DraftRecordsChanges
<1>1. DraftInv => DraftRecordsChanges
  BY DEF DraftInv, DraftOK, DraftRecordsChanges
<1> QED
  BY <1>1, DraftInvariant, PTL

(* So text still goes with its value after any transactions.               *)
THEOREM HostTextDescribes == HostSpec => []EditStatesDescribeValues
<1>1. DraftInv => EditStatesDescribeValues
  BY DEF DraftInv, EditInv
<1> QED
  BY <1>1, DraftInvariant, PTL
=============================================================================
