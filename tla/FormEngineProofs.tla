-------------------------- MODULE FormEngineProofs --------------------------
(***************************************************************************)
(* Proofs about FormEngine for every definition, every user input and any  *)
(* number of calls.                                                        *)
(***************************************************************************)
EXTENDS FormEngine, SequenceLemmas, FiniteSetTheorems

(* InsertAtProperties for item states.                                     *)
LEMMA ItemInsertion ==
  ASSUME NEW s \in Seq(ItemState), NEW e \in ItemState,
         NEW i \in 1..Len(s) + 1
  PROVE  /\ InsertAt(s, i, e) \in Seq(ItemState)
         /\ Len(InsertAt(s, i, e)) = Len(s) + 1
         /\ \A k \in 1..Len(s) + 1 :
              InsertAt(s, i, e)[k] = IF k < i THEN s[k]
                                     ELSE IF k = i THEN e ELSE s[k - 1]
BY InsertAtProperties

-----------------------------------------------------------------------------
(* The operations on form data preserve the shape of a JSON tree.          *)
USE DEF Tree, IsTree, Data

(* Setting a control keeps the shape of the tree.                          *)
LEMMA SetControlTree ==
  ASSUME NEW d \in Tree, NEW c \in Control, NEW v \in Scalar,
         d.value[c] = Absent => ParentIsObject(d, c)
  PROVE  SetControl(d, c, v) \in Tree /\ SetControl(d, c, v).items = d.items
<1>1. d.value[c] # Absent => ParentIsObject(d, c)
  BY DEF ParentIsObject
<1>2. ParentIsObject(d, c)
  BY <1>1
<1>3. SetControl(d, c, v) \in Data
  BY DEF SetControl
<1> QED
  BY <1>2, <1>3, FormDataAssumption
  DEF SetControl, ParentIsObject, FormDataAssumption

(* So does taking its value away,                                          *)
LEMMA TakeControlTree ==
  ASSUME NEW d \in Tree, NEW c \in Control
  PROVE  TakeControl(d, c) \in Tree /\ TakeControl(d, c).items = d.items
<1>1. TakeControl(d, c) \in Data
  BY DEF TakeControl
<1>2. \A k \in Control :
        TakeControl(d, c).value[k] = Absent
          \/ TakeControl(d, c).value[k] = d.value[k]
  BY DEF TakeControl
<1>3. /\ TakeControl(d, c).group = d.group
      /\ TakeControl(d, c).list = d.list
      /\ TakeControl(d, c).items = d.items
  BY DEF TakeControl
<1> QED
  BY <1>1, <1>2, <1>3, FormDataAssumption DEF FormDataAssumption

(* replacing the fixed object,                                             *)
LEMMA SetGroupTree ==
  ASSUME NEW d \in Tree, NEW g \in Tree, g.group = "object"
  PROVE  SetGroup(d, g) \in Tree /\ SetGroup(d, g).items = g.items
<1>1. SetGroup(d, g) \in Data
  BY DEF SetGroup
<1> QED
  BY <1>1 DEF SetGroup

(* taking the fixed object with all below it,                              *)
LEMMA TakeGroupTree ==
  ASSUME NEW d \in Tree
  PROVE  TakeGroup(d) \in Tree /\ TakeGroup(d).items = <<>>
<1>1. TakeGroup(d) \in Data
  BY EmptySeq DEF TakeGroup
<1> QED
  BY <1>1, FormDataAssumption DEF TakeGroup, FormDataAssumption

(* replacing the list,                                                     *)
LEMMA SetListTree ==
  ASSUME NEW d \in Tree, NEW values \in Seq(Scalar), d.group = "object"
  PROVE  SetList(d, values) \in Tree /\ SetList(d, values).items = values
<1>1. SetList(d, values) \in Data
  BY DEF SetList
<1> QED
  BY <1>1 DEF SetList

(* taking the list,                                                        *)
LEMMA TakeListTree ==
  ASSUME NEW d \in Tree
  PROVE  TakeList(d) \in Tree /\ TakeList(d).items = <<>>
<1>1. TakeList(d) \in Data
  BY EmptySeq DEF TakeList
<1> QED
  BY <1>1 DEF TakeList

(* and changing the values of a list that is there.                        *)
LEMMA ItemsTree ==
  ASSUME NEW d \in Tree, NEW values \in Seq(Scalar), d.list = "array"
  PROVE  /\ [d EXCEPT !.items = values] \in Tree
         /\ [d EXCEPT !.items = values].items = values
<1>1. [d EXCEPT !.items = values] \in Data
  OBVIOUS
<1> QED
  BY <1>1

-----------------------------------------------------------------------------
HIDE DEF Tree, IsTree, Data

(* Item states with pairwise distinct identities below n.                  *)
Distinct(s, n) ==
  /\ s \in Seq(ItemState)
  /\ \A i, j \in 1..Len(s) : s[i].identity = s[j].identity => i = j
  /\ \A i \in 1..Len(s) : s[i].identity \in 1..n - 1

(* A control state stays one: the initial one is,                          *)
LEMMA UntouchedType == Untouched \in ControlState
BY DEF Untouched, ControlState

(* and so is one whose edit state is cleared,                              *)
LEMMA ClearEditStateType ==
  ASSUME NEW s \in ControlState
  PROVE  ClearEditState(s) \in ControlState
BY DEF ControlState, ClearEditState

(* whose edit buffer a submission finalizes,                               *)
LEMMA FinalizeEditBufferType ==
  ASSUME NEW s \in ControlState
  PROVE  FinalizeEditBuffer(s) \in ControlState
BY DEF ControlState, FinalizeEditBuffer

(* which loses the focus,                                                  *)
LEMMA BlurredType ==
  ASSUME NEW s \in ControlState
  PROVE  [FinalizeEditBuffer(s) EXCEPT !.touched = TRUE] \in ControlState
<1>1. FinalizeEditBuffer(s) \in ControlState
  BY FinalizeEditBufferType
<1> QED
  BY <1>1 DEF ControlState

(* or into which text is typed.                                            *)
LEMMA TypedType ==
  ASSUME NEW s \in ControlState, NEW text \in Text
  PROVE  Typed(s, text) \in ControlState
BY DEF ControlState, Typed

(* Items numbered from the next identity on are distinct.                  *)
LEMMA FreshDistinct ==
  ASSUME NEW k \in Nat, NEW n \in Nat, n >= 1,
         NEW s, s = [i \in 1..k |-> [identity |-> n + i - 1,
                                     control  |-> Untouched]]
  PROVE  Distinct(s, n + k) /\ Len(s) = k
<1>1. \A i \in 1..k : /\ n + i - 1 \in 1..n + k - 1
                      /\ [identity |-> n + i - 1, control |-> Untouched]
                           \in ItemState
  BY UntouchedType DEF ItemState
<1>2. s \in [1..k -> ItemState]
  BY <1>1
<1>3. s \in Seq(ItemState) /\ Len(s) = k
  BY <1>2, FunctionIsSequence
<1>4. \A i \in 1..k : s[i].identity = n + i - 1
  OBVIOUS
<1>5. ASSUME NEW i \in 1..k, NEW j \in 1..k, s[i].identity = s[j].identity
      PROVE  i = j
  BY <1>4, <1>5
<1> QED
  <2>1. \A i \in 1..Len(s) : s[i].identity \in 1..(n + k) - 1
    BY <1>1, <1>3, <1>4
  <2>2. \A i, j \in 1..Len(s) : s[i].identity = s[j].identity => i = j
    BY <1>3, <1>5
  <2> HIDE DEF Distinct
  <2> QED
    BY <1>3, <2>1, <2>2 DEF Distinct

(* Inserting an item with the next identity keeps them distinct.           *)
LEMMA InsertDistinct ==
  ASSUME NEW s, NEW n \in Nat, n >= 1, Distinct(s, n), NEW i \in 1..Len(s) + 1,
         NEW e \in ItemState, e.identity = n
  PROVE  /\ Distinct(InsertAt(s, i, e), n + 1)
         /\ Len(InsertAt(s, i, e)) = Len(s) + 1
<1> DEFINE t == InsertAt(s, i, e)
<1>1. /\ t \in Seq(ItemState) /\ Len(t) = Len(s) + 1
      /\ \A k \in 1..Len(s) + 1 :
           t[k] = IF k < i THEN s[k] ELSE IF k = i THEN e ELSE s[k - 1]
  <2>1. s \in Seq(ItemState)
    BY DEF Distinct
  <2>2. i \in 1..Len(s) + 1 /\ e \in ItemState
    OBVIOUS
  <2>3. /\ InsertAt(s, i, e) \in Seq(ItemState)
        /\ Len(InsertAt(s, i, e)) = Len(s) + 1
        /\ \A k \in 1..Len(s) + 1 :
             InsertAt(s, i, e)[k] = IF k < i THEN s[k]
                                    ELSE IF k = i THEN e ELSE s[k - 1]
    BY <2>1, <2>2, ItemInsertion, ZenonT(60)
  <2> QED
    BY <2>3
<1>2. /\ Len(s) \in Nat
      /\ \A k \in 1..Len(s) : s[k].identity \in 1..n - 1
      /\ \A j, k \in 1..Len(s) : s[j].identity = s[k].identity => j = k
  BY LenProperties DEF Distinct
<1> HIDE DEF t
(* from: where the element at k was, 0 for the inserted one.               *)
<1> DEFINE from(k) == IF k < i THEN k ELSE IF k = i THEN 0 ELSE k - 1
<1>3. ASSUME NEW k \in 1..Len(t)
      PROVE  \/ k = i /\ t[k].identity = n
             \/ /\ k # i /\ from(k) \in 1..Len(s)
                /\ t[k].identity = s[from(k)].identity
                /\ t[k].identity \in 1..n - 1
  BY <1>1, <1>2
<1>4. ASSUME NEW j \in 1..Len(t), NEW k \in 1..Len(t),
             t[j].identity = t[k].identity
      PROVE  j = k
  <2>1. CASE j = i \/ k = i
    BY <1>3, <1>4, <2>1
  <2>2. CASE j # i /\ k # i
    <3>1. from(j) = from(k)
      BY <1>2, <1>3, <1>4, <2>2
    <3> QED
      BY <1>1, <1>2, <2>2, <3>1
  <2> QED
    BY <2>1, <2>2
<1> QED
  BY <1>1, <1>3, <1>4 DEF Distinct, t

(* Removing an item keeps the others distinct.                             *)
LEMMA RemoveDistinct ==
  ASSUME NEW s, NEW n \in Nat, Distinct(s, n), NEW i \in 1..Len(s)
  PROVE  /\ Distinct(RemoveAt(s, i), n)
         /\ Len(RemoveAt(s, i)) = Len(s) - 1
<1> DEFINE t == RemoveAt(s, i)
<1>1. /\ t \in Seq(ItemState) /\ Len(t) = Len(s) - 1
      /\ \A k \in 1..Len(s) - 1 : t[k] = IF k < i THEN s[k] ELSE s[k + 1]
  BY RemoveAtProperties DEF Distinct
<1>2. Len(s) \in Nat
  BY LenProperties DEF Distinct
<1> HIDE DEF t
<1>3. ASSUME NEW j \in 1..Len(t), NEW k \in 1..Len(t),
             t[j].identity = t[k].identity
      PROVE  j = k
  BY <1>1, <1>2, <1>3, SMTT(30) DEF Distinct
<1>4. ASSUME NEW k \in 1..Len(t) PROVE t[k].identity \in 1..n - 1
  <2>1. \A j \in 1..Len(s) : s[j].identity \in 1..n - 1
    BY DEF Distinct
  <2>2. CASE k < i
    BY <1>1, <1>2, <2>1, <2>2
  <2>3. CASE ~(k < i)
    BY <1>1, <1>2, <2>1, <2>3
  <2> QED
    BY <2>2, <2>3
<1> QED
  BY <1>1, <1>3, <1>4 DEF Distinct, t

(* Swapping two items keeps them distinct.                                 *)
LEMMA SwapDistinct ==
  ASSUME NEW s, NEW n \in Nat, Distinct(s, n),
         NEW i \in 1..Len(s), NEW j \in 1..Len(s)
  PROVE  Distinct(Swap(s, i, j), n) /\ Len(Swap(s, i, j)) = Len(s)
<1> DEFINE t == Swap(s, i, j)
<1>1. /\ t \in Seq(ItemState) /\ Len(t) = Len(s)
      /\ \A k \in 1..Len(s) :
           t[k] = IF k = j THEN s[i] ELSE IF k = i THEN s[j] ELSE s[k]
  BY SwapProperties DEF Distinct, Swap
<1> HIDE DEF t
<1> QED
  BY <1>1 DEF Distinct, t

(* Changing the control of items leaves their identities alone.            *)
LEMMA ControlsDistinct ==
  ASSUME NEW s, NEW n \in Nat, Distinct(s, n), NEW t \in Seq(ItemState),
         Len(t) = Len(s),
         \A k \in 1..Len(s) : t[k].identity = s[k].identity
  PROVE  Distinct(t, n)
BY DEF Distinct

(* A selection of positions in ascending order selects distinct items.     *)
LEMMA SelectDistinct ==
  ASSUME NEW s, NEW n \in Nat, Distinct(s, n), NEW k \in Nat,
         NEW p \in [1..k -> 1..Len(s)],
         \A i, j \in 1..k : i < j => p[i] < p[j]
  PROVE  /\ Distinct([i \in 1..k |-> s[p[i]]], n)
         /\ Len([i \in 1..k |-> s[p[i]]]) = k
<1> DEFINE t == [i \in 1..k |-> s[p[i]]]
<1>1. /\ t \in Seq(ItemState) /\ Len(t) = k
      /\ \A i \in 1..k : t[i] = s[p[i]]
  <2>1. s \in Seq(ItemState)
    BY DEF Distinct
  <2>2. \A i \in 1..k : s[p[i]] \in ItemState
    BY <2>1, ElementOfSeq
  <2>3. t \in [1..k -> ItemState]
    BY <2>2
  <2> QED
    BY <2>3, FunctionIsSequence
<1>2. ASSUME NEW i \in 1..k, NEW j \in 1..k, p[i] = p[j] PROVE i = j
  <2>1. p[i] \in Nat /\ p[j] \in Nat
    BY LenProperties DEF Distinct
  <2> QED
    BY <1>2, <2>1
<1> HIDE DEF t
<1>3. ASSUME NEW i \in 1..k, NEW j \in 1..k, t[i].identity = t[j].identity
      PROVE  i = j
  <2>1. s[p[i]].identity = s[p[j]].identity
    BY <1>1, <1>3
  <2>2. p[i] \in 1..Len(s) /\ p[j] \in 1..Len(s)
    OBVIOUS
  <2>3. \A a, b \in 1..Len(s) : s[a].identity = s[b].identity => a = b
    BY DEF Distinct
  <2>4. p[i] = p[j]
    BY <2>1, <2>2, <2>3
  <2> QED
    BY <1>2, <2>4
<1>4. \A i \in 1..k : t[i].identity \in 1..n - 1
  BY <1>1 DEF Distinct
<1> QED
  BY <1>1, <1>3, <1>4 DEF Distinct, t

(* The number of fresh items before a position grows with the position,    *)
(* by one at each fresh item.                                              *)
LEMMA FreshBeforeGrows ==
  ASSUME NEW t \in Seq(Nat), NEW i \in 1..Len(t) + 1, NEW j \in i..Len(t) + 1
  PROVE  /\ FreshBefore(t, i) \in Nat
         /\ FreshBefore(t, i) <= FreshBefore(t, j)
         /\ i < j /\ t[i] = Fresh => FreshBefore(t, i) + 1 <= FreshBefore(t, j)
<1> DEFINE Before(k) == {l \in 1..k - 1 : t[l] = Fresh}
<1>1. Len(t) \in Nat
  BY LenProperties
<1>2. IsFiniteSet(1..i - 1) /\ IsFiniteSet(1..j - 1)
  <2>1. 1 \in Int /\ i - 1 \in Int /\ j - 1 \in Int
    BY <1>1
  <2> QED
    BY <2>1, FS_Interval
<1>3. IsFiniteSet(Before(i)) /\ IsFiniteSet(Before(j))
  <2>1. Before(i) \in SUBSET (1..i - 1) /\ Before(j) \in SUBSET (1..j - 1)
    OBVIOUS
  <2> QED
    BY <1>2, <2>1, FS_Subset
<1>4. Before(i) \in SUBSET Before(j)
  BY <1>1
<1>5. Cardinality(Before(i)) \in Nat /\ Cardinality(Before(j)) \in Nat
  BY <1>3, FS_CardinalityType
<1>6. Cardinality(Before(i)) <= Cardinality(Before(j))
  BY <1>3, <1>4, FS_Subset
<1>7. ASSUME i < j, t[i] = Fresh
      PROVE  Cardinality(Before(i)) + 1 <= Cardinality(Before(j))
  <2>1. i \in Before(j) /\ i \notin Before(i)
    BY <1>1, <1>7
  <2>2. Cardinality(Before(i)) # Cardinality(Before(j))
    <3>1. Before(i) # Before(j)
      BY <2>1
    <3> HIDE DEF Before
    <3> QED
      BY <1>3, <1>4, <3>1, FS_Subset
  <2> HIDE DEF Before
  <2> QED
    BY <1>5, <1>6, <2>2
<1> QED
  BY <1>5, <1>6, <1>7 DEF FreshBefore

(* The items a host transaction keeps and adds are distinct: kept ones     *)
(* because a valid topology names an item at most once, fresh ones because *)
(* they are numbered from the next identity on.                            *)
LEMMA PreservedDistinct ==
  ASSUME NEW n \in Nat, n = nextItemIdentity, n >= 1, Distinct(items, n),
         NEW t \in Seq(Nat), NEW d, ValidTopology(d, t), NEW w
  PROVE  /\ Distinct(PreservedItems(t, w), n + FreshBefore(t, Len(t) + 1))
         /\ Len(PreservedItems(t, w)) = Len(t)
         /\ FreshBefore(t, Len(t) + 1) \in Nat
<1> DEFINE s == PreservedItems(t, w)
           m == n + FreshBefore(t, Len(t) + 1)
<1>1. Len(t) \in Nat /\ Len(items) \in Nat /\ items \in Seq(ItemState)
  BY LenProperties DEF Distinct
<1>2. FreshBefore(t, Len(t) + 1) \in Nat
  BY <1>1, FreshBeforeGrows
<1>3. ASSUME NEW i \in 1..Len(t), t[i] = Fresh
      PROVE  /\ FreshBefore(t, i) \in Nat
             /\ FreshBefore(t, i) + 1 <= FreshBefore(t, Len(t) + 1)
  BY <1>1, <1>3, FreshBeforeGrows
<1>4. ASSUME NEW i \in 1..Len(t), t[i] # Fresh
      PROVE  /\ ItemOf(t[i]) \in ItemState
             /\ ItemOf(t[i]).identity = t[i]
             /\ t[i] \in 1..n - 1
  <2>1. \E j \in 1..Len(items) : items[j].identity = t[i]
    BY <1>4 DEF ValidTopology
  <2>2. PICK j \in 1..Len(items) :
          ItemOf(t[i]) = items[j] /\ items[j].identity = t[i]
    BY <2>1 DEF ItemOf
  <2> QED
    BY <1>1, <2>2, ElementOfSeq DEF Distinct
<1>5. ASSUME NEW i \in 1..Len(t), t[i] # Fresh
      PROVE  /\ Rewritten(ItemOf(t[i]), w) \in ItemState
             /\ Rewritten(ItemOf(t[i]), w).identity = t[i]
  BY <1>4, <1>5, ClearEditStateType DEF Rewritten, ItemState
<1>6. ASSUME NEW i \in 1..Len(t), t[i] = Fresh
      PROVE  [identity |-> nextItemIdentity + FreshBefore(t, i),
              control  |-> Untouched] \in ItemState
  BY <1>3, <1>6, UntouchedType DEF ItemState
<1>7. s \in [1..Len(t) -> ItemState]
  BY <1>5, <1>6 DEF PreservedItems
<1>8. s \in Seq(ItemState) /\ Len(s) = Len(t)
  BY <1>1, <1>7, FunctionIsSequence
<1>9. ASSUME NEW i \in 1..Len(t)
      PROVE  /\ t[i] = Fresh => s[i].identity = n + FreshBefore(t, i)
             /\ t[i] # Fresh => s[i].identity = t[i]
  BY <1>5 DEF PreservedItems
<1>10. \A i \in 1..Len(t) : s[i].identity \in 1..m - 1
  <2> TAKE i \in 1..Len(t)
  <2>1. CASE t[i] = Fresh
    BY <1>2, <1>3, <1>9, <2>1
  <2>2. CASE t[i] # Fresh
    BY <1>2, <1>4, <1>9, <2>2
  <2> QED
    BY <2>1, <2>2
<1>11. ASSUME NEW i \in 1..Len(t), NEW j \in 1..Len(t),
              s[i].identity = s[j].identity
       PROVE  i = j
  <2> HIDE DEF s
  <2>1. CASE t[i] # Fresh /\ t[j] # Fresh
    <3>1. t[i] = t[j]
      BY <1>9, <1>11, <2>1
    <3> QED
      BY <2>1, <3>1 DEF ValidTopology
  <2>2. CASE t[i] = Fresh /\ t[j] # Fresh
    BY <1>3, <1>4, <1>9, <1>11, <2>2, SMTT(30)
  <2>3. CASE t[i] # Fresh /\ t[j] = Fresh
    BY <1>3, <1>4, <1>9, <1>11, <2>3
  <2>4. CASE t[i] = Fresh /\ t[j] = Fresh
    <3>1. /\ FreshBefore(t, i) = FreshBefore(t, j)
          /\ FreshBefore(t, i) \in Nat
      BY <1>3, <1>9, <1>11, <2>4
    <3>2. ~(i < j)
      <4>1. ASSUME i < j
            PROVE  FreshBefore(t, i) + 1 <= FreshBefore(t, j)
        <5>1. i \in 1..Len(t) + 1 /\ j \in i..Len(t) + 1
          BY <1>1, <4>1
        <5> QED
          BY <2>4, <4>1, <5>1, FreshBeforeGrows
      <4> QED
        BY <3>1, <4>1
    <3>3. ~(j < i)
      <4>1. ASSUME j < i
            PROVE  FreshBefore(t, j) + 1 <= FreshBefore(t, i)
        <5>1. j \in 1..Len(t) + 1 /\ i \in j..Len(t) + 1
          BY <1>1, <4>1
        <5> QED
          BY <2>4, <4>1, <5>1, FreshBeforeGrows
      <4> QED
        BY <3>1, <4>1
    <3> QED
      BY <1>1, <3>2, <3>3
  <2> QED
    BY <2>1, <2>2, <2>3, <2>4
<1> HIDE DEF s
<1> QED
  BY <1>2, <1>8, <1>10, <1>11 DEF Distinct, s

-----------------------------------------------------------------------------
(* The inductive invariant: the type, the agreement of the item states     *)
(* with the data, the distinctness of identities, and that identities are  *)
(* allocated from 1 on.                                                    *)
IInv ==
  /\ TypeOK
  /\ TopologyMatchesData
  /\ IdentitiesDistinct
  /\ nextItemIdentity >= 1

(* A new form satisfies the invariant.                                     *)
LEMMA InitInvariant == Init => IInv
<1> SUFFICES ASSUME Init PROVE IInv
  OBVIOUS
<1>1. formData \in Tree
  BY FormEngineAssumption DEF Init, FormEngineAssumption
<1>2. Count(formData) \in Nat
  BY <1>1, LenProperties DEF Count, Tree, Data
<1>3. /\ Distinct(items, nextItemIdentity)
      /\ Len(items) = Count(formData)
  <2>1. items = [i \in 1..Count(formData) |-> [identity |-> 1 + i - 1,
                                               control  |-> Untouched]]
    BY <1>2 DEF Init
  <2> QED
    BY <1>2, <2>1, FreshDistinct DEF Init
<1>4. /\ baselineIdentities \in Seq(Nat)
      /\ Len(baselineIdentities) = Count(formData)
  <2>1. baselineIdentities \in [1..Count(formData) -> Nat]
    BY <1>2 DEF Init
  <2> QED
    BY <1>2, <2>1, FunctionIsSequence
<1>5. controls \in [Control -> ControlState]
  BY UntouchedType DEF Init
<1>6. TypeOK
  <2>1. items \in Seq(ItemState)
    BY <1>3 DEF Distinct
  <2>2. /\ baseline \in Tree /\ nextItemIdentity \in Nat
        /\ dataRevision \in Nat /\ stateRevision \in Nat
    BY <1>1, <1>2 DEF Init
  <2>3. arrayTouched \in BOOLEAN /\ submissionAttempted \in BOOLEAN
    BY DEF Init
  <2> QED
    BY <1>1, <1>4, <1>5, <2>1, <2>2, <2>3 DEF TypeOK
<1>7. TopologyMatchesData
  BY <1>3, <1>4 DEF Init, TopologyMatchesData
<1>8. IdentitiesDistinct
  BY <1>2, <1>3, <1>4 DEF Init, IdentitiesDistinct, Distinct
<1> QED
  BY <1>2, <1>6, <1>7, <1>8 DEF Init, IInv

(* What the invariant gives to a step, ...                                 *)
LEMMA InvariantFacts ==
  ASSUME IInv
  PROVE  /\ formData \in Tree /\ baseline \in Tree
         /\ controls \in [Control -> ControlState]
         /\ Distinct(items, nextItemIdentity)
         /\ Len(items) \in Nat /\ Len(items) = Count(formData)
         /\ items \in Seq(ItemState) /\ formData.items \in Seq(Scalar)
         /\ Len(formData.items) = Len(items)
         /\ Len(items) > 0 => formData.list = "array"
         /\ nextItemIdentity \in Nat /\ nextItemIdentity >= 1
         /\ arrayTouched \in BOOLEAN /\ submissionAttempted \in BOOLEAN
         /\ dataRevision \in Nat /\ stateRevision \in Nat
<1>1. TypeOK /\ TopologyMatchesData /\ IdentitiesDistinct
  BY DEF IInv
<1>2. Distinct(items, nextItemIdentity)
  BY <1>1 DEF Distinct, TypeOK, IdentitiesDistinct
<1>3. Len(items) \in Nat
  BY <1>1, LenProperties DEF TypeOK
<1>4. formData.items \in Seq(Scalar)
  BY <1>1 DEF TypeOK, Tree, Data
<1>5. Len(items) > 0 => formData.list = "array"
  <2>1. formData.list # "array" => Len(formData.items) = 0
    BY <1>1, EmptySeq DEF TypeOK, Tree, IsTree
  <2> QED
    BY <1>1, <2>1 DEF TopologyMatchesData, Count
<1> QED
  BY <1>1, <1>2, <1>3, <1>4, <1>5
  DEF IInv, TypeOK, TopologyMatchesData, Count

(* ... and what a step that leaves the baseline alone must show.           *)
LEMMA StepPreserves ==
  ASSUME IInv,
         UNCHANGED <<baseline, baselineIdentities>>,
         formData' \in Tree,
         controls' \in [Control -> ControlState],
         Distinct(items', nextItemIdentity'),
         Len(items') = Count(formData'),
         nextItemIdentity' \in Nat, nextItemIdentity' >= nextItemIdentity,
         arrayTouched' \in BOOLEAN, submissionAttempted' \in BOOLEAN,
         dataRevision' \in Nat, stateRevision' \in Nat
  PROVE  IInv'
<1>1. /\ baseline \in Tree /\ baselineIdentities \in Seq(Nat)
      /\ nextItemIdentity \in Nat
  BY DEF IInv, TypeOK
<1>2. TypeOK'
  BY <1>1 DEF TypeOK, Distinct
<1>3. TopologyMatchesData'
  BY DEF IInv, TopologyMatchesData, Count
<1>4. IdentitiesDistinct'
  <2>1. \A i \in 1..Len(baselineIdentities) :
          baselineIdentities[i] \in 1..nextItemIdentity' - 1
    BY <1>1 DEF IInv, IdentitiesDistinct
  <2> QED
    BY <2>1 DEF IInv, IdentitiesDistinct, Distinct
<1>5. nextItemIdentity' >= 1
  BY <1>1 DEF IInv
<1> QED
  BY <1>2, <1>3, <1>4, <1>5 DEF IInv

(* Reconciling the list with new data gives every item a fresh identity.   *)
LEMMA ReconcilePreserves ==
  ASSUME IInv, NEW d \in Tree, ReconcileArrays(d)
  PROVE  /\ Distinct(items', nextItemIdentity')
         /\ Len(items') = Count(d)
         /\ nextItemIdentity' \in Nat /\ nextItemIdentity' >= nextItemIdentity
<1>1. Count(d) \in Nat
  BY LenProperties DEF Count, Tree, Data
<1>2. /\ items' = [i \in 1..Count(d) |->
                     [identity |-> nextItemIdentity + i - 1,
                      control  |-> Untouched]]
      /\ nextItemIdentity' = nextItemIdentity + Count(d)
  BY DEF ReconcileArrays, FreshItems
<1>3. nextItemIdentity \in Nat /\ nextItemIdentity >= 1
  BY InvariantFacts
<1>4. /\ Distinct(items', nextItemIdentity + Count(d))
      /\ Len(items') = Count(d)
  BY <1>1, <1>2, <1>3, FreshDistinct
<1> QED
  BY <1>1, <1>2, <1>3, <1>4

-----------------------------------------------------------------------------
(* Every operation preserves the invariant.                                *)
LEMMA EditTextPreserves ==
  ASSUME IInv, NEW c \in Control, NEW text \in Text, EditText(c, text)
  PROVE  IInv'
<1> USE InvariantFacts
<1>1. formData' \in Tree /\ formData'.items = formData.items
  <2>1. CASE Replaces(text, formData.value[c])
    <3>1. Parse[text] \in Scalar
      BY <2>1, FormEngineAssumption
      DEF Replaces, FormEngineAssumption, Scalar
    <3>2. formData' = SetControl(formData, c, Parse[text])
      BY <2>1 DEF EditText
    <3>3. formData.value[c] = Absent => ParentIsObject(formData, c)
      BY DEF EditText, TakesText
    <3> QED
      BY <3>1, <3>2, <3>3, SetControlTree
  <2>2. CASE ~Replaces(text, formData.value[c])
    BY <2>2 DEF EditText
  <2> QED
    BY <2>1, <2>2
<1>2. controls' \in [Control -> ControlState]
  BY TypedType DEF EditText
<1>3. dataRevision' \in Nat /\ stateRevision' \in Nat
  BY DEF EditText, AdvanceRevisions
<1>4. UNCHANGED <<baseline, topologyVars, arrayTouched, submissionAttempted>>
  BY DEF EditText
<1> QED
  BY <1>1, <1>2, <1>3, <1>4, StepPreserves DEF topologyVars, Count

(* Assigning a value to a control.                                         *)
LEMMA SetValuePreserves ==
  ASSUME IInv, NEW c \in Control, NEW v \in Value \cup {Null}, SetValue(c, v)
  PROVE  IInv'
<1> USE InvariantFacts
<1>1. CASE formData.value[c] = v
  BY <1>1 DEF SetValue, IInv, vars, TypeOK, TopologyMatchesData,
              IdentitiesDistinct, Count
<1>2. CASE formData.value[c] # v
  <2>1. formData' \in Tree /\ formData'.items = formData.items
    BY <1>2, SetControlTree DEF SetValue, Scalar
  <2>2. controls' \in [Control -> ControlState]
    BY <1>2, ClearEditStateType DEF SetValue
  <2>3. dataRevision' \in Nat /\ stateRevision' \in Nat
    BY <1>2 DEF SetValue, AdvanceRevisions
  <2>4. UNCHANGED <<baseline, topologyVars, arrayTouched, submissionAttempted>>
    BY <1>2 DEF SetValue
  <2> QED
    BY <2>1, <2>2, <2>3, <2>4, StepPreserves DEF topologyVars, Count
<1> QED
  BY <1>1, <1>2

(* Removing the value of a control.                                        *)
LEMMA RemoveControlValuePreserves ==
  ASSUME IInv, NEW c \in Control, RemoveControlValue(c)
  PROVE  IInv'
<1> USE InvariantFacts
<1>1. formData' \in Tree /\ formData'.items = formData.items
  BY TakeControlTree DEF RemoveControlValue
<1>2. controls' \in [Control -> ControlState]
  BY ClearEditStateType DEF RemoveControlValue
<1>3. dataRevision' \in Nat /\ stateRevision' \in Nat
  BY DEF RemoveControlValue, AdvanceRevisions
<1>4. UNCHANGED <<baseline, topologyVars, arrayTouched, submissionAttempted>>
  BY DEF RemoveControlValue
<1> QED
  BY <1>1, <1>2, <1>3, <1>4, StepPreserves DEF topologyVars, Count

(* Leaving a control: data stays, its edit buffer is finalized.            *)
LEMMA BlurPreserves ==
  ASSUME IInv, NEW c \in Control, Blur(c)
  PROVE  IInv'
<1> USE InvariantFacts
<1>1. controls' \in [Control -> ControlState]
  <2>1. [FinalizeEditBuffer(controls[c]) EXCEPT !.touched = TRUE]
          \in ControlState
    BY BlurredType
  <2> QED
    BY <2>1 DEF Blur
<1>2. dataRevision' \in Nat /\ stateRevision' \in Nat
  BY DEF Blur, AdvanceRevisions
<1>3. UNCHANGED <<formData, baseline, topologyVars, arrayTouched,
                  submissionAttempted>>
  BY DEF Blur
<1> QED
  BY <1>1, <1>2, <1>3, StepPreserves DEF topologyVars, Count

(* Edits of one item: its value, and the control of its item state.        *)
LEMMA ItemControlDistinct ==
  ASSUME NEW s, NEW n \in Nat, Distinct(s, n), NEW i \in 1..Len(s),
         NEW k \in ControlState
  PROVE  /\ Distinct([s EXCEPT ![i].control = k], n)
         /\ Len([s EXCEPT ![i].control = k]) = Len(s)
<1> DEFINE e == [s[i] EXCEPT !.control = k]
           t == [s EXCEPT ![i] = e]
<1>1. s \in Seq(ItemState)
  BY DEF Distinct
<1>2. e \in ItemState /\ e.identity = s[i].identity
  <2>1. s[i] \in ItemState
    BY <1>1, ElementOfSeq
  <2> QED
    BY <2>1 DEF ItemState
<1> HIDE DEF e
<1>3. /\ t \in Seq(ItemState) /\ Len(t) = Len(s)
      /\ \A j \in 1..Len(s) : t[j] = IF j = i THEN e ELSE s[j]
  BY <1>1, <1>2, ExceptSeq
<1>4. [s EXCEPT ![i].control = k] = t
  BY DEF e
<1> HIDE DEF t
<1>5. \A j \in 1..Len(s) : t[j].identity = s[j].identity
  BY <1>2, <1>3
<1> QED
  BY <1>3, <1>4, <1>5, ControlsDistinct

(* The control of an item of the list is a control state.                  *)
LEMMA ItemControlType ==
  ASSUME IInv, NEW i \in 1..Len(items)
  PROVE  items[i] \in ItemState /\ items[i].control \in ControlState
<1>1. items \in Seq(ItemState)
  BY InvariantFacts
<1>2. items[i] \in ItemState
  BY <1>1, ElementOfSeq
<1> QED
  BY <1>2 DEF ItemState

(* The whole step on the item states that changes one control.             *)
LEMMA ItemControlStep ==
  ASSUME IInv, NEW i \in 1..Len(items), NEW k \in ControlState,
         items' = [items EXCEPT ![i].control = k]
  PROVE  Distinct(items', nextItemIdentity) /\ Len(items') = Len(items)
<1>1. nextItemIdentity \in Nat /\ Distinct(items, nextItemIdentity)
  BY InvariantFacts
<1>2. /\ Distinct([items EXCEPT ![i].control = k], nextItemIdentity)
      /\ Len([items EXCEPT ![i].control = k]) = Len(items)
  BY <1>1, ItemControlDistinct
<1> QED
  BY <1>2

(* Replacing the value of one item keeps the tree.                         *)
LEMMA ItemValueTree ==
  ASSUME NEW d \in Tree, NEW i \in 1..Len(d.items), NEW v \in Scalar,
         d.list = "array"
  PROVE  /\ [d EXCEPT !.items[i] = v] \in Tree
         /\ Count([d EXCEPT !.items[i] = v]) = Count(d)
<1> DEFINE values == [d.items EXCEPT ![i] = v]
<1>1. d.items \in Seq(Scalar)
  BY DEF Tree, Data
<1>2. values \in Seq(Scalar) /\ Len(values) = Len(d.items)
  BY <1>1, ExceptSeq
<1>3. [d EXCEPT !.items[i] = v] = [d EXCEPT !.items = values]
  OBVIOUS
<1> HIDE DEF values
<1> QED
  BY <1>2, <1>3, ItemsTree DEF Count

(* Typing into an item.                                                    *)
LEMMA EditItemTextPreserves ==
  ASSUME IInv, NEW i \in 1..Len(items), NEW text \in Text, EditItemText(i, text)
  PROVE  IInv'
<1> USE InvariantFacts
<1>1. formData' \in Tree /\ Count(formData') = Count(formData)
  <2>1. CASE Replaces(text, formData.items[i])
    <3>1. Parse[text] \in Scalar
      BY <2>1, FormEngineAssumption
      DEF Replaces, FormEngineAssumption, Scalar
    <3>2. formData' = [formData EXCEPT !.items[i] = Parse[text]]
      BY <2>1 DEF EditItemText
    <3> QED
      BY <3>1, <3>2, ItemValueTree
  <2>2. CASE ~Replaces(text, formData.items[i])
    BY <2>2 DEF EditItemText
  <2> QED
    BY <2>1, <2>2
<1>2. Distinct(items', nextItemIdentity) /\ Len(items') = Len(items)
  <2>1. items[i].control \in ControlState
    BY ItemControlType
  <2>2. Typed(items[i].control, text) \in ControlState
    BY <2>1, TypedType
  <2>3. items' = [items EXCEPT ![i].control = Typed(items[i].control, text)]
    BY DEF EditItemText
  <2> QED
    BY <2>2, <2>3, ItemControlStep
<1>3. dataRevision' \in Nat /\ stateRevision' \in Nat
  BY DEF EditItemText, AdvanceRevisions
<1>4. UNCHANGED <<baseline, controls, arrayTouched, baselineIdentities,
                  nextItemIdentity, submissionAttempted>>
  BY DEF EditItemText
<1> QED
  BY <1>1, <1>2, <1>3, <1>4, StepPreserves

(* Assigning a value to an item.                                           *)
LEMMA SetItemValuePreserves ==
  ASSUME IInv, NEW i \in 1..Len(items), NEW v \in Value \cup {Null},
         SetItemValue(i, v)
  PROVE  IInv'
<1> USE InvariantFacts
<1>1. CASE formData.items[i] = v
  BY <1>1 DEF SetItemValue, IInv, vars, TypeOK, TopologyMatchesData,
              IdentitiesDistinct, Count
<1>2. CASE formData.items[i] # v
  <2>1. formData' \in Tree /\ Count(formData') = Count(formData)
    <3>1. v \in Scalar /\ formData' = [formData EXCEPT !.items[i] = v]
      BY <1>2 DEF SetItemValue, Scalar
    <3> QED
      BY <3>1, ItemValueTree
  <2>2. Distinct(items', nextItemIdentity) /\ Len(items') = Len(items)
    <3>1. items[i].control \in ControlState
      BY ItemControlType
    <3>2. ClearEditState(items[i].control) \in ControlState
      BY <3>1, ClearEditStateType
    <3>3. items' = [items EXCEPT
                      ![i].control = ClearEditState(items[i].control)]
      BY <1>2 DEF SetItemValue
    <3> QED
      BY <3>2, <3>3, ItemControlStep
  <2>3. dataRevision' \in Nat /\ stateRevision' \in Nat
    BY <1>2 DEF SetItemValue, AdvanceRevisions
  <2>4. UNCHANGED <<baseline, controls, arrayTouched, baselineIdentities,
                    nextItemIdentity, submissionAttempted>>
    BY <1>2 DEF SetItemValue
  <2> QED
    BY <2>1, <2>2, <2>3, <2>4, StepPreserves
<1> QED
  BY <1>1, <1>2

(* Leaving an item.                                                        *)
LEMMA BlurItemPreserves ==
  ASSUME IInv, NEW i \in 1..Len(items), BlurItem(i)
  PROVE  IInv'
<1> USE InvariantFacts
<1>1. Distinct(items', nextItemIdentity) /\ Len(items') = Len(items)
  <2> DEFINE k == [FinalizeEditBuffer(items[i].control)
                     EXCEPT !.touched = TRUE]
  <2>1. items[i].control \in ControlState
    BY ItemControlType
  <2>2. k \in ControlState
    BY <2>1, BlurredType
  <2>3. items' = [items EXCEPT ![i].control = k]
    BY DEF BlurItem
  <2> HIDE DEF k
  <2> QED
    BY <2>2, <2>3, ItemControlStep
<1>2. dataRevision' \in Nat /\ stateRevision' \in Nat
  BY DEF BlurItem, AdvanceRevisions
<1>3. UNCHANGED <<formData, baseline, controls, arrayTouched,
                  baselineIdentities, nextItemIdentity, submissionAttempted>>
  BY DEF BlurItem
<1> QED
  BY <1>1, <1>2, <1>3, StepPreserves DEF Count

(* Presence operations: the new data is a tree, and the list reconciled.   *)
LEMMA PresencePreserves ==
  ASSUME IInv, formData' \in Tree, ReconcileArrays(formData'),
         controls' = controls \/ ClearGroupedEdits,
         AdvanceRevisions(TRUE, TRUE),
         UNCHANGED <<baseline, arrayTouched, baselineIdentities,
                     submissionAttempted>>
  PROVE  IInv'
<1> USE InvariantFacts
<1>1. controls' \in [Control -> ControlState]
  BY ClearEditStateType DEF ClearGroupedEdits
<1>2. dataRevision' \in Nat /\ stateRevision' \in Nat
  BY DEF AdvanceRevisions
<1>3. /\ Distinct(items', nextItemIdentity')
      /\ Len(items') = Count(formData')
      /\ nextItemIdentity' \in Nat /\ nextItemIdentity' >= nextItemIdentity
  BY ReconcilePreserves
<1> QED
  BY <1>1, <1>2, <1>3, StepPreserves

(* Removing, materializing and replacing the object and the list.          *)
LEMMA ChangePresencePreserves == IInv /\ ChangePresence => IInv'
<1> SUFFICES ASSUME IInv, ChangePresence PROVE IInv'
  OBVIOUS
<1> USE InvariantFacts
<1>1. CASE RemoveGroup
  <2>1. formData' \in Tree
    BY <1>1, TakeGroupTree DEF RemoveGroup
  <2> QED
    BY <1>1, <2>1, PresencePreserves DEF RemoveGroup
<1>2. CASE RemoveList
  <2>1. formData' \in Tree
    BY <1>2, TakeListTree DEF RemoveList
  <2> QED
    BY <1>2, <2>1, PresencePreserves DEF RemoveList
<1>3. CASE MaterializeGroup
  <2>1. formData' \in Tree
    BY <1>3, SetGroupTree, FormEngineAssumption
    DEF MaterializeGroup, FormEngineAssumption
  <2> QED
    BY <1>3, <2>1, PresencePreserves DEF MaterializeGroup
<1>4. CASE MaterializeList
  <2>1. formData' \in Tree
    BY <1>4, SetListTree, FormEngineAssumption
    DEF MaterializeList, ListParentIsObject, FormEngineAssumption
  <2> QED
    BY <1>4, <2>1, PresencePreserves DEF MaterializeList
<1>5. ASSUME NEW g \in HostData, g.group = "object", ReplaceGroup(g)
      PROVE  IInv'
  <2>1. formData' \in Tree
    BY <1>5, SetGroupTree, FormEngineAssumption
    DEF ReplaceGroup, FormEngineAssumption
  <2> QED
    BY <1>5, <2>1, PresencePreserves DEF ReplaceGroup
<1>6. ASSUME NEW g \in HostData, ReplaceList(g.items)
      PROVE  IInv'
  <2>1. formData.group = "object"
    BY <1>6 DEF ReplaceList, Tree, IsTree
  <2>2. g.items \in Seq(Scalar)
    BY FormEngineAssumption DEF FormEngineAssumption, Tree, Data
  <2>3. formData' \in Tree
    BY <1>6, <2>1, <2>2, SetListTree DEF ReplaceList
  <2> QED
    BY <1>6, <2>3, PresencePreserves DEF ReplaceList
<1> QED
  BY <1>1, <1>2, <1>3, <1>4, <1>5, <1>6 DEF ChangePresence

(* Collection operations: the values and the item states are edited alike. *)
LEMMA CollectionPreserves ==
  ASSUME IInv, formData.list = "array", NEW values \in Seq(Scalar),
         formData' = [formData EXCEPT !.items = values],
         Distinct(items', nextItemIdentity'), Len(items') = Len(values),
         nextItemIdentity' \in {nextItemIdentity, nextItemIdentity + 1},
         dataRevision' \in Nat, stateRevision' \in Nat,
         UNCHANGED <<baseline, controls, arrayTouched, baselineIdentities,
                     submissionAttempted>>
  PROVE  IInv'
<1> USE InvariantFacts
<1>1. formData' \in Tree /\ Count(formData') = Len(values)
  BY ItemsTree DEF Count
<1> QED
  BY <1>1, StepPreserves

(* A new item is distinct from those there are.                            *)
LEMMA NewItemDistinct ==
  ASSUME IInv, NEW i \in 1..Len(items) + 1
  PROVE  /\ Distinct(InsertAt(items, i, NewItem), nextItemIdentity + 1)
         /\ Len(InsertAt(items, i, NewItem)) = Len(items) + 1
<1>1. /\ nextItemIdentity \in Nat /\ nextItemIdentity >= 1
      /\ Distinct(items, nextItemIdentity)
  BY InvariantFacts
<1>2. NewItem \in ItemState /\ NewItem.identity = nextItemIdentity
  BY <1>1, UntouchedType DEF NewItem, ItemState
<1> QED
  BY <1>1, <1>2, InsertDistinct

(* The list with one more value is a sequence of values.                   *)
LEMMA NewValueSequence ==
  ASSUME IInv, NEW i \in 1..Len(items) + 1, NEW v \in Scalar
  PROVE  /\ InsertAt(formData.items, i, v) \in Seq(Scalar)
         /\ Len(InsertAt(formData.items, i, v)) = Len(items) + 1
<1>1. /\ formData.items \in Seq(Scalar)
      /\ Len(formData.items) = Len(items)
  BY InvariantFacts
<1>2. i \in 1..Len(formData.items) + 1
  BY <1>1
<1> QED
  BY <1>1, <1>2, InsertAtProperties

(* Inserting an item at any position, the last included.                   *)
LEMMA InsertItemPreserves ==
  ASSUME IInv, NEW i \in 1..Len(items) + 1, InsertItem(i)
  PROVE  IInv'
<1>1. /\ Distinct(items', nextItemIdentity') /\ Len(items') = Len(items) + 1
      /\ nextItemIdentity' = nextItemIdentity + 1
  BY NewItemDistinct DEF InsertItem
<1>2. /\ InsertAt(formData.items, i, ItemSeed) \in Seq(Scalar)
      /\ Len(InsertAt(formData.items, i, ItemSeed)) = Len(items) + 1
  BY NewValueSequence, FormEngineAssumption DEF FormEngineAssumption
<1>3. dataRevision' \in Nat /\ stateRevision' \in Nat
  BY InvariantFacts DEF InsertItem, AdvanceRevisions
<1>4. /\ formData.list = "array"
      /\ formData' = [formData EXCEPT
                        !.items = InsertAt(formData.items, i, ItemSeed)]
      /\ UNCHANGED <<baseline, controls, arrayTouched, baselineIdentities,
                     submissionAttempted>>
  BY DEF InsertItem, CanAppend
<1> QED
  BY <1>1, <1>2, <1>3, <1>4, CollectionPreserves

(* Removing an item.                                                       *)
LEMMA RemoveArrayItemPreserves ==
  ASSUME IInv, NEW i \in 1..Len(items), RemoveArrayItem(i)
  PROVE  IInv'
<1>1. /\ nextItemIdentity \in Nat /\ Distinct(items, nextItemIdentity)
      /\ formData.items \in Seq(Scalar) /\ Len(formData.items) = Len(items)
  BY InvariantFacts
<1>2. /\ Distinct(items', nextItemIdentity') /\ Len(items') = Len(items) - 1
      /\ nextItemIdentity' = nextItemIdentity
  BY <1>1, RemoveDistinct DEF RemoveArrayItem
<1>3. /\ RemoveAt(formData.items, i) \in Seq(Scalar)
      /\ Len(RemoveAt(formData.items, i)) = Len(items) - 1
  BY <1>1, RemoveAtProperties
<1>4. dataRevision' \in Nat /\ stateRevision' \in Nat
  BY InvariantFacts DEF RemoveArrayItem, AdvanceRevisions
<1>5. /\ formData.list = "array"
      /\ formData' = [formData EXCEPT !.items = RemoveAt(formData.items, i)]
      /\ UNCHANGED <<baseline, controls, arrayTouched, baselineIdentities,
                     submissionAttempted>>
  BY DEF RemoveArrayItem, CanRemove
<1> QED
  BY <1>2, <1>3, <1>4, <1>5, CollectionPreserves

(* Moving an item next to its neighbour.                                   *)
LEMMA MoveArrayItemPreserves ==
  ASSUME IInv, NEW i \in 1..Len(items), NEW j, MoveArrayItem(i, j)
  PROVE  IInv'
<1>1. /\ nextItemIdentity \in Nat /\ Distinct(items, nextItemIdentity)
      /\ formData.items \in Seq(Scalar) /\ Len(formData.items) = Len(items)
      /\ Len(items) \in Nat /\ (Len(items) > 0 => formData.list = "array")
  BY InvariantFacts
<1>2. j \in 1..Len(items)
  BY DEF MoveArrayItem
<1>3. /\ Distinct(items', nextItemIdentity') /\ Len(items') = Len(items)
      /\ nextItemIdentity' = nextItemIdentity
  BY <1>1, <1>2, SwapDistinct DEF MoveArrayItem
<1>4. /\ Swap(formData.items, i, j) \in Seq(Scalar)
      /\ Len(Swap(formData.items, i, j)) = Len(items)
  BY <1>1, <1>2, SwapProperties DEF Swap
<1>5. dataRevision' \in Nat /\ stateRevision' \in Nat
  BY InvariantFacts DEF MoveArrayItem, AdvanceRevisions
<1>6. /\ formData.list = "array"
      /\ formData' = [formData EXCEPT !.items = Swap(formData.items, i, j)]
      /\ UNCHANGED <<baseline, controls, arrayTouched, baselineIdentities,
                     submissionAttempted>>
  BY <1>1 DEF MoveArrayItem
<1> QED
  BY <1>3, <1>4, <1>5, <1>6, CollectionPreserves

(* A choice is inserted at a position of the list, or behind it.           *)
LEMMA InsertionPointType ==
  ASSUME NEW values \in Seq(Scalar), NEW k
  PROVE  InsertionPoint(values, k) \in 1..Len(values) + 1
<1> DEFINE later == {i \in 1..Len(values) : OptionPosition(values[i]) > k}
<1>1. Len(values) \in Nat
  BY LenProperties
<1>2. CASE later = {}
  BY <1>1, <1>2 DEF InsertionPoint
<1>3. CASE later # {}
  <2>1. later \in SUBSET Nat /\ later \subseteq 1..Len(values)
    OBVIOUS
  <2>2. \E i \in later : \A j \in later : i <= j
    BY <1>3, <2>1, LeastElement
  <2>3. (CHOOSE i \in later : \A j \in later : i <= j) \in later
    BY <2>2
  <2> QED
    BY <1>1, <1>3, <2>3 DEF InsertionPoint
<1> QED
  BY <1>2, <1>3

(* Including a choice inserts it at its place.                             *)
LEMMA IncludeChoicePreserves ==
  ASSUME IInv, NEW v \in Value, IncludeChoice(v)
  PROVE  IInv'
<1> USE InvariantFacts
<1> DEFINE at == InsertionPoint(formData.items, OptionPosition(v))
           values == InsertAt(formData.items, at, v)
<1>1. at \in 1..Len(items) + 1
  BY InsertionPointType
<1>2. v \in Scalar
  BY DEF Scalar
<1>3. /\ formData' = SetList(formData, values)
      /\ items' = InsertAt(items, at, NewItem)
      /\ nextItemIdentity' = nextItemIdentity + 1
      /\ UNCHANGED <<baseline, controls, arrayTouched, baselineIdentities,
                     submissionAttempted>>
  BY DEF IncludeChoice
<1> HIDE DEF at
<1>4. values \in Seq(Scalar) /\ Len(values) = Len(items) + 1
  BY <1>1, <1>2, NewValueSequence
<1>5. Distinct(items', nextItemIdentity') /\ Len(items') = Len(items) + 1
  BY <1>1, <1>3, NewItemDistinct
<1> HIDE DEF values
<1>6. formData' \in Tree /\ Count(formData') = Len(items')
  <2>1. formData.group = "object"
    BY DEF IncludeChoice, CanToggleChoice, ListParentIsObject, Tree, IsTree
  <2> QED
    BY <1>3, <1>4, <1>5, <2>1, SetListTree DEF Count
<1>7. dataRevision' \in Nat /\ stateRevision' \in Nat
  BY DEF IncludeChoice, AdvanceRevisions
<1> QED
  BY <1>3, <1>5, <1>6, <1>7, StepPreserves

(* Excluding a choice keeps a selection of the items, and their values.    *)
LEMMA ExcludeChoicePreserves ==
  ASSUME IInv, NEW v \in Value, ExcludeChoice(v)
  PROVE  IInv'
<1> DEFINE I == (1..Count(formData)) \ Carrying(v)
           k == Cardinality(I)
<1>1. k \in Nat /\ I \subseteq 1..Len(items)
  <2>1. Len(items) \in Int /\ Len(items) = Count(formData)
    BY InvariantFacts
  <2>2. IsFiniteSet(1..Count(formData))
    BY <2>1, FS_Interval
  <2>3. I \in SUBSET (1..Count(formData))
    OBVIOUS
  <2>4. IsFiniteSet(I)
    BY <2>2, <2>3, FS_Subset
  <2> QED
    BY <2>1, <2>3, <2>4, FS_CardinalityType
<1>2. PICK kept \in Ascending(I) :
        /\ formData' = [formData EXCEPT !.items =
                          [l \in DOMAIN kept |-> formData.items[kept[l]]]]
        /\ items' = [l \in DOMAIN kept |-> items[kept[l]]]
  BY DEF ExcludeChoice
<1>3. /\ kept \in [1..k -> I]
      /\ \A i, j \in 1..k : i < j => kept[i] < kept[j]
  BY DEF Ascending
<1> HIDE DEF I, k
<1>4. DOMAIN kept = 1..k /\ kept \in [1..k -> 1..Len(items)]
  BY <1>1, <1>3
<1>5. /\ Distinct([i \in 1..k |-> items[kept[i]]], nextItemIdentity)
      /\ Len([i \in 1..k |-> items[kept[i]]]) = k
  <2>1. nextItemIdentity \in Nat /\ Distinct(items, nextItemIdentity)
    BY InvariantFacts
  <2>2. \A i, j \in 1..k : i < j => kept[i] < kept[j]
    BY <1>3
  <2> QED
    BY <1>1, <1>4, <2>1, <2>2, SelectDistinct
<1>6. Distinct(items', nextItemIdentity) /\ Len(items') = k
  BY <1>2, <1>4, <1>5
<1> DEFINE values == [l \in DOMAIN kept |-> formData.items[kept[l]]]
<1>7. values \in Seq(Scalar) /\ Len(values) = k
  <2>1. formData.items \in [1..Len(items) -> Scalar]
    BY LenProperties, InvariantFacts
  <2>2. values \in [1..k -> Scalar]
    BY <1>4, <2>1
  <2> QED
    BY <1>1, <2>2, FunctionIsSequence
<1>8. formData.list = "array"
  <2>1. Carrying(v) # {}
    BY DEF ExcludeChoice
  <2>2. Len(items) > 0
    BY <2>1, InvariantFacts DEF Carrying
  <2> QED
    BY <2>2, InvariantFacts
<1>9. /\ dataRevision' \in Nat /\ stateRevision' \in Nat
      /\ nextItemIdentity' = nextItemIdentity
      /\ UNCHANGED <<baseline, controls, arrayTouched, baselineIdentities,
                     submissionAttempted>>
  BY InvariantFacts DEF ExcludeChoice, AdvanceRevisions
<1>10. formData' = [formData EXCEPT !.items = values]
  BY <1>2
<1> HIDE DEF values
<1> QED
  BY <1>6, <1>7, <1>8, <1>9, <1>10, CollectionPreserves

(* Leaving the list changes no data and no item.                           *)
LEMMA BlurArrayPreserves ==
  ASSUME IInv, BlurArray
  PROVE  IInv'
<1> USE InvariantFacts
<1>1. dataRevision' \in Nat /\ stateRevision' \in Nat
  BY DEF BlurArray, AdvanceRevisions
<1> QED
  BY <1>1, StepPreserves DEF BlurArray, topologyVars, Count

(* Every operation of the user preserves the invariant.                    *)
LEMMA UserOperationPreserves == IInv /\ UserOperation => IInv'
<1> SUFFICES ASSUME IInv, UserOperation PROVE IInv'
  OBVIOUS
<1>1. CASE EditControl
  BY <1>1, EditTextPreserves, SetValuePreserves, RemoveControlValuePreserves,
     BlurPreserves DEF EditControl
<1>2. CASE EditItem
  BY <1>2, EditItemTextPreserves, SetItemValuePreserves, BlurItemPreserves
  DEF EditItem
<1>3. CASE ChangePresence
  BY <1>3, ChangePresencePreserves
<1>4. CASE ChangeCollection
  <2>1. CASE AppendArrayItem
    <3>1. Len(items) + 1 \in 1..Len(items) + 1
      BY InvariantFacts
    <3> QED
      BY <2>1, <3>1, InsertItemPreserves DEF AppendArrayItem
  <2>2. ASSUME NEW i \in 1..Len(items), InsertArrayItemBefore(i)
        PROVE  IInv'
    <3>1. i \in 1..Len(items) + 1
      BY InvariantFacts
    <3> QED
      BY <2>2, <3>1, InsertItemPreserves DEF InsertArrayItemBefore
  <2>3. ASSUME NEW i \in 1..Len(items),
               \/ RemoveArrayItem(i)
               \/ MoveArrayItem(i, i - 1)
               \/ MoveArrayItem(i, i + 1)
        PROVE  IInv'
    BY <2>3, RemoveArrayItemPreserves, MoveArrayItemPreserves
  <2> QED
    BY <1>4, <2>1, <2>2, <2>3, IncludeChoicePreserves, ExcludeChoicePreserves,
       BlurArrayPreserves DEF ChangeCollection
<1> QED
  BY <1>1, <1>2, <1>3, <1>4 DEF UserOperation

(* Preparing a submission finalizes edit buffers only.                     *)
LEMMA PrepareSubmissionPreserves ==
  ASSUME IInv, PrepareSubmission
  PROVE  IInv'
<1>1. controls' \in [Control -> ControlState]
  BY FinalizeEditBufferType, InvariantFacts DEF PrepareSubmission
<1> DEFINE finalized(i) == [items[i] EXCEPT !.control = FinalizeEditBuffer(@)]
<1>2. ASSUME NEW i \in 1..Len(items)
      PROVE  /\ finalized(i) \in ItemState
             /\ finalized(i).identity = items[i].identity
  <2>1. items[i] \in ItemState /\ items[i].control \in ControlState
    BY ItemControlType
  <2>2. FinalizeEditBuffer(items[i].control) \in ControlState
    BY <2>1, FinalizeEditBufferType
  <2> QED
    BY <2>1, <2>2 DEF ItemState
<1>3. items' = [i \in 1..Len(items) |-> finalized(i)]
  BY DEF PrepareSubmission
<1> HIDE DEF finalized
<1>4. items' \in Seq(ItemState) /\ Len(items') = Len(items)
  BY <1>2, <1>3, InvariantFacts, FunctionIsSequence
<1>5. Distinct(items', nextItemIdentity)
  <2>1. \A i \in 1..Len(items) : items'[i].identity = items[i].identity
    BY <1>2, <1>3
  <2>2. nextItemIdentity \in Nat /\ Distinct(items, nextItemIdentity)
    BY InvariantFacts
  <2> QED
    BY <1>4, <2>1, <2>2, ControlsDistinct
<1>6. dataRevision' \in Nat /\ stateRevision' \in Nat
  BY InvariantFacts DEF PrepareSubmission, AdvanceRevisions
<1>7. /\ formData \in Tree /\ nextItemIdentity \in Nat
      /\ Len(items) = Count(formData) /\ arrayTouched \in BOOLEAN
  BY InvariantFacts
<1>8. /\ UNCHANGED <<formData, baseline, arrayTouched, baselineIdentities,
                     nextItemIdentity>>
      /\ submissionAttempted' \in BOOLEAN
  BY DEF PrepareSubmission
<1> QED
  BY <1>1, <1>4, <1>5, <1>6, <1>7, <1>8, StepPreserves DEF Count

(* Restoring the baseline restores identities that are still distinct.     *)
LEMMA ResetPreserves ==
  ASSUME IInv, Reset
  PROVE  IInv'
<1>1. controls' \in [Control -> ControlState]
  BY UntouchedType DEF Reset
<1>2. /\ baselineIdentities \in Seq(Nat)
      /\ Len(baselineIdentities) = Count(baseline)
      /\ Len(baselineIdentities) \in Nat
  BY LenProperties DEF IInv, TypeOK, TopologyMatchesData
<1>3. \A i \in 1..Len(baselineIdentities) :
        [identity |-> baselineIdentities[i], control |-> Untouched]
          \in ItemState
  BY <1>2, ElementOfSeq, UntouchedType DEF ItemState
<1>4. items' \in [1..Len(baselineIdentities) -> ItemState]
  BY <1>3 DEF Reset
<1>5. items' \in Seq(ItemState) /\ Len(items') = Len(baselineIdentities)
  BY <1>2, <1>4, FunctionIsSequence
<1>6. \A i \in 1..Len(items') : items'[i].identity = baselineIdentities[i]
  BY <1>5 DEF Reset
<1>7. Distinct(items', nextItemIdentity)
  <2>1. /\ \A i, j \in 1..Len(baselineIdentities) :
             baselineIdentities[i] = baselineIdentities[j] => i = j
        /\ \A i \in 1..Len(baselineIdentities) :
             baselineIdentities[i] \in 1..nextItemIdentity - 1
    BY DEF IInv, IdentitiesDistinct
  <2> QED
    BY <1>5, <1>6, <2>1 DEF Distinct
<1>8. dataRevision' \in Nat /\ stateRevision' \in Nat
  BY InvariantFacts DEF Reset, AdvanceRevisions
<1>9. /\ formData' = baseline /\ baseline \in Tree
      /\ arrayTouched' \in BOOLEAN /\ submissionAttempted' \in BOOLEAN
      /\ nextItemIdentity \in Nat
      /\ UNCHANGED <<baseline, baselineIdentities, nextItemIdentity>>
  BY InvariantFacts DEF Reset
<1>10. Count(formData') = Len(items') /\ nextItemIdentity' >= nextItemIdentity
  BY <1>2, <1>5, <1>9 DEF Count
<1> QED
  BY <1>1, <1>5, <1>7, <1>8, <1>9, <1>10, StepPreserves

(* Reinitializing gives fresh identities, to the baseline as well.         *)
LEMMA ReinitializePreserves ==
  ASSUME IInv, NEW d \in HostData, Reinitialize(d)
  PROVE  IInv'
<1> USE InvariantFacts
<1>1. d \in Tree /\ Count(d) \in Nat
  BY FormEngineAssumption, LenProperties
  DEF FormEngineAssumption, Count, Tree, Data
<1>2. /\ Distinct(items', nextItemIdentity') /\ Len(items') = Count(d)
      /\ nextItemIdentity' = nextItemIdentity + Count(d)
  BY <1>1, ReconcilePreserves DEF Reinitialize, ReconcileArrays
<1>3. \A i \in 1..Count(d) :
        /\ nextItemIdentity + i - 1 \in Nat
        /\ nextItemIdentity + i - 1 \in 1..nextItemIdentity' - 1
  BY <1>1, <1>2
<1>4. baselineIdentities' = [i \in 1..Count(d) |-> nextItemIdentity + i - 1]
  BY DEF Reinitialize
<1>5. /\ baselineIdentities' \in Seq(Nat)
      /\ Len(baselineIdentities') = Count(d)
  <2>1. baselineIdentities' \in [1..Count(d) -> Nat]
    BY <1>3, <1>4
  <2> QED
    BY <1>1, <2>1, FunctionIsSequence
<1>6. TypeOK'
  <2>1. controls' \in [Control -> ControlState]
    BY UntouchedType DEF Reinitialize
  <2>2. dataRevision' \in Nat /\ stateRevision' \in Nat
    BY DEF Reinitialize, AdvanceRevisions
  <2>3. /\ formData' \in Tree /\ baseline' \in Tree
        /\ arrayTouched' \in BOOLEAN /\ submissionAttempted' \in BOOLEAN
    BY <1>1 DEF Reinitialize
  <2> QED
    BY <1>1, <1>2, <1>5, <2>1, <2>2, <2>3 DEF TypeOK, Distinct
<1>7. TopologyMatchesData'
  BY <1>2, <1>5 DEF Reinitialize, TopologyMatchesData, Count
<1>8. IdentitiesDistinct'
  <2>1. \A i, j \in 1..Count(d) :
          baselineIdentities'[i] = baselineIdentities'[j] => i = j
    BY <1>1, <1>3, <1>4
  <2>2. \A i \in 1..Count(d) :
          baselineIdentities'[i] \in 1..nextItemIdentity' - 1
    BY <1>3, <1>4
  <2> QED
    BY <1>2, <1>5, <2>1, <2>2 DEF IdentitiesDistinct, Distinct
<1> QED
  BY <1>1, <1>2, <1>6, <1>7, <1>8 DEF IInv

(* Submission, reset and reinitialization preserve the invariant.          *)
LEMMA LifecyclePreserves == IInv /\ Lifecycle => IInv'
BY PrepareSubmissionPreserves, ResetPreserves, ReinitializePreserves
DEF Lifecycle

(* A host transaction: the list is replaced as a whole, or keeps items.    *)
LEMMA HostStepPreserves ==
  ASSUME IInv, NEW d \in Tree, NEW writes, NEW itemWrites,
         NEW replace \in BOOLEAN, NEW topology \in Seq(Nat),
         ApplyHostTransaction(d, writes, itemWrites, replace, topology)
  PROVE  IInv'
<1>1. /\ Distinct(items', nextItemIdentity') /\ Len(items') = Count(d)
      /\ nextItemIdentity' \in Nat /\ nextItemIdentity' >= nextItemIdentity
  <2>1. CASE replace
    BY <2>1, ReconcilePreserves DEF ApplyHostTransaction
  <2>2. CASE ~replace
    <3>1. /\ nextItemIdentity \in Nat /\ nextItemIdentity >= 1
          /\ Distinct(items, nextItemIdentity)
      BY InvariantFacts
    <3>2. ValidTopology(d, topology) /\ Len(topology) = Count(d)
      BY <2>2 DEF ApplyHostTransaction, ValidTopology
    <3>3. /\ items' = PreservedItems(topology, itemWrites)
          /\ nextItemIdentity' =
               nextItemIdentity + FreshBefore(topology, Len(topology) + 1)
      BY <2>2 DEF ApplyHostTransaction
    <3>4. /\ Distinct(PreservedItems(topology, itemWrites),
                      nextItemIdentity
                        + FreshBefore(topology, Len(topology) + 1))
          /\ Len(PreservedItems(topology, itemWrites)) = Len(topology)
          /\ FreshBefore(topology, Len(topology) + 1) \in Nat
      BY <3>1, <3>2, PreservedDistinct
    <3> QED
      BY <3>1, <3>2, <3>3, <3>4
  <2> QED
    BY <2>1, <2>2
<1>2. controls' \in [Control -> ControlState]
  BY InvariantFacts, ClearEditStateType DEF ApplyHostTransaction
<1>3. dataRevision' \in Nat /\ stateRevision' \in Nat
  BY InvariantFacts DEF ApplyHostTransaction, AdvanceRevisions
<1>4. /\ arrayTouched' \in BOOLEAN /\ submissionAttempted' \in BOOLEAN
      /\ UNCHANGED <<baseline, baselineIdentities>>
      /\ formData' = d
  BY InvariantFacts DEF ApplyHostTransaction
<1> QED
  BY <1>1, <1>2, <1>3, <1>4, StepPreserves

(* A topology is a sequence of naturals.                                   *)
LEMMA TopologyIsSequence ==
  ASSUME IInv, NEW d \in HostData, NEW topology \in Topologies(Count(d))
  PROVE  topology \in Seq(Nat)
<1>1. Count(d) \in Nat
  BY FormEngineAssumption, LenProperties
  DEF FormEngineAssumption, Count, Tree, Data
<1>2. \A i \in 1..Len(items) : items[i].identity \in Nat
  BY ItemControlType DEF ItemState
<1>3. topology \in [1..Count(d) -> Nat]
  BY <1>2 DEF Topologies, Fresh
<1> QED
  BY <1>1, <1>3, FunctionIsSequence

(* A host transaction preserves the invariant.                             *)
LEMMA HostTransactionPreserves == IInv /\ HostTransaction => IInv'
<1> SUFFICES ASSUME IInv, HostTransaction PROVE IInv'
  OBVIOUS
<1>1. PICK d \in HostData, writes \in WriteSets,
           itemWrites \in SUBSET {items[i].identity : i \in 1..Len(items)} :
        \/ ApplyHostTransaction(d, writes, itemWrites, TRUE, <<>>)
        \/ \E topology \in Topologies(Count(d)) :
             ApplyHostTransaction(d, writes, itemWrites, FALSE, topology)
  BY DEF HostTransaction
<1>2. <<>> \in Seq(Nat) /\ d \in Tree
  BY EmptySeq, FormEngineAssumption DEF FormEngineAssumption
<1> QED
  BY <1>1, <1>2, TopologyIsSequence, HostStepPreserves

-----------------------------------------------------------------------------
(* The revisions.                                                          *)
(* Exchanging equal values of the list leaves the data as it is.           *)
LEMMA SwapEqualValues ==
  ASSUME IInv, NEW i \in 1..Len(items), NEW j \in 1..Len(items),
         formData.items[i] = formData.items[j]
  PROVE  [formData EXCEPT !.items = Swap(@, i, j)] = formData
<1>1. formData.items \in Seq(Scalar) /\ formData \in Tree
  BY InvariantFacts DEF Tree, Data
<1>2. Swap(formData.items, i, j) = formData.items
  BY <1>1 DEF Swap
<1> QED
  BY <1>1, <1>2 DEF Tree, Data

(* Every operation of the user advances the revisions as it should.        *)
LEMMA UserOperationRevises == IInv /\ UserOperation => RevisionStep
<1> SUFFICES ASSUME IInv, UserOperation PROVE RevisionStep
  OBVIOUS
<1>1. dataRevision \in Nat /\ stateRevision \in Nat
  BY DEF IInv, TypeOK
<1>2. /\ dataRevision' = dataRevision + 1 => dataRevision' # dataRevision
      /\ stateRevision' = stateRevision + 1 => stateRevision' # stateRevision
      /\ dataRevision + 0 = dataRevision /\ stateRevision + 0 = stateRevision
  BY <1>1
<1>3. ASSUME AdvanceRevisions(TRUE, TRUE)
      PROVE  RevisionStep
  BY <1>2, <1>3 DEF AdvanceRevisions, RevisionStep
<1>4. CASE UNCHANGED vars
  BY <1>4 DEF vars, topologyVars, observable, RevisionStep
<1>5. CASE EditControl
  <2>1. PICK c \in Control :
          \/ \E text \in Text : EditText(c, text)
          \/ \E v \in Value \cup {Null} : SetValue(c, v)
          \/ RemoveControlValue(c)
          \/ Blur(c)
    BY <1>5 DEF EditControl
  <2>2. ASSUME NEW text \in Text, EditText(c, text)
        PROVE  RevisionStep
    BY <1>2, <2>2
    DEF EditText, AdvanceRevisions, topologyVars, observable, RevisionStep
  <2>3. ASSUME NEW v \in Value \cup {Null}, SetValue(c, v)
        PROVE  RevisionStep
    BY <1>3, <1>4, <2>3 DEF SetValue
  <2>4. CASE RemoveControlValue(c)
    BY <1>3, <2>4 DEF RemoveControlValue
  <2>5. CASE Blur(c)
    BY <1>2, <2>5
    DEF Blur, AdvanceRevisions, topologyVars, observable, RevisionStep
  <2> QED
    BY <2>1, <2>2, <2>3, <2>4, <2>5
<1>6. CASE EditItem
  <2>1. PICK i \in 1..Len(items) :
          \/ \E text \in Text : EditItemText(i, text)
          \/ \E v \in Value \cup {Null} : SetItemValue(i, v)
          \/ BlurItem(i)
    BY <1>6 DEF EditItem
  <2>2. ASSUME NEW text \in Text, EditItemText(i, text)
        PROVE  RevisionStep
    BY <1>2, <2>2
    DEF EditItemText, AdvanceRevisions, observable, RevisionStep
  <2>3. ASSUME NEW v \in Value \cup {Null}, SetItemValue(i, v)
        PROVE  RevisionStep
    BY <1>3, <1>4, <2>3 DEF SetItemValue
  <2>4. CASE BlurItem(i)
    BY <1>2, <2>4 DEF BlurItem, AdvanceRevisions, observable, RevisionStep
  <2> QED
    BY <2>1, <2>2, <2>3, <2>4
<1>7. CASE ChangePresence
  BY <1>3, <1>7
  DEF ChangePresence, RemoveGroup, RemoveList, MaterializeGroup,
      MaterializeList, ReplaceGroup, ReplaceList
<1>8. CASE ChangeCollection
  <2>1. CASE AppendArrayItem
    BY <1>3, <2>1 DEF AppendArrayItem, InsertItem
  <2>2. ASSUME NEW i \in 1..Len(items), InsertArrayItemBefore(i)
        PROVE  RevisionStep
    BY <1>3, <2>2 DEF InsertArrayItemBefore, InsertItem
  <2>3. ASSUME NEW i \in 1..Len(items), RemoveArrayItem(i)
        PROVE  RevisionStep
    BY <1>3, <2>3 DEF RemoveArrayItem
  <2>4. ASSUME NEW i \in 1..Len(items), NEW j, MoveArrayItem(i, j)
        PROVE  RevisionStep
    BY <1>2, <2>4, SwapEqualValues
    DEF MoveArrayItem, AdvanceRevisions, RevisionStep
  <2>5. ASSUME NEW v \in Value, IncludeChoice(v) \/ ExcludeChoice(v)
        PROVE  RevisionStep
    BY <1>3, <2>5 DEF IncludeChoice, ExcludeChoice
  <2>6. CASE BlurArray
    <3>1. arrayTouched \in BOOLEAN
      BY DEF IInv, TypeOK
    <3> QED
      BY <1>2, <2>6, <3>1
      DEF BlurArray, AdvanceRevisions, topologyVars, observable, RevisionStep
  <2> QED
    BY <1>8, <2>1, <2>2, <2>3, <2>4, <2>5, <2>6 DEF ChangeCollection
<1> QED
  BY <1>5, <1>6, <1>7, <1>8 DEF UserOperation

(* So does every other call a host makes.                                  *)
LEMMA LifecycleRevises == IInv /\ Lifecycle => RevisionStep
<1> SUFFICES ASSUME IInv, Lifecycle PROVE RevisionStep
  OBVIOUS
<1>1. dataRevision \in Nat /\ stateRevision \in Nat
  BY DEF IInv, TypeOK
<1>2. /\ dataRevision' = dataRevision + 1 => dataRevision' # dataRevision
      /\ stateRevision' = stateRevision + 1 => stateRevision' # stateRevision
      /\ dataRevision + 0 = dataRevision /\ stateRevision + 0 = stateRevision
      /\ arrayTouched \in BOOLEAN /\ submissionAttempted \in BOOLEAN
  BY <1>1 DEF IInv, TypeOK
<1>3. CASE PrepareSubmission
  BY <1>2, <1>3
  DEF PrepareSubmission, AdvanceRevisions, observable, RevisionStep
<1>4. CASE Reset
  BY <1>2, <1>4 DEF Reset, AdvanceRevisions, observable, RevisionStep
<1>5. ASSUME NEW d \in HostData, Reinitialize(d)
      PROVE  RevisionStep
  BY <1>2, <1>5 DEF Reinitialize, AdvanceRevisions, RevisionStep
<1> QED
  BY <1>3, <1>4, <1>5 DEF Lifecycle

(* A topology that names the items as they are, none of whose edit states  *)
(* the writes change, keeps the item states.                               *)
LEMMA SameTopologyKeepsItems ==
  ASSUME IInv, NEW itemWrites,
         \A i \in 1..Len(items) : Rewritten(items[i], itemWrites) = items[i]
  PROVE  PreservedItems(Identities, itemWrites) = items
<1>1. /\ items \in Seq(ItemState) /\ Len(items) \in Nat
      /\ Identities = [i \in 1..Len(items) |-> items[i].identity]
      /\ Len(Identities) = Len(items)
  BY InvariantFacts DEF Distinct, Identities
<1>2. ASSUME NEW i \in 1..Len(items)
      PROVE  /\ Identities[i] = items[i].identity /\ Identities[i] # Fresh
             /\ ItemOf(Identities[i]) = items[i]
  <2>1. Identities[i] = items[i].identity /\ items[i].identity # Fresh
    <3>1. nextItemIdentity \in Nat
      BY DEF IInv, TypeOK
    <3> QED
      BY <1>1, <3>1 DEF IInv, IdentitiesDistinct, Fresh
  <2>2. \A j \in 1..Len(items) :
          items[j].identity = items[i].identity => j = i
    BY DEF IInv, IdentitiesDistinct
  <2> QED
    BY <2>1, <2>2 DEF ItemOf
<1>3. PreservedItems(Identities, itemWrites)
        = [i \in 1..Len(items) |-> items[i]]
  BY <1>1, <1>2 DEF PreservedItems
<1> QED
  BY <1>1, <1>3

(* A host transaction advances the revisions as it should.                 *)
LEMMA HostStepRevises ==
  ASSUME IInv, NEW d, NEW writes, NEW itemWrites,
         NEW replace \in BOOLEAN, NEW topology,
         ApplyHostTransaction(d, writes, itemWrites, replace, topology)
  PROVE  RevisionStep
<1> DEFINE changed == \/ formData # d
                      \/ replace \/ Identities # topology
                      \/ controls' # controls
                      \/ \E i \in 1..Len(items) :
                           Rewritten(items[i], itemWrites) # items[i]
<1>1. dataRevision \in Nat /\ stateRevision \in Nat
  BY DEF IInv, TypeOK
<1>2. /\ formData' = d /\ AdvanceRevisions(formData # d, changed)
      /\ UNCHANGED <<baseline, arrayTouched, submissionAttempted>>
  BY DEF ApplyHostTransaction
<1>3. ~changed => items' = items
  BY SameTopologyKeepsItems DEF ApplyHostTransaction
<1>4. ~changed => UNCHANGED observable
  BY <1>1, <1>2, <1>3 DEF AdvanceRevisions, observable
<1>5. /\ dataRevision' = dataRevision + (IF formData # d THEN 1 ELSE 0)
      /\ stateRevision' = stateRevision + (IF changed THEN 1 ELSE 0)
  BY <1>2 DEF AdvanceRevisions
<1> HIDE DEF changed
<1> QED
  BY <1>1, <1>2, <1>4, <1>5 DEF RevisionStep

(* Every step advances the revisions as it should.                         *)
LEMMA StepRevises == IInv /\ [Next]_vars => [RevisionStep]_vars
<1> SUFFICES ASSUME IInv, Next PROVE RevisionStep
  OBVIOUS
<1>1. HostTransaction => RevisionStep
  BY HostStepRevises DEF HostTransaction
<1> QED
  BY <1>1, UserOperationRevises, LifecycleRevises DEF Next

-----------------------------------------------------------------------------
(* Every step preserves the inductive invariant.                           *)
LEMMA NextPreserves == IInv /\ [Next]_vars => IInv'
<1> SUFFICES ASSUME IInv, [Next]_vars PROVE IInv'
  OBVIOUS
<1>1. CASE Next
  BY <1>1, UserOperationPreserves, LifecyclePreserves,
     HostTransactionPreserves DEF Next
<1>2. CASE UNCHANGED vars
  BY <1>2 DEF IInv, vars, TypeOK, TopologyMatchesData, IdentitiesDistinct,
              Count
<1> QED
  BY <1>1, <1>2

(* The inductive invariant holds of every behaviour.                       *)
THEOREM Invariant == Spec => []IInv
BY InitInvariant, NextPreserves, PTL DEF Spec

(* Type correctness: whatever the caller does, the form data is a JSON     *)
(* tree of the definition's shape and every edit state is well formed.     *)
THEOREM TypeCorrect == Spec => []TypeOK
<1>1. IInv => TypeOK
  BY DEF IInv
<1> QED
  BY <1>1, Invariant, PTL

(* The list has one item state per value after any sequence of calls, so   *)
(* resolving an item by the position of its identity never misses.         *)
THEOREM TopologyAgreement == Spec => []TopologyMatchesData
<1>1. IInv => TopologyMatchesData
  BY DEF IInv
<1> QED
  BY <1>1, Invariant, PTL

(* No two items of the list, and no two items of the baseline, ever share  *)
(* an identity, and identities yet to be allocated are unused.             *)
THEOREM IdentityUniqueness == Spec => []IdentitiesDistinct
<1>1. IInv => IdentitiesDistinct
  BY DEF IInv
<1> QED
  BY <1>1, Invariant, PTL

(* Whatever the caller does, each revision advances by at most one, and by *)
(* one when what it stands for changed: equal revisions mean equal forms.  *)
THEOREM RevisionsFaithful == Spec => RevisionsTellChanges
BY Invariant, StepRevises, PTL DEF Spec, RevisionsTellChanges
-----------------------------------------------------------------------------
(***************************************************************************)
(* Where the items of a list come from, and that the text being edited     *)
(* belongs to the value it stands over.                                    *)
(***************************************************************************)

(* What a step that keeps the items it keeps whole does: each item after   *)
(* it is new, or was there, with the same value.                           *)
New(item) == item.identity >= nextItemIdentity /\ item.control = Untouched

Carried ==
  \A i \in 1..Len(items') :
    \/ New(items'[i])
    \/ \E j \in 1..Len(items) : /\ items'[i] = items[j]
                                /\ formData'.items[i] = formData.items[j]

(* What every other step but a reset does: an item that was there has its  *)
(* identity still, and text that goes with its value.                      *)
ItemsFollowed ==
  \A i \in 1..Len(items') :
    \/ New(items'[i])
    \/ /\ \E j \in 1..Len(items) : items'[i].identity = items[j].identity
       /\ DescribesValue(items'[i].control, ItemTemplate,
                         formData'.items[i], TRUE)

ControlsDescribed ==
  \A c \in Control : DescribesValue(controls[c], c, formData.value[c],
                                    ParentIsObject(formData, c))
ItemsDescribed ==
  \A i \in 1..Len(items) :
    DescribesValue(items[i].control, ItemTemplate, formData.items[i], TRUE)
-----------------------------------------------------------------------------
(* The text of one control.  Where there is none, none is out of place;    *)
LEMMA NoTextDescribes ==
  ASSUME NEW s, s.buffer = NoText, s.blocked = FALSE, NEW c, NEW v, NEW p
  PROVE  DescribesValue(s, c, v, p)
BY DEF DescribesValue

LEMMA UntouchedDescribes ==
  ASSUME NEW c, NEW v, NEW p
  PROVE  DescribesValue(Untouched, c, v, p)
BY NoTextDescribes DEF Untouched

(* such as where it was cleared.                                           *)
LEMMA ClearedDescribes ==
  ASSUME NEW s \in ControlState, NEW c, NEW v, NEW p
  PROVE  DescribesValue(ClearEditState(s), c, v, p)
<1>1. ClearEditState(s).buffer = NoText /\ ClearEditState(s).blocked = FALSE
  BY DEF ClearEditState, ControlState
<1> QED
  BY <1>1, NoTextDescribes

(* Text that is finalized goes with the value, or is gone.                 *)
LEMMA FinalizedDescribes ==
  ASSUME NEW s \in ControlState, NEW c, NEW v, NEW p, DescribesValue(s, c, v, p)
  PROVE  /\ DescribesValue(FinalizeEditBuffer(s), c, v, p)
         /\ DescribesValue([FinalizeEditBuffer(s) EXCEPT !.touched = TRUE],
                           c, v, p)
<1>1. CASE s.blocked
  BY <1>1 DEF FinalizeEditBuffer, DescribesValue, ControlState
<1>2. CASE ~s.blocked
  <2>1. /\ FinalizeEditBuffer(s).buffer = NoText
        /\ FinalizeEditBuffer(s).blocked = FALSE
        /\ [FinalizeEditBuffer(s) EXCEPT !.touched = TRUE].buffer = NoText
        /\ [FinalizeEditBuffer(s) EXCEPT !.touched = TRUE].blocked = FALSE
    BY <1>2 DEF FinalizeEditBuffer, ControlState
  <2> QED
    BY <2>1, NoTextDescribes
<1> QED
  BY <1>1, <1>2

(* Typed text goes with the value it leaves.                               *)
LEMMA TypedDescribes ==
  ASSUME NEW s \in ControlState, NEW text \in Text, NEW c, NEW v, NEW p,
         TakesText(c, v, p)
  PROVE  DescribesValue(Typed(s, text), c,
                        IF Replaces(text, v) THEN Parse[text] ELSE v, p)
<1>1. /\ Typed(s, text).buffer = text
      /\ Typed(s, text).blocked = (Parse[text] = Unparsable)
  BY DEF Typed, ControlState
<1>2. text # NoText
  BY FormEngineAssumption DEF FormEngineAssumption
<1>3. CASE Parse[text] = Unparsable
  <2>1. ~Replaces(text, v)
    BY <1>3 DEF Replaces
  <2> QED
    BY <1>1, <1>2, <1>3, <2>1 DEF DescribesValue
<1>4. CASE Parse[text] # Unparsable
  <2>1. (IF Replaces(text, v) THEN Parse[text] ELSE v) = Parse[text]
    BY <1>4 DEF Replaces
  <2> QED
    BY <1>1, <1>4, <2>1 DEF DescribesValue
<1> QED
  BY <1>3, <1>4

(* No text stands where there is neither a value nor an object to put one. *)
LEMMA NothingEdited ==
  ASSUME NEW s \in ControlState, NEW c, DescribesValue(s, c, Absent, FALSE)
  PROVE  s.buffer = NoText /\ s.blocked = FALSE
<1>1. s.buffer \in Text => Parse[s.buffer] # Absent
  BY FormEngineAssumption, FormDataAssumption
  DEF FormEngineAssumption, FormDataAssumption
<1>2. ~TakesText(c, Absent, FALSE)
  BY DEF TakesText
<1> QED
  BY <1>1, <1>2 DEF DescribesValue, ControlState
-----------------------------------------------------------------------------
(* What is carried is followed.                                            *)
LEMMA CarriedIsFollowed ==
  ASSUME ItemsDescribed, Carried PROVE ItemsFollowed
BY DEF ItemsDescribed, Carried, ItemsFollowed

(* Items that are followed are described.                                  *)
LEMMA FollowedIsDescribed ==
  ASSUME ItemsFollowed PROVE ItemsDescribed'
BY UntouchedDescribes DEF ItemsFollowed, New, ItemsDescribed

(* A reconciled list has new items only.                                   *)
LEMMA ReconcileCarries ==
  ASSUME IInv, NEW d \in Tree, ReconcileArrays(d)
  PROVE  Carried
<1>1. /\ Count(d) \in Nat /\ nextItemIdentity \in Nat
  BY InvariantFacts, LenProperties DEF Count, Tree, Data
<1>2. Len(items') = Count(d)
  BY ReconcilePreserves
<1>3. \A i \in 1..Count(d) : New(items'[i])
  BY <1>1 DEF ReconcileArrays, FreshItems, New
<1> QED
  BY <1>2, <1>3 DEF Carried

(* Neither do items change with what is not in the list.                   *)
LEMMA SameItemsCarried ==
  ASSUME items' = items, formData'.items = formData.items PROVE Carried
BY DEF Carried
-----------------------------------------------------------------------------
(* The operations on a collection carry their items.                       *)
LEMMA InsertionCarries ==
  ASSUME IInv, NEW at \in 1..Len(items) + 1, NEW v \in Scalar,
         items' = InsertAt(items, at, NewItem),
         formData'.items = InsertAt(formData.items, at, v)
  PROVE  Carried
<1>0. /\ items \in Seq(ItemState) /\ formData.items \in Seq(Scalar)
      /\ Len(items) \in Nat /\ Len(formData.items) = Len(items)
      /\ nextItemIdentity \in Nat
  BY InvariantFacts
<1>1. NewItem \in ItemState /\ New(NewItem)
  BY <1>0, UntouchedType DEF NewItem, ItemState, New
<1>2. /\ Len(items') = Len(items) + 1
      /\ \A k \in 1..Len(items) + 1 :
           items'[k] = IF k < at THEN items[k]
                       ELSE IF k = at THEN NewItem ELSE items[k - 1]
  BY <1>0, <1>1, ItemInsertion
<1>3. \A k \in 1..Len(items) + 1 :
        formData'.items[k] = IF k < at THEN formData.items[k]
                             ELSE IF k = at THEN v ELSE formData.items[k - 1]
  <2> DEFINE s == formData.items
  <2>1. /\ at \in 1..Len(s) + 1 /\ s \in Seq(Scalar) /\ Len(s) = Len(items)
        /\ formData'.items = InsertAt(s, at, v)
    BY <1>0
  <2> HIDE DEF s
  <2>2. \A k \in 1..Len(s) + 1 :
          InsertAt(s, at, v)[k] = IF k < at THEN s[k]
                                  ELSE IF k = at THEN v ELSE s[k - 1]
    BY <2>1, InsertAtProperties
  <2> QED
    BY <2>1, <2>2 DEF s
<1>4. ASSUME NEW i \in 1..Len(items')
      PROVE  \/ New(items'[i])
             \/ \E j \in 1..Len(items) :
                  /\ items'[i] = items[j]
                  /\ formData'.items[i] = formData.items[j]
  <2>1. i \in 1..Len(items) + 1
    BY <1>2
  <2>2. CASE i < at
    BY <1>0, <1>2, <1>3, <2>1, <2>2
  <2>3. CASE i = at
    BY <1>1, <1>2, <2>1, <2>3
  <2>4. CASE i > at
    <3>1. /\ i - 1 \in 1..Len(items)
          /\ items'[i] = items[i - 1]
          /\ formData'.items[i] = formData.items[i - 1]
      BY <1>0, <1>2, <1>3, <2>1, <2>4
    <3> QED
      BY <3>1
  <2> QED
    BY <2>1, <2>2, <2>3, <2>4
<1> QED
  BY <1>4 DEF Carried

LEMMA InsertItemCarries ==
  ASSUME IInv, NEW i \in 1..Len(items) + 1, InsertItem(i)
  PROVE  Carried
<1>1. formData'.items = InsertAt(formData.items, i, ItemSeed)
  BY InvariantFacts DEF InsertItem
<1>2. items' = InsertAt(items, i, NewItem) /\ ItemSeed \in Scalar
  BY FormEngineAssumption DEF InsertItem, FormEngineAssumption
<1> QED
  BY <1>1, <1>2, InsertionCarries

LEMMA RemoveArrayItemCarries ==
  ASSUME IInv, NEW i \in 1..Len(items), RemoveArrayItem(i)
  PROVE  Carried
<1> USE InvariantFacts
<1>1. formData'.items = RemoveAt(formData.items, i)
  BY DEF RemoveArrayItem
<1>2. items' = RemoveAt(items, i)
  BY DEF RemoveArrayItem
<1>3. /\ Len(items') = Len(items) - 1
      /\ \A k \in 1..Len(items) - 1 :
           items'[k] = IF k < i THEN items[k] ELSE items[k + 1]
  BY <1>2, RemoveAtProperties
<1>4. \A k \in 1..Len(items) - 1 :
        formData'.items[k] = IF k < i THEN formData.items[k]
                             ELSE formData.items[k + 1]
  <2>1. i \in 1..Len(formData.items)
    OBVIOUS
  <2> QED
    BY <1>1, <2>1, RemoveAtProperties
<1>5. ASSUME NEW k \in 1..Len(items')
      PROVE  \E j \in 1..Len(items) :
               items'[k] = items[j] /\ formData'.items[k] = formData.items[j]
  <2>1. k \in 1..Len(items) - 1
    BY <1>3
  <2>2. CASE k < i
    BY <1>3, <1>4, <2>1, <2>2
  <2>3. CASE ~(k < i)
    <3>1. /\ k + 1 \in 1..Len(items)
          /\ items'[k] = items[k + 1]
          /\ formData'.items[k] = formData.items[k + 1]
      BY <1>3, <1>4, <2>1, <2>3
    <3> QED
      BY <3>1
  <2> QED
    BY <2>2, <2>3
<1> QED
  BY <1>5 DEF Carried

LEMMA MoveArrayItemCarries ==
  ASSUME IInv, NEW i \in 1..Len(items), NEW j, MoveArrayItem(i, j)
  PROVE  Carried
<1> USE InvariantFacts
<1>1. j \in 1..Len(items)
  BY DEF MoveArrayItem
<1>2. formData'.items = Swap(formData.items, i, j) /\ items' = Swap(items, i, j)
  BY DEF MoveArrayItem
<1>3. /\ Len(items') = Len(items)
      /\ \A k \in 1..Len(items) :
           items'[k] = IF k = j THEN items[i] ELSE IF k = i THEN items[j]
                       ELSE items[k]
  BY <1>1, <1>2, SwapProperties DEF Swap
<1>4. \A k \in 1..Len(items) :
        formData'.items[k] = IF k = j THEN formData.items[i]
                             ELSE IF k = i THEN formData.items[j]
                             ELSE formData.items[k]
  <2>1. i \in 1..Len(formData.items) /\ j \in 1..Len(formData.items)
    BY <1>1
  <2> QED
    BY <1>2, <2>1, SwapProperties DEF Swap
<1> QED
  BY <1>1, <1>3, <1>4 DEF Carried

LEMMA IncludeChoiceCarries ==
  ASSUME IInv, NEW v \in Value, IncludeChoice(v)
  PROVE  Carried
<1> DEFINE at == InsertionPoint(formData.items, OptionPosition(v))
<1>1. at \in 1..Len(items) + 1
  BY InvariantFacts, InsertionPointType
<1>2. /\ formData' = SetList(formData, InsertAt(formData.items, at, v))
      /\ items' = InsertAt(items, at, NewItem)
  BY DEF IncludeChoice
<1> HIDE DEF at
<1>3. formData'.items = InsertAt(formData.items, at, v)
  BY <1>2, InvariantFacts DEF SetList
<1> QED
  BY <1>1, <1>2, <1>3, InsertionCarries DEF Scalar

(* The items kept are a selection, and so are their values.                *)
LEMMA ExcludeChoiceCarries ==
  ASSUME IInv, NEW v \in Value, ExcludeChoice(v)
  PROVE  Carried
<1> DEFINE I == (1..Count(formData)) \ Carrying(v)
<1>1. PICK kept \in Ascending(I) :
        /\ formData' = [formData EXCEPT !.items =
                          [l \in DOMAIN kept |-> formData.items[kept[l]]]]
        /\ items' = [l \in DOMAIN kept |-> items[kept[l]]]
  BY DEF ExcludeChoice
<1>2. kept \in [1..Cardinality(I) -> I]
  BY DEF Ascending
<1>3. I \subseteq 1..Len(items) /\ Cardinality(I) \in Nat
  <2>1. Len(items) \in Int /\ Len(items) = Count(formData)
    BY InvariantFacts
  <2>2. IsFiniteSet(1..Count(formData))
    BY <2>1, FS_Interval
  <2>3. I \in SUBSET (1..Count(formData))
    OBVIOUS
  <2> QED
    BY <2>1, <2>2, <2>3, FS_Subset, FS_CardinalityType
<1> HIDE DEF I
<1>4. DOMAIN kept = 1..Cardinality(I) /\ \A l \in DOMAIN kept : kept[l] \in 1..Len(items)
  BY <1>2, <1>3
<1>5. Len(items') = Cardinality(I)
  BY <1>1, <1>3, <1>4
<1>6. formData'.items = [l \in DOMAIN kept |-> formData.items[kept[l]]]
  BY <1>1, InvariantFacts
<1>7. \A l \in 1..Len(items') : /\ kept[l] \in 1..Len(items)
                                /\ items'[l] = items[kept[l]]
                                /\ formData'.items[l] = formData.items[kept[l]]
  BY <1>1, <1>4, <1>5, <1>6
<1> QED
  BY <1>7 DEF Carried

LEMMA CollectionCarries == IInv /\ ChangeCollection => Carried
<1> SUFFICES ASSUME IInv, ChangeCollection PROVE Carried
  OBVIOUS
<1>1. CASE AppendArrayItem
  <2>1. Len(items) + 1 \in 1..Len(items) + 1
    BY InvariantFacts
  <2> QED
    BY <1>1, <2>1, InsertItemCarries DEF AppendArrayItem
<1>2. ASSUME NEW i \in 1..Len(items), InsertArrayItemBefore(i) PROVE Carried
  <2>1. i \in 1..Len(items) + 1
    BY InvariantFacts
  <2> QED
    BY <1>2, <2>1, InsertItemCarries DEF InsertArrayItemBefore
<1>3. CASE BlurArray
  BY <1>3, SameItemsCarried DEF BlurArray, topologyVars
<1> QED
  BY <1>1, <1>2, <1>3, RemoveArrayItemCarries, MoveArrayItemCarries,
     IncludeChoiceCarries, ExcludeChoiceCarries DEF ChangeCollection
-----------------------------------------------------------------------------
(* Editing one item follows all.                                           *)
LEMMA OneItemFollows ==
  ASSUME IInv, ItemsDescribed, NEW i \in 1..Len(items), NEW k \in ControlState,
         items' = [items EXCEPT ![i].control = k],
         DescribesValue(k, ItemTemplate, formData'.items[i], TRUE),
         \A j \in 1..Len(items) : j # i => formData'.items[j] = formData.items[j]
  PROVE  ItemsFollowed
<1>1. items \in Seq(ItemState)
  BY InvariantFacts
<1>2. Len(items') = Len(items)
  BY ItemControlStep
<1>3. DOMAIN items = 1..Len(items)
  BY <1>1
<1>4. items[i] \in ItemState
  BY ItemControlType
<1>5. items'[i].identity = items[i].identity /\ items'[i].control = k
  BY <1>3, <1>4 DEF ItemState
<1>6. \A j \in 1..Len(items) : j # i => items'[j] = items[j]
  BY <1>3
<1> QED
  BY <1>2, <1>5, <1>6 DEF ItemsFollowed, ItemsDescribed

LEMMA EditItemTextFollows ==
  ASSUME IInv, ItemsDescribed, NEW i \in 1..Len(items), NEW text \in Text,
         EditItemText(i, text)
  PROVE  ItemsFollowed
<1> DEFINE s == items[i].control
           v == formData.items[i]
           w == IF Replaces(text, v) THEN Parse[text] ELSE v
<1>1. /\ formData.items \in Seq(Scalar) /\ Len(formData.items) = Len(items)
      /\ formData \in Data
  BY InvariantFacts DEF Tree
<1>2. s \in ControlState /\ Typed(s, text) \in ControlState
  BY ItemControlType, TypedType
<1>3. DescribesValue(Typed(s, text), ItemTemplate, w, TRUE)
  BY <1>2, TypedDescribes DEF EditItemText
<1>4. items' = [items EXCEPT ![i].control = Typed(s, text)]
  BY DEF EditItemText
<1>5. DOMAIN formData.items = 1..Len(items)
  BY <1>1
<1>6. formData'.items = IF Replaces(text, v)
                        THEN [formData.items EXCEPT ![i] = Parse[text]]
                        ELSE formData.items
  BY <1>1 DEF EditItemText
<1>7. /\ formData'.items[i] = w
      /\ \A j \in 1..Len(items) : j # i => formData'.items[j] = formData.items[j]
  BY <1>5, <1>6
<1> HIDE DEF s, v, w
<1> QED
  BY <1>2, <1>3, <1>4, <1>7, OneItemFollows

LEMMA SetItemValueFollows ==
  ASSUME IInv, ItemsDescribed, NEW i \in 1..Len(items), NEW v, SetItemValue(i, v)
  PROVE  ItemsFollowed
<1> DEFINE s == items[i].control
<1>1. /\ formData.items \in Seq(Scalar) /\ Len(formData.items) = Len(items)
      /\ formData \in Data
  BY InvariantFacts DEF Tree
<1>2. CASE formData.items[i] = v
  BY <1>2, SameItemsCarried, CarriedIsFollowed DEF SetItemValue, vars
<1>3. CASE formData.items[i] # v
  <2>1. s \in ControlState /\ ClearEditState(s) \in ControlState
    BY ItemControlType, ClearEditStateType
  <2>2. formData'.items = [formData.items EXCEPT ![i] = v]
    <3>1. formData' = [formData EXCEPT !.items[i] = v]
      BY <1>3 DEF SetItemValue
    <3> QED
      BY <1>1, <3>1 DEF Data
  <2>3. \A j \in 1..Len(items) : j # i => formData'.items[j] = formData.items[j]
    BY <1>1, <2>2
  <2>4. items' = [items EXCEPT ![i].control = ClearEditState(s)]
    BY <1>3 DEF SetItemValue
  <2>5. DescribesValue(ClearEditState(s), ItemTemplate, formData'.items[i], TRUE)
    BY <2>1, ClearedDescribes
  <2> HIDE DEF s
  <2> QED
    BY <2>1, <2>3, <2>4, <2>5, OneItemFollows
<1> QED
  BY <1>2, <1>3

LEMMA BlurItemFollows ==
  ASSUME IInv, ItemsDescribed, NEW i \in 1..Len(items), BlurItem(i)
  PROVE  ItemsFollowed
<1> DEFINE s == items[i].control
           t == [FinalizeEditBuffer(s) EXCEPT !.touched = TRUE]
<1>1. s \in ControlState /\ t \in ControlState
  BY ItemControlType, BlurredType
<1>2. DescribesValue(t, ItemTemplate, formData.items[i], TRUE)
  BY <1>1, FinalizedDescribes DEF ItemsDescribed
<1>3. items' = [items EXCEPT ![i].control = t] /\ formData' = formData
  BY DEF BlurItem
<1> HIDE DEF s, t
<1> QED
  BY <1>1, <1>2, <1>3, OneItemFollows

(* So does finalizing the text of all.                                     *)
LEMMA PrepareSubmissionFollows ==
  ASSUME IInv, ItemsDescribed, PrepareSubmission
  PROVE  ItemsFollowed
<1>1. /\ items' = [i \in 1..Len(items) |->
                    [items[i] EXCEPT !.control = FinalizeEditBuffer(@)]]
      /\ formData' = formData
  BY DEF PrepareSubmission
<1>2. Len(items') = Len(items)
  <2>1. Len(items) \in Nat
    BY InvariantFacts
  <2> QED
    BY <1>1, <2>1
<1>3. ASSUME NEW i \in 1..Len(items)
      PROVE  /\ items'[i].identity = items[i].identity
             /\ items'[i].control = FinalizeEditBuffer(items[i].control)
  <2>1. items[i] \in ItemState
    BY ItemControlType
  <2> QED
    BY <1>1, <2>1 DEF ItemState
<1>4. ASSUME NEW i \in 1..Len(items)
      PROVE  DescribesValue(items'[i].control, ItemTemplate, formData'.items[i], TRUE)
  <2>1. items[i].control \in ControlState
    BY ItemControlType
  <2>2. DescribesValue(items[i].control, ItemTemplate, formData.items[i], TRUE)
    BY DEF ItemsDescribed
  <2>3. DescribesValue(FinalizeEditBuffer(items[i].control), ItemTemplate,
                       formData.items[i], TRUE)
    BY <2>1, <2>2, FinalizedDescribes
  <2> QED
    BY <1>1, <1>3, <2>3
<1> QED
  BY <1>2, <1>3, <1>4 DEF ItemsFollowed
-----------------------------------------------------------------------------
(* A host transaction keeps the text of an item whose value it keeps.      *)
LEMMA PreservedItemsFollow ==
  ASSUME IInv, ItemsDescribed, NEW d, NEW writes, NEW itemWrites,
         NEW topology \in Seq(Nat),
         RecordsChanges(d, writes, itemWrites, FALSE, topology),
         ApplyHostTransaction(d, writes, itemWrites, FALSE, topology)
  PROVE  ItemsFollowed
<1>1. /\ items' = PreservedItems(topology, itemWrites) /\ formData' = d
      /\ ValidTopology(d, topology)
  BY DEF ApplyHostTransaction
<1>2. Len(topology) \in Nat /\ nextItemIdentity \in Nat
  BY InvariantFacts
<1>3. Len(items') = Len(topology)
  BY <1>1, <1>2 DEF PreservedItems
<1>4. ASSUME NEW i \in 1..Len(topology), topology[i] = Fresh
      PROVE  New(items'[i])
  <2>1. FreshBefore(topology, i) \in Nat
    <3>1. IsFiniteSet(1..i - 1)
      BY FS_Interval
    <3>2. IsFiniteSet({j \in 1..i - 1 : topology[j] = Fresh})
      BY <3>1, FS_Subset
    <3> QED
      BY <3>2, FS_CardinalityType DEF FreshBefore
  <2>2. items'[i] = [identity |-> nextItemIdentity + FreshBefore(topology, i),
                     control  |-> Untouched]
    BY <1>1, <1>4 DEF PreservedItems
  <2> QED
    BY <1>2, <2>1, <2>2 DEF New
<1>5. ASSUME NEW i \in 1..Len(topology), topology[i] # Fresh
      PROVE  /\ \E j \in 1..Len(items) : items'[i].identity = items[j].identity
             /\ DescribesValue(items'[i].control, ItemTemplate,
                               formData'.items[i], TRUE)
  <2>1. PICK j \in 1..Len(items) : items[j].identity = topology[i]
    BY <1>1, <1>5 DEF ValidTopology
  <2>2. ItemOf(topology[i]) = items[j]
    BY <2>1 DEF ItemOf, IInv, IdentitiesDistinct
  <2>3. items'[i] = Rewritten(items[j], itemWrites)
    BY <1>1, <1>5, <2>2 DEF PreservedItems
  <2>4. items[j] \in ItemState /\ items[j].control \in ControlState
    BY ItemControlType
  <2>5. items'[i].identity = items[j].identity
    BY <2>3, <2>4 DEF Rewritten, ItemState
  <2>6. CASE items[j].identity \in itemWrites
    <3>1. items'[i].control = ClearEditState(items[j].control)
      BY <2>3, <2>4, <2>6 DEF Rewritten, ItemState
    <3> QED
      BY <2>4, <2>5, <3>1, ClearedDescribes
  <2>7. CASE items[j].identity \notin itemWrites
    <3>1. d.items[i] = formData.items[j]
      BY <2>1, <2>7 DEF RecordsChanges
    <3>2. items'[i] = items[j]
      BY <2>3, <2>7 DEF Rewritten
    <3> QED
      BY <1>1, <3>1, <3>2 DEF ItemsDescribed
  <2> QED
    BY <2>5, <2>6, <2>7
<1> QED
  BY <1>3, <1>4, <1>5 DEF ItemsFollowed

(* So does one that replaces the list, whose items are all new.            *)
LEMMA HostStepFollows ==
  ASSUME IInv, ItemsDescribed, NEW d \in Tree, NEW writes, NEW itemWrites,
         NEW replace \in BOOLEAN, NEW topology \in Seq(Nat),
         RecordsChanges(d, writes, itemWrites, replace, topology),
         ApplyHostTransaction(d, writes, itemWrites, replace, topology)
  PROVE  ItemsFollowed
<1>1. CASE replace
  <2>1. ReconcileArrays(d)
    BY <1>1 DEF ApplyHostTransaction
  <2> QED
    BY <2>1, ReconcileCarries, CarriedIsFollowed
<1>2. CASE ~replace
  <2>1. replace = FALSE
    BY <1>2
  <2> QED
    BY <2>1, PreservedItemsFollow
<1> QED
  BY <1>1, <1>2

(* Presence operations and a reinitialization bring new items only.        *)
LEMMA ChangePresenceCarries == IInv /\ ChangePresence => Carried
<1> SUFFICES ASSUME IInv, ChangePresence PROVE Carried
  OBVIOUS
<1>1. formData' \in Tree
  BY ChangePresencePreserves DEF IInv, TypeOK
<1>2. ReconcileArrays(formData')
  BY DEF ChangePresence, RemoveGroup, RemoveList, MaterializeGroup,
         MaterializeList, ReplaceGroup, ReplaceList
<1> QED
  BY <1>1, <1>2, ReconcileCarries

LEMMA ReinitializeCarries ==
  ASSUME IInv, NEW d \in HostData, Reinitialize(d)
  PROVE  Carried
<1>1. d \in Tree /\ ReconcileArrays(d)
  BY FormEngineAssumption DEF FormEngineAssumption, Reinitialize
<1> QED
  BY <1>1, ReconcileCarries

(* Editing a static control leaves the list alone.                         *)
LEMMA EditControlCarries == IInv /\ EditControl => Carried
<1> SUFFICES ASSUME IInv, EditControl PROVE Carried
  OBVIOUS
<1>1. formData \in Data
  BY InvariantFacts DEF Tree
<1>2. items' = items
  BY DEF EditControl, EditText, SetValue, RemoveControlValue, Blur, vars, topologyVars
<1>3. formData'.items = formData.items
  BY <1>1 DEF EditControl, EditText, SetValue, RemoveControlValue, Blur, vars,
              SetControl, TakeControl, Data
<1> QED
  BY <1>2, <1>3, SameItemsCarried

(* Every operation but a reset follows all items.                          *)
LEMMA StepFollows ==
  ASSUME IInv, ItemsDescribed, UserOperation \/ Lifecycle
  PROVE  ItemsFollowed \/ Reset
<1>1. EditItem => ItemsFollowed
  BY EditItemTextFollows, SetItemValueFollows, BlurItemFollows DEF EditItem
<1>2. UserOperation => ItemsFollowed
  BY <1>1, EditControlCarries, ChangePresenceCarries, CollectionCarries,
     CarriedIsFollowed DEF UserOperation
<1>3. Lifecycle => ItemsFollowed \/ Reset
  BY PrepareSubmissionFollows, ReinitializeCarries, CarriedIsFollowed
  DEF Lifecycle
<1> QED
  BY <1>2, <1>3

(* A reset leaves no text.                                                 *)
LEMMA ResetItems ==
  ASSUME IInv, Reset
  PROVE  \A i \in 1..Len(items') : /\ items'[i].control = Untouched
                                   /\ items'[i].identity = baselineIdentities[i]
                                   /\ i \in 1..Len(baselineIdentities)
<1>1. Len(baselineIdentities) \in Nat
  BY LenProperties DEF IInv, TypeOK
<1>2. items' = [i \in 1..Len(baselineIdentities) |->
                 [identity |-> baselineIdentities[i], control |-> Untouched]]
  BY DEF Reset
<1>3. Len(items') = Len(baselineIdentities)
  BY <1>1, <1>2
<1> QED
  BY <1>2, <1>3

LEMMA StepDescribesItems ==
  ASSUME IInv, ItemsDescribed, UserOperation \/ Lifecycle
  PROVE  ItemsDescribed'
<1>1. CASE ItemsFollowed
  BY <1>1, FollowedIsDescribed
<1>2. CASE Reset
  BY <1>2, ResetItems, UntouchedDescribes DEF ItemsDescribed
<1> QED
  BY <1>1, <1>2, StepFollows
-----------------------------------------------------------------------------
(* The text of a static control: a step that keeps the control, its value  *)
(* and whether there is an object around it keeps what it describes.       *)
SameFor(c) ==
  /\ controls'[c] = controls[c]
  /\ formData'.value[c] = formData.value[c]
  /\ ParentIsObject(formData', c) = ParentIsObject(formData, c)

LEMMA SameControlsDescribed ==
  ASSUME ControlsDescribed,
         \A c \in Control :
           SameFor(c) \/ DescribesValue(controls'[c], c, formData'.value[c],
                                       ParentIsObject(formData', c))
  PROVE  ControlsDescribed'
BY DEF ControlsDescribed, SameFor

LEMMA EditTextDescribes ==
  ASSUME IInv, ControlsDescribed, NEW c \in Control, NEW text \in Text,
         EditText(c, text)
  PROVE  ControlsDescribed'
<1> DEFINE v == formData.value[c]
           p == ParentIsObject(formData, c)
           w == IF Replaces(text, v) THEN Parse[text] ELSE v
<1>1. formData \in Data /\ controls \in [Control -> ControlState]
  BY InvariantFacts DEF Tree
<1>2. controls' = [controls EXCEPT ![c] = Typed(controls[c], text)]
  BY DEF EditText
<1>3. formData' = IF Replaces(text, v) THEN SetControl(formData, c, Parse[text])
                                       ELSE formData
  BY DEF EditText
<1>4. /\ formData'.value[c] = w /\ formData'.group = formData.group
      /\ \A k \in Control : k # c => formData'.value[k] = formData.value[k]
  BY <1>1, <1>3 DEF SetControl, Data
<1>5. \A k \in Control : ParentIsObject(formData', k) = ParentIsObject(formData, k)
  BY <1>4 DEF ParentIsObject
<1>6. DescribesValue(Typed(controls[c], text), c, w, p)
  BY <1>1, TypedDescribes DEF EditText
<1>7. DescribesValue(controls'[c], c, formData'.value[c], ParentIsObject(formData', c))
  BY <1>1, <1>2, <1>4, <1>5, <1>6
<1>8. \A k \in Control : k # c => SameFor(k)
  BY <1>1, <1>2, <1>4, <1>5 DEF SameFor
<1> QED
  BY <1>7, <1>8, SameControlsDescribed

LEMMA SetValueDescribes ==
  ASSUME IInv, ControlsDescribed, NEW c \in Control, NEW v, SetValue(c, v)
  PROVE  ControlsDescribed'
<1>1. formData \in Data /\ controls \in [Control -> ControlState]
  BY InvariantFacts DEF Tree
<1>2. CASE formData.value[c] = v
  BY <1>2, SameControlsDescribed DEF SetValue, vars, SameFor
<1>3. CASE formData.value[c] # v
  <2>1. /\ formData' = SetControl(formData, c, v)
        /\ controls' = [controls EXCEPT ![c] = ClearEditState(controls[c])]
    BY <1>3 DEF SetValue
  <2>2. DescribesValue(controls'[c], c, formData'.value[c], ParentIsObject(formData', c))
    BY <1>1, <2>1, ClearedDescribes
  <2>3. \A k \in Control : k # c => SameFor(k)
    BY <1>1, <2>1 DEF SameFor, SetControl, Data, ParentIsObject
  <2> QED
    BY <2>2, <2>3, SameControlsDescribed
<1> QED
  BY <1>2, <1>3

LEMMA RemoveControlValueDescribes ==
  ASSUME IInv, ControlsDescribed, NEW c \in Control, RemoveControlValue(c)
  PROVE  ControlsDescribed'
<1>1. formData \in Data /\ controls \in [Control -> ControlState]
  BY InvariantFacts DEF Tree
<1>2. /\ formData' = TakeControl(formData, c)
      /\ controls' = [controls EXCEPT ![c] = ClearEditState(controls[c])]
  BY DEF RemoveControlValue
<1>3. DescribesValue(controls'[c], c, formData'.value[c], ParentIsObject(formData', c))
  BY <1>1, <1>2, ClearedDescribes
<1>4. \A k \in Control : k # c => SameFor(k)
  BY <1>1, <1>2 DEF SameFor, TakeControl, Data, ParentIsObject
<1> QED
  BY <1>3, <1>4, SameControlsDescribed

LEMMA BlurDescribes ==
  ASSUME IInv, ControlsDescribed, NEW c \in Control, Blur(c)
  PROVE  ControlsDescribed'
<1>1. controls \in [Control -> ControlState]
  BY InvariantFacts
<1>2. /\ formData' = formData
      /\ controls' = [controls EXCEPT ![c] =
                        [FinalizeEditBuffer(controls[c]) EXCEPT !.touched = TRUE]]
  BY DEF Blur
<1>3. DescribesValue(controls'[c], c, formData'.value[c], ParentIsObject(formData', c))
  BY <1>1, <1>2, FinalizedDescribes DEF ControlsDescribed
<1>4. \A k \in Control : k # c => SameFor(k)
  BY <1>1, <1>2 DEF SameFor
<1> QED
  BY <1>3, <1>4, SameControlsDescribed

(* Removing or replacing the object clears what is below it and leaves the *)
(* rest alone.                                                             *)
LEMMA ClearedGroupDescribes ==
  ASSUME IInv, ControlsDescribed, ClearGroupedEdits,
         \A c \in Control \ Grouped : formData'.value[c] = formData.value[c]
  PROVE  ControlsDescribed'
<1>1. controls \in [Control -> ControlState]
  BY InvariantFacts
<1>2. ASSUME NEW c \in Control, c \in Grouped
      PROVE  DescribesValue(controls'[c], c, formData'.value[c],
                            ParentIsObject(formData', c))
  <2>1. controls'[c] = ClearEditState(controls[c])
    BY <1>2 DEF ClearGroupedEdits
  <2> QED
    BY <1>1, <2>1, ClearedDescribes
<1>3. ASSUME NEW c \in Control, c \notin Grouped PROVE SameFor(c)
  BY <1>3 DEF ClearGroupedEdits, SameFor, ParentIsObject
<1> QED
  BY <1>2, <1>3, SameControlsDescribed

(* Below an object that comes into being nothing was edited.               *)
LEMMA MaterializeGroupDescribes ==
  ASSUME IInv, ControlsDescribed, MaterializeGroup
  PROVE  ControlsDescribed'
<1>1. /\ controls \in [Control -> ControlState] /\ formData \in Data
      /\ IsTree(formData)
  BY InvariantFacts DEF Tree
<1>2. /\ formData.group = "absent" /\ controls' = controls
      /\ formData' = SetGroup(formData, GroupSeed)
  BY DEF MaterializeGroup
<1>3. ASSUME NEW c \in Control, c \in Grouped
      PROVE  DescribesValue(controls'[c], c, formData'.value[c],
                            ParentIsObject(formData', c))
  <2>1. /\ formData.value[c] = Absent
        /\ ParentIsObject(formData, c) = FALSE
    BY <1>1, <1>2, <1>3 DEF IsTree, ParentIsObject
  <2>2. DescribesValue(controls[c], c, Absent, FALSE)
    BY <2>1 DEF ControlsDescribed
  <2>3. controls[c].buffer = NoText /\ controls[c].blocked = FALSE
    BY <1>1, <2>2, NothingEdited
  <2> QED
    BY <1>2, <2>3, NoTextDescribes
<1>4. ASSUME NEW c \in Control, c \notin Grouped PROVE SameFor(c)
  BY <1>1, <1>2, <1>4 DEF SameFor, SetGroup, Data, ParentIsObject
<1> QED
  BY <1>3, <1>4, SameControlsDescribed

LEMMA ChangePresenceDescribes ==
  ASSUME IInv, ControlsDescribed, ChangePresence
  PROVE  ControlsDescribed'
<1>1. formData \in Data /\ controls \in [Control -> ControlState]
  BY InvariantFacts DEF Tree
<1>2. CASE RemoveGroup
  <2>1. \A c \in Control \ Grouped : formData'.value[c] = formData.value[c]
    BY <1>1, <1>2 DEF RemoveGroup, TakeGroup, Data
  <2> QED
    BY <1>2, <2>1, ClearedGroupDescribes DEF RemoveGroup
<1>3. ASSUME NEW g \in HostData, ReplaceGroup(g) PROVE ControlsDescribed'
  <2>1. \A c \in Control \ Grouped : formData'.value[c] = formData.value[c]
    BY <1>1, <1>3 DEF ReplaceGroup, SetGroup, Data
  <2> QED
    BY <1>3, <2>1, ClearedGroupDescribes DEF ReplaceGroup
<1>4. CASE RemoveList
  BY <1>1, <1>4, SameControlsDescribed
  DEF RemoveList, TakeList, Data, SameFor, ParentIsObject
<1>5. CASE MaterializeList
  BY <1>1, <1>5, SameControlsDescribed
  DEF MaterializeList, SetList, Data, SameFor, ParentIsObject
<1>6. ASSUME NEW g \in HostData, ReplaceList(g.items) PROVE ControlsDescribed'
  BY <1>1, <1>6, SameControlsDescribed
  DEF ReplaceList, SetList, Data, SameFor, ParentIsObject
<1> QED
  BY <1>2, <1>3, <1>4, <1>5, <1>6, MaterializeGroupDescribes DEF ChangePresence

(* What concerns the items of the list leaves the static controls alone.   *)
LEMMA ListKeepsControls ==
  ASSUME IInv, EditItem \/ ChangeCollection
  PROVE  \A c \in Control : SameFor(c)
<1>1. formData \in Data
  BY InvariantFacts DEF Tree
<1>2. controls' = controls
  BY DEF EditItem, EditItemText, SetItemValue, BlurItem, ChangeCollection,
         AppendArrayItem, InsertArrayItemBefore, InsertItem, RemoveArrayItem,
         MoveArrayItem, IncludeChoice, ExcludeChoice, BlurArray, vars
<1>3. formData'.value = formData.value /\ formData'.group = formData.group
  <2>1. EditItem => formData'.value = formData.value /\ formData'.group = formData.group
    BY <1>1 DEF EditItem, EditItemText, SetItemValue, BlurItem, vars, Data
  <2>2. ChangeCollection =>
          formData'.value = formData.value /\ formData'.group = formData.group
    BY <1>1 DEF ChangeCollection, AppendArrayItem, InsertArrayItemBefore,
                InsertItem, RemoveArrayItem, MoveArrayItem, IncludeChoice,
                ExcludeChoice, BlurArray, SetList, Data
  <2> QED
    BY <2>1, <2>2
<1> QED
  BY <1>2, <1>3 DEF SameFor, ParentIsObject

LEMMA LifecycleDescribes ==
  ASSUME IInv, ControlsDescribed, Lifecycle
  PROVE  ControlsDescribed'
<1>1. controls \in [Control -> ControlState]
  BY InvariantFacts
<1>2. CASE PrepareSubmission
  <2>1. /\ formData' = formData
        /\ controls' = [c \in Control |-> FinalizeEditBuffer(controls[c])]
    BY <1>2 DEF PrepareSubmission
  <2> QED
    BY <1>1, <2>1, FinalizedDescribes DEF ControlsDescribed
<1>3. CASE controls' = [c \in Control |-> Untouched]
  BY <1>3, UntouchedDescribes DEF ControlsDescribed
<1> QED
  BY <1>2, <1>3 DEF Lifecycle, Reset, Reinitialize

(* A transaction clears each control whose value or object it changes.     *)
LEMMA HostStepDescribesControls ==
  ASSUME IInv, ControlsDescribed, NEW d \in Tree, NEW writes, NEW itemWrites,
         NEW replace \in BOOLEAN, NEW topology \in Seq(Nat),
         RecordsChanges(d, writes, itemWrites, replace, topology),
         ApplyHostTransaction(d, writes, itemWrites, replace, topology)
  PROVE  ControlsDescribed'
<1>1. controls \in [Control -> ControlState]
  BY InvariantFacts
<1>2. /\ formData' = d
      /\ controls' = [c \in Control |->
                        IF \E w \in writes : Overlaps(w, c)
                        THEN ClearEditState(controls[c]) ELSE controls[c]]
  BY DEF ApplyHostTransaction
<1>3. ASSUME NEW c \in Control, \E w \in writes : Overlaps(w, c)
      PROVE  DescribesValue(controls'[c], c, formData'.value[c],
                            ParentIsObject(formData', c))
  <2>1. controls'[c] = ClearEditState(controls[c])
    BY <1>2, <1>3
  <2> QED
    BY <1>1, <2>1, ClearedDescribes
<1>4. ASSUME NEW c \in Control, ~\E w \in writes : Overlaps(w, c)
      PROVE  SameFor(c)
  <2>1. controls'[c] = controls[c]
    BY <1>2, <1>4
  <2>2. d.value[c] = formData.value[c]
    BY <1>4 DEF RecordsChanges
  <2>3. c \in Grouped => d.group = formData.group
    BY <1>4 DEF RecordsChanges, Overlaps
  <2> QED
    BY <1>2, <2>1, <2>2, <2>3 DEF SameFor, ParentIsObject
<1> QED
  BY <1>3, <1>4, SameControlsDescribed

LEMMA StepDescribesControls ==
  ASSUME IInv, ControlsDescribed, UserOperation \/ Lifecycle
  PROVE  ControlsDescribed'
<1>1. EditControl => ControlsDescribed'
  BY EditTextDescribes, SetValueDescribes, RemoveControlValueDescribes,
     BlurDescribes DEF EditControl
<1>2. EditItem \/ ChangeCollection => ControlsDescribed'
  BY ListKeepsControls, SameControlsDescribed
<1> QED
  BY <1>1, <1>2, ChangePresenceDescribes, LifecycleDescribes DEF UserOperation
-----------------------------------------------------------------------------
EditInv == IInv /\ EditStatesDescribeValues

LEMMA EditInvInitial == Init => EditInv
<1> SUFFICES ASSUME Init PROVE EditStatesDescribeValues
  BY InitInvariant DEF EditInv
<1>1. \A c \in Control : controls[c] = Untouched
  BY DEF Init
<1>2. \A i \in 1..Len(items) : items[i].control = Untouched
  <2>1. Len(items) = Count(formData)
    BY InitInvariant DEF IInv, TopologyMatchesData
  <2> QED
    BY <2>1 DEF Init
<1> QED
  BY <1>1, <1>2, UntouchedDescribes DEF EditStatesDescribeValues

LEMMA EditInvParts ==
  EditInv <=> IInv /\ ControlsDescribed /\ ItemsDescribed
BY DEF EditInv, EditStatesDescribeValues, ControlsDescribed, ItemsDescribed

LEMMA OperationKeepsEditInv ==
  ASSUME EditInv, UserOperation \/ Lifecycle PROVE EditInv'
<1>1. IInv'
  BY UserOperationPreserves, LifecyclePreserves DEF EditInv
<1>2. ControlsDescribed' /\ ItemsDescribed'
  BY EditInvParts, StepDescribesControls, StepDescribesItems
<1> QED
  BY <1>1, <1>2
  DEF EditInv, EditStatesDescribeValues, ControlsDescribed, ItemsDescribed

LEMMA HostStepKeepsEditInv ==
  ASSUME EditInv, NEW d \in Tree, NEW writes, NEW itemWrites,
         NEW replace \in BOOLEAN, NEW topology \in Seq(Nat),
         RecordsChanges(d, writes, itemWrites, replace, topology),
         ApplyHostTransaction(d, writes, itemWrites, replace, topology)
  PROVE  EditInv' /\ ItemsFollowed
<1>1. IInv /\ ControlsDescribed /\ ItemsDescribed
  BY EditInvParts
<1>2. IInv'
  BY <1>1, HostStepPreserves
<1>3. ControlsDescribed'
  BY <1>1, HostStepDescribesControls
<1>4. ItemsFollowed
  BY <1>1, HostStepFollows
<1>5. ItemsDescribed'
  BY <1>4, FollowedIsDescribed
<1> QED
  BY <1>2, <1>3, <1>4, <1>5
  DEF EditInv, EditStatesDescribeValues, ControlsDescribed, ItemsDescribed

LEMMA HostTransactionKeepsEditInv ==
  ASSUME EditInv, HostTransaction PROVE EditInv' /\ ItemsFollowed
<1>1. PICK d \in HostData, writes \in WriteSets,
           itemWrites \in SUBSET {items[i].identity : i \in 1..Len(items)} :
        \/ /\ RecordsChanges(d, writes, itemWrites, TRUE, <<>>)
           /\ ApplyHostTransaction(d, writes, itemWrites, TRUE, <<>>)
        \/ \E topology \in Topologies(Count(d)) :
             /\ RecordsChanges(d, writes, itemWrites, FALSE, topology)
             /\ ApplyHostTransaction(d, writes, itemWrites, FALSE, topology)
  BY DEF HostTransaction
<1>2. d \in Tree /\ <<>> \in Seq(Nat)
  BY EmptySeq, FormEngineAssumption DEF FormEngineAssumption
<1> QED
  BY <1>1, <1>2, HostStepKeepsEditInv, TopologyIsSequence DEF EditInv

LEMMA EditInvPreserved == EditInv /\ [Next]_vars => EditInv'
<1> SUFFICES ASSUME EditInv, [Next]_vars PROVE EditInv'
  OBVIOUS
<1>1. CASE Next
  BY <1>1, OperationKeepsEditInv, HostTransactionKeepsEditInv DEF Next
<1>2. CASE UNCHANGED vars
  <2>1. IInv'
    BY <1>2, NextPreserves DEF EditInv
  <2> QED
    BY <1>2, <2>1 DEF EditInv, vars, EditStatesDescribeValues
<1> QED
  BY <1>1, <1>2

(* However edits, removals, moves, resets and transactions follow each     *)
(* other, the text a control shows is that of the value a submission would *)
(* take, or blocks that submission over a value it may replace.            *)
THEOREM TextDescribesValues == Spec => []EditStatesDescribeValues
<1>1. EditInv => EditStatesDescribeValues
  BY DEF EditInv
<1> QED
  BY <1>1, EditInvInitial, EditInvPreserved, PTL DEF Spec

(* No call but a reset brings an identity back that is not in the list, so *)
(* one kept from a removed item never stands for another item.             *)
THEOREM IdentitiesAreNotReused == Spec => IdentitiesNeverReused
<1> DEFINE Known == \A i \in 1..Len(items') :
             \/ \E j \in 1..Len(items) : items[j].identity = items'[i].identity
             \/ items'[i].identity >= nextItemIdentity
             \/ Reset /\ items'[i].identity \in
                    {baselineIdentities[j] : j \in 1..Len(baselineIdentities)}
<1>1. EditInv /\ [Next]_vars => [Known]_vars
  <2> SUFFICES ASSUME EditInv, Next PROVE Known
    OBVIOUS
  <2>1. IInv /\ ItemsDescribed
    BY DEF EditInv, EditStatesDescribeValues, ItemsDescribed
  <2>2. CASE ItemsFollowed
    BY <2>2 DEF ItemsFollowed, New
  <2>3. CASE Reset
    BY <2>1, <2>3, ResetItems
  <2> QED
    BY <2>1, <2>2, <2>3, StepFollows, HostTransactionKeepsEditInv DEF Next
<1> QED
  BY <1>1, EditInvInitial, EditInvPreserved, PTL DEF Spec, IdentitiesNeverReused

(* Inserting, removing, moving, including and excluding items moves each   *)
(* value with the item state that describes it.                            *)
THEOREM SurvivorsKeep == Spec => SurvivorsKeepTheirState
<1> DEFINE Kept == ChangeCollection =>
             \A i \in 1..Len(items), j \in 1..Len(items') :
               items[i].identity = items'[j].identity =>
                 /\ items'[j] = items[i]
                 /\ formData'.items[j] = formData.items[i]
<1>1. IInv /\ [Next]_vars => [Kept]_vars
  <2> SUFFICES ASSUME IInv, ChangeCollection,
                      NEW i \in 1..Len(items), NEW j \in 1..Len(items'),
                      items[i].identity = items'[j].identity
               PROVE  items'[j] = items[i] /\ formData'.items[j] = formData.items[i]
    OBVIOUS
  <2>1. Carried
    BY CollectionCarries
  <2>2. ~New(items'[j])
    <3>1. nextItemIdentity \in Nat /\ items[i].identity \in 1..nextItemIdentity - 1
      BY DEF IInv, IdentitiesDistinct, TypeOK
    <3> QED
      BY <3>1 DEF New
  <2>3. PICK k \in 1..Len(items) : /\ items'[j] = items[k]
                                  /\ formData'.items[j] = formData.items[k]
    BY <2>1, <2>2 DEF Carried
  <2>4. k = i
    BY <2>3 DEF IInv, IdentitiesDistinct
  <2> QED
    BY <2>3, <2>4
<1> QED
  BY <1>1, Invariant, PTL DEF Spec, SurvivorsKeepTheirState
-----------------------------------------------------------------------------
(* Where a choice is included: nothing before that point comes later in    *)
(* the options, and what is there now does.                                *)
LEMMA OptionPositionType ==
  ASSUME NEW v PROVE OptionPosition(v) \in Nat
<1>1. CASE \E k \in 1..Len(Options) : Options[k] = v
  <2> DEFINE at == {k \in 1..Len(Options) : Options[k] = v}
  <2>1. Len(Options) \in Nat
    BY FormDataAssumption, LenProperties DEF FormDataAssumption
  <2>2. at \subseteq Nat /\ at # {}
    BY <1>1
  <2>3. PICK k \in at : \A j \in at : k <= j
    BY <2>2, LeastElement
  <2>4. Options[k] = v /\ \A j \in 1..k - 1 : Options[j] # v
    BY <2>1, <2>3
  <2>5. OptionPosition(v) \in 1..Len(Options)
    BY <1>1, <2>3, <2>4 DEF OptionPosition
  <2> QED
    BY <2>1, <2>5
<1>2. CASE ~\E k \in 1..Len(Options) : Options[k] = v
  BY <1>2 DEF OptionPosition
<1> QED
  BY <1>1, <1>2

LEMMA InsertionPointSeparates ==
  ASSUME NEW values \in Seq(Scalar), NEW k \in Nat
  PROVE  LET p == InsertionPoint(values, k)
         IN  /\ p \in 1..Len(values) + 1
             /\ \A i \in 1..Len(values) :
                  i < p => OptionPosition(values[i]) <= k
             /\ p <= Len(values) => OptionPosition(values[p]) > k
<1> DEFINE later == {i \in 1..Len(values) : OptionPosition(values[i]) > k}
           p == InsertionPoint(values, k)
<1>1. Len(values) \in Nat
  BY LenProperties
<1>2. \A i \in 1..Len(values) : OptionPosition(values[i]) \in Nat
  BY OptionPositionType
<1>3. CASE later = {}
  <2>1. p = Len(values) + 1
    BY <1>3 DEF InsertionPoint
  <2>2. \A i \in 1..Len(values) : OptionPosition(values[i]) <= k
    BY <1>2, <1>3
  <2> QED
    BY <1>1, <2>1, <2>2
<1>4. CASE later # {}
  <2>1. later \subseteq Nat
    OBVIOUS
  <2>2. \E i \in later : \A j \in later : i <= j
    BY <1>4, <2>1, LeastElement
  <2>3. p \in later /\ \A j \in later : p <= j
    BY <1>4, <2>2 DEF InsertionPoint
  <2> HIDE DEF p
  <2>4. \A i \in 1..Len(values) : i < p => OptionPosition(values[i]) <= k
    BY <1>2, <2>1, <2>3
  <2>5. p \in 1..Len(values) /\ OptionPosition(values[p]) > k
    BY <2>3
  <2>6. p \in 1..Len(values) + 1
    BY <1>1, <2>5
  <2> QED
    BY <2>4, <2>5, <2>6 DEF p
<1> QED
  BY <1>3, <1>4

LEMMA InsertionKeepsOrder ==
  ASSUME NEW values \in Seq(Scalar), NEW v \in Scalar, InOptionOrder(values)
  PROVE  InOptionOrder(InsertAt(values, InsertionPoint(values, OptionPosition(v)), v))
<1> DEFINE k == OptionPosition(v)
           p == InsertionPoint(values, k)
           after == InsertAt(values, p, v)
<1>1. k \in Nat /\ Len(values) \in Nat
  BY OptionPositionType, LenProperties
<1>2. /\ p \in 1..Len(values) + 1
      /\ \A i \in 1..Len(values) : i < p => OptionPosition(values[i]) <= k
      /\ p <= Len(values) => OptionPosition(values[p]) > k
  BY <1>1, InsertionPointSeparates
<1> HIDE DEF p, k
<1>3. /\ Len(after) = Len(values) + 1
      /\ \A i \in 1..Len(values) + 1 :
           after[i] = IF i < p THEN values[i]
                      ELSE IF i = p THEN v ELSE values[i - 1]
  BY <1>2, InsertAtProperties
<1>4. \A i \in 1..Len(values) : OptionPosition(values[i]) \in Nat
  BY OptionPositionType
<1> HIDE DEF after
<1>5. ASSUME NEW i \in 1..Len(values), i >= p, OptionPosition(values[i]) # 0
      PROVE  k <= OptionPosition(values[i])
  <2>1. /\ p \in 1..Len(values) /\ OptionPosition(values[p]) > k
        /\ OptionPosition(values[p]) # 0
    BY <1>1, <1>2, <1>4, <1>5
  <2>2. OptionPosition(values[p]) <= OptionPosition(values[i])
    BY <1>2, <1>4, <1>5, <2>1 DEF InOptionOrder
  <2> QED
    BY <1>1, <1>4, <2>1, <2>2
<1>6. ASSUME NEW i \in 1..Len(after), NEW j \in 1..Len(after), i < j,
             OptionPosition(after[i]) # 0, OptionPosition(after[j]) # 0
      PROVE  OptionPosition(after[i]) <= OptionPosition(after[j])
  <2>1. i \in 1..Len(values) + 1 /\ j \in 1..Len(values) + 1
    BY <1>3
  <2>2. CASE i = p
    <3>1. after[i] = v /\ after[j] = values[j - 1] /\ j - 1 \in 1..Len(values)
          /\ j - 1 >= p
      BY <1>1, <1>2, <1>3, <1>6, <2>1, <2>2
    <3> QED
      BY <1>5, <1>6, <3>1 DEF k
  <2>3. CASE j = p
    <3>1. after[j] = v /\ after[i] = values[i] /\ i \in 1..Len(values) /\ i < p
      BY <1>1, <1>2, <1>3, <1>6, <2>1, <2>3
    <3> QED
      BY <1>2, <3>1 DEF k
  <2>4. CASE i # p /\ j # p
    <3> DEFINE old(l) == IF l < p THEN l ELSE l - 1
    <3>1. /\ old(i) \in 1..Len(values) /\ old(j) \in 1..Len(values)
          /\ old(i) < old(j)
          /\ after[i] = values[old(i)] /\ after[j] = values[old(j)]
      BY <1>1, <1>2, <1>3, <1>6, <2>1, <2>4
    <3> HIDE DEF old
    <3> QED
      BY <1>6, <3>1 DEF InOptionOrder
  <2> QED
    BY <2>2, <2>3, <2>4
<1> QED
  BY <1>6 DEF InOptionOrder, after, p, k

(* Checking choices one by one, in any order and with values that are no   *)
(* choice among them, never puts a choice before one the options put first.*)
THEOREM ChoicesKeepOrder == Spec => ChoicesStayInOptionOrder
<1> DEFINE Ordered == \A v \in Value :
             IncludeChoice(v) /\ InOptionOrder(formData.items)
               => InOptionOrder(formData'.items)
<1>1. IInv /\ [Next]_vars => [Ordered]_vars
  <2> SUFFICES ASSUME IInv, NEW v \in Value, IncludeChoice(v),
                      InOptionOrder(formData.items)
               PROVE  InOptionOrder(formData'.items)
    OBVIOUS
  <2>1. formData.items \in Seq(Scalar) /\ v \in Scalar
    BY InvariantFacts DEF Scalar
  <2>2. formData'.items =
          InsertAt(formData.items,
                   InsertionPoint(formData.items, OptionPosition(v)), v)
    BY InvariantFacts DEF IncludeChoice, SetList, Tree, Data
  <2> QED
    BY <2>1, <2>2, InsertionKeepsOrder
<1> QED
  BY <1>1, Invariant, PTL DEF Spec, ChoicesStayInOptionOrder
=============================================================================
