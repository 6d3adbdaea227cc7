---------------------------- MODULE DioxusProofs ----------------------------
(***************************************************************************)
(* Proofs about the Dioxus adapter.  About FormHandle, for every set of    *)
(* nodes, items and signals: the signals of a handle are those of its      *)
(* nodes, and no component that read the form misses a change of what it   *)
(* shows.  The invariant adds why: a component that is not dirty is        *)
(* subscribed to the signal of what it shows, the list's children are      *)
(* mounted while it is not dirty, and nobody is subscribed to a signal     *)
(* that was dropped.  About WidgetEdit, for all texts, values and options: *)
(* no text of an earlier lifecycle is applied.                             *)
(***************************************************************************)
EXTENDS FormHandle, WidgetEdit, TLAPS

Listening ==
  \A k \in Mounted \ Watcher : k \notin dirty => k \in subscribed[k]

ChildrenMounted == ~disposed /\ List \notin dirty => hosts = items

NoDroppedSignal ==
  \A k \in Component :
    subscribed[k] \subseteq nodeVersions \cup ValueSignal \cup {"form_version"}

HInv ==
  /\ HandleTypeOK
  /\ SignalsMatchNodes
  /\ SignalsHoldTheForm
  /\ NobodyMissesAChange
  /\ Listening
  /\ ChildrenMounted
  /\ NoDroppedSignal
  /\ ~(disposed /\ borrowed)

(* What a component reads is its own signal, when it is one of the nodes   *)
(* and signals that exist.                                                 *)
LEMMA ReadsItself ==
  ASSUME NEW k \in Component \ Watcher, SignalsMatchNodes,
         k \notin Item \/ k \in items
  PROVE  Reads(k) = {k}
BY FormHandleAssumption DEF Reads, SignalsMatchNodes, Component, Signal

LEMMA ReadsExisting ==
  ASSUME NEW k \in Component
  PROVE  /\ Reads(k) \subseteq Signal
         /\ Reads(k) \subseteq nodeVersions \cup ValueSignal \cup {"form_version"}
BY FormHandleAssumption DEF Reads, Component, Signal

(* The components a change leaves outdated, watchers aside.                *)
LEMMA OutdatedMeaning ==
  ASSUME NEW differing, NEW k \in Outdated(differing), k \notin Watcher
  PROVE  \/ k \in differing
         \/ k \in (items \ items') \cup (items' \ items)
         \/ k = List /\ items' # items
         \/ k = "form_version"
BY DEF Outdated, Source

LEMMA InitHolds == HandleInit => HInv
<1> SUFFICES ASSUME HandleInit PROVE HInv
  OBVIOUS
<1>1. HandleTypeOK
  <2>1. subscribed \in [Component -> SUBSET Signal]
    BY ReadsExisting DEF HandleInit
  <2> QED BY <2>1 DEF HandleInit, HandleTypeOK
<1>2. SignalsMatchNodes /\ SignalsHoldTheForm /\ NobodyMissesAChange
  BY DEF HandleInit, SignalsMatchNodes, SignalsHoldTheForm, NobodyMissesAChange
<1>3. Listening
  <2> SUFFICES ASSUME NEW k \in Mounted \ Watcher PROVE k \in subscribed[k]
    BY DEF Listening
  <2>1. k \in Component \ Watcher /\ (k \notin Item \/ k \in items)
    BY FormHandleAssumption DEF HandleInit, Mounted, Component, Signal
  <2>2. Reads(k) = {k}
    BY <1>2, <2>1, ReadsItself
  <2> QED BY <2>1, <2>2 DEF HandleInit
<1>4. ChildrenMounted /\ ~(disposed /\ borrowed)
  BY DEF HandleInit, ChildrenMounted
<1>5. NoDroppedSignal
  BY ReadsExisting DEF HandleInit, NoDroppedSignal
<1> QED BY <1>1, <1>2, <1>3, <1>4, <1>5 DEF HInv

(* Whatever the form does and tells, publishing it keeps the invariant.    *)
LEMMA ChangeKeeps ==
  ASSUME HInv, ~disposed, NEW restored \in SUBSET Item,
         restored \subseteq used, Change(restored),
         disposed' = disposed, borrowed' = FALSE,
         outcome' = "ok", baselineItems' \subseteq used'
  PROVE  HInv'
<1>1. PICK added \in SUBSET (Item \ used) :
        /\ items' \in SUBSET (items \cup added \cup restored)
        /\ added \subseteq items'
        /\ used' = used \cup added
  BY DEF Change, Allocate
<1>2. PICK differing \in SUBSET (Node \cup (items \cap items') \cup ValueSignal),
           changed \in SUBSET (Node \cup items'),
           revised \in BOOLEAN :
        LET t == [changed |-> changed, removed |-> items \ items']
            nodes == (differing \ ValueSignal)
                       \cup (IF items' # items THEN {List} ELSE {})
        IN  /\ Form!TellsOf(t, revised, items, items', nodes,
                            differing \cap ValueSignal # {})
            /\ ApplyTransition(t, revised, differing)
            /\ stale' = stale \cup (Outdated(differing) \cap Mounted)
  BY DEF Change
<1> DEFINE t == [changed |-> changed, removed |-> items \ items']
           nodes == (differing \ ValueSignal)
                      \cup (IF items' # items THEN {List} ELSE {})
<1>3. /\ nodes \subseteq changed
      /\ items' \ items \subseteq changed
      /\ differing \cap ValueSignal # {} => ~Form!IsEmpty(t, revised)
  BY <1>2 DEF Form!TellsOf
<1>4. ApplyTransition(t, revised, differing) /\ hosts' = hosts
  BY <1>2 DEF Change
<1>5. stale' = stale \cup (Outdated(differing) \cap Mounted)
  BY <1>2
<1> HIDE DEF t, nodes
<1>t. t.changed = changed /\ t.removed = items \ items'
  BY DEF t
<1>i. items' \subseteq Item /\ items \subseteq Item /\ hosts \subseteq Item
  BY <1>1 DEF HInv, HandleTypeOK
<1>n. nodeVersions = Node \cup items
  BY DEF HInv, SignalsMatchNodes
<1>m. Mounted' = Mounted /\ Mounted \subseteq Component
  BY <1>4, <1>i DEF Mounted, Component, Signal
<1>6. CASE Form!IsEmpty(t, revised)
  <2>1. /\ UNCHANGED <<nodeVersions, subscribed, dirty>>
        /\ current' = current \ differing
    BY <1>4, <1>6 DEF ApplyTransition
  <2>2. changed = {} /\ items \ items' = {}
    BY <1>6, <1>t DEF Form!IsEmpty
  <2>3. items' = items
    BY <2>2, <1>3
  <2>4. differing \cap ValueSignal = {} /\ nodes = {}
    BY <1>3, <1>6, <2>2
  <2>5. differing = {}
    BY <2>4 DEF nodes
  <2>6. Outdated(differing) = {}
    BY <2>3, <2>5 DEF Outdated
  <2>7. stale' = stale /\ current' = current
    BY <2>1, <2>5, <2>6, <1>5 DEF HInv, HandleTypeOK
  <2>8. HandleTypeOK'
    BY <1>1, <1>4, <2>1, <2>3, <2>7 DEF HInv, HandleTypeOK
  <2> QED
    BY <2>1, <2>3, <2>7, <2>8, <1>4, <1>m
    DEF HInv, SignalsMatchNodes, SignalsHoldTheForm, NobodyMissesAChange,
        Listening, ChildrenMounted, NoDroppedSignal
<1>7. CASE ~Form!IsEmpty(t, revised)
  <2>1. /\ current' = ValueSignal
        /\ nodeVersions' =
             (nodeVersions \cup (changed \cap (Node \cup items'))) \ (items \ items')
        /\ subscribed' = [k \in Component |-> subscribed[k] \ (items \ items')]
        /\ dirty' = dirty \cup
             {k \in Mounted : subscribed[k] \cap Written(t, differing) # {}}
    BY <1>4, <1>7, <1>t DEF ApplyTransition
  <2>2. nodeVersions' = Node \cup items'
    BY <2>1, <1>3, <1>n, <1>i, FormHandleAssumption
  <2>3. HandleTypeOK'
    <3>1. subscribed' \in [Component -> SUBSET Signal]
      BY <2>1 DEF HInv, HandleTypeOK
    <3>2. dirty' \subseteq Component /\ stale' \subseteq Component
      BY <2>1, <1>5, <1>m DEF HInv, HandleTypeOK
    <3>3. used' \subseteq Item /\ items' \subseteq used'
      BY <1>1 DEF HInv, HandleTypeOK
    <3> QED
      BY <3>1, <3>2, <3>3, <2>1, <2>2, <1>4, <1>i DEF HInv, HandleTypeOK
  <2>4. Listening'
    <3> SUFFICES ASSUME NEW k \in Mounted \ Watcher, k \notin dirty'
                 PROVE  k \in subscribed'[k]
      BY <1>m DEF Listening
    <3>1. k \notin dirty /\ k \in subscribed[k] /\ k \in Component
      BY <2>1, <1>m DEF HInv, Listening
    <3>2. k \notin Written(t, differing)
      BY <2>1, <3>1
    <3>3. k \notin items \ items'
      BY <3>2, <1>t, <1>n DEF Written
    <3> QED BY <2>1, <3>1, <3>3
  <2>5. NobodyMissesAChange'
    <3> SUFFICES ASSUME NEW k \in Outdated(differing) \cap Mounted,
                        k \notin Watcher, k \notin dirty
                 PROVE  k \in dirty'
      BY <1>5, <2>1 DEF NobodyMissesAChange, HInv
    <3>1. k \in subscribed[k] /\ k \in Component
      BY <1>m DEF HInv, Listening
    <3>2. k \in Node \cup items \cup ValueSignal \cup {"form_version"}
      BY <3>1, <1>n DEF HInv, NoDroppedSignal
    <3>3. k \in Written(t, differing)
      <4>1. CASE k = "form_version"
        BY <4>1 DEF Written
      <4>2. CASE k \in ValueSignal
        <5>1. k \in differing
          BY <4>2, <1>i, OutdatedMeaning, FormHandleAssumption
        <5> QED BY <4>2, <5>1 DEF Written, ValuesWritten
      <4>3. CASE k \in Node
        <5>1. k \in differing \/ (k = List /\ items' # items)
          BY <4>3, <1>i, OutdatedMeaning, FormHandleAssumption
        <5>2. k \notin ValueSignal
          BY <4>3, FormHandleAssumption
        <5>3. k \in changed
          BY <5>1, <5>2, <1>3 DEF nodes
        <5> QED BY <4>3, <5>3, <1>t, <1>n DEF Written
      <4>4. CASE k \in items
        <5>1. k \notin Node /\ k \notin ValueSignal /\ k # "form_version" /\ k # List
          BY <4>4, <1>i, FormHandleAssumption
        <5>2. \/ k \in differing
              \/ k \in items \ items'
          BY <4>4, <5>1, OutdatedMeaning
        <5>3. k \in changed \/ k \in items \ items'
          BY <5>1, <5>2, <1>3 DEF nodes
        <5> QED BY <4>4, <5>3, <1>t, <1>n DEF Written
      <4> QED BY <3>2, <4>1, <4>2, <4>3, <4>4
    <3> QED BY <2>1, <3>1, <3>3
  <2>6. ChildrenMounted'
    <3> SUFFICES ASSUME List \notin dirty' PROVE hosts = items'
      BY <1>4 DEF ChildrenMounted
    <3>1. List \notin dirty /\ hosts = items
      BY <2>1 DEF HInv, ChildrenMounted
    <3>2. List \in Mounted \ Watcher
      BY FormHandleAssumption DEF Mounted, Component, Signal
    <3>3. List \in subscribed[List]
      BY <3>1, <3>2 DEF HInv, Listening
    <3>4. List \notin Written(t, differing)
      BY <2>1, <3>2, <3>3
    <3>5. items' = items
      BY <3>4, <1>3, <1>t, <1>n, FormHandleAssumption DEF Written, nodes
    <3> QED BY <3>1, <3>5
  <2>7. NoDroppedSignal'
    <3> SUFFICES ASSUME NEW k \in Component
                 PROVE  subscribed'[k] \subseteq
                          nodeVersions' \cup ValueSignal \cup {"form_version"}
      BY DEF NoDroppedSignal
    <3>1. subscribed[k] \subseteq Node \cup items \cup ValueSignal \cup {"form_version"}
      BY <1>n DEF HInv, NoDroppedSignal
    <3> QED BY <2>1, <2>2, <3>1
  <2> QED
    BY <2>1, <2>2, <2>3, <2>4, <2>5, <2>6, <2>7
    DEF HInv, SignalsMatchNodes, SignalsHoldTheForm
<1> QED BY <1>6, <1>7

(* Rendering subscribes a component to what it shows.                      *)
LEMMA RenderKeeps ==
  ASSUME HInv, NEW c \in Component, Render(c)
  PROVE  HInv'
<1>0. /\ c \in dirty /\ ~borrowed
      /\ c \in hosts => List \notin dirty
      /\ UNCHANGED <<items, used, baselineItems, nodeVersions, current,
                     borrowed, disposed, outcome>>
  BY DEF Render, formVars, signalVars
<1>n. nodeVersions = Node \cup items /\ items \subseteq Item /\ hosts \subseteq Item
  BY DEF HInv, SignalsMatchNodes, HandleTypeOK
<1>1. CASE c # List
  <2>1. RenderOne(c)
    BY <1>1 DEF Render
  <2>2. HandleTypeOK'
    BY <1>0, <2>1, ReadsExisting DEF RenderOne, HInv, HandleTypeOK
  <2>3. NoDroppedSignal'
    BY <1>0, <2>1, ReadsExisting DEF RenderOne, HInv, HandleTypeOK, NoDroppedSignal
  <2>4. Listening'
    <3> SUFFICES ASSUME NEW k \in Mounted \ Watcher, k \notin dirty'
                 PROVE  k \in subscribed'[k]
      BY <1>0, <2>1 DEF Listening, Mounted, RenderOne
    <3>1. CASE k # c
      BY <3>1, <2>1 DEF RenderOne, HInv, Listening, HandleTypeOK
    <3>2. CASE k = c
      <4>1. k \in Item => k \in items
        <5> SUFFICES ASSUME k \in Item PROVE k \in items
          OBVIOUS
        <5>1. k \in hosts /\ ~disposed
          BY FormHandleAssumption DEF Mounted, Signal
        <5>2. hosts = items
          BY <5>1, <1>0, <3>2 DEF HInv, ChildrenMounted
        <5> QED BY <5>1, <5>2
      <4>2. Reads(k) = {k}
        BY <4>1, <3>2, ReadsItself DEF HInv
      <4> QED BY <4>2, <3>2, <2>1 DEF RenderOne, HInv, HandleTypeOK
    <3> QED BY <3>1, <3>2
  <2> QED
    BY <1>0, <1>1, <2>1, <2>2, <2>3, <2>4
    DEF RenderOne, HInv, SignalsMatchNodes, SignalsHoldTheForm,
        NobodyMissesAChange, ChildrenMounted
<1>2. CASE c = List
  <2>1. RenderList
    BY <1>2 DEF Render
  <2> DEFINE mounted == items \ hosts
             gone    == hosts \ items
  <2>2. /\ hosts' = items
        /\ subscribed' = [k \in Component |->
             IF k \in mounted \cup {List} THEN Reads(k)
             ELSE IF k \in gone THEN {} ELSE subscribed[k]]
        /\ dirty' = dirty \ ({List} \cup gone)
        /\ stale' = stale \ ({List} \cup gone)
    BY <2>1 DEF RenderList
  <2>3. HandleTypeOK'
    BY <1>0, <1>n, <2>2, ReadsExisting DEF HInv, HandleTypeOK
  <2>4. NoDroppedSignal'
    BY <1>0, <2>2, ReadsExisting DEF HInv, NoDroppedSignal
  <2>5. Listening'
    <3> SUFFICES ASSUME NEW k \in Mounted' \ Watcher, k \notin dirty'
                 PROVE  k \in subscribed'[k]
      BY DEF Listening
    <3>1. k \in Component \ Watcher /\ (k \notin Item \/ k \in items)
      BY <1>0, <1>n, <2>2, FormHandleAssumption DEF Mounted, Component, Signal
    <3>2. Reads(k) = {k}
      BY <3>1, ReadsItself DEF HInv
    <3>3. CASE k \in mounted \cup {List}
      BY <3>1, <3>2, <3>3, <2>2
    <3>4. CASE k \notin mounted \cup {List}
      <4>1. k \notin gone
        BY <3>1, <1>n, FormHandleAssumption
      <4>2. k \in Mounted /\ k \notin dirty
        BY <3>1, <3>4, <4>1, <1>0, <2>2 DEF Mounted
      <4>3. k \in subscribed[k]
        BY <4>2, <3>1 DEF HInv, Listening
      <4> QED BY <4>1, <4>3, <3>1, <3>4, <2>2
    <3> QED BY <3>3, <3>4
  <2> QED
    BY <1>0, <2>2, <2>3, <2>4, <2>5
    DEF HInv, SignalsMatchNodes, SignalsHoldTheForm, NobodyMissesAChange,
        ChildrenMounted
<1> QED BY <1>1, <1>2

LEMMA StepKeeps == HInv /\ [HandleNext]_handleVars => HInv'
<1> SUFFICES ASSUME HInv, [HandleNext]_handleVars PROVE HInv'
  OBVIOUS
<1>b. baselineItems \in SUBSET Item /\ baselineItems \subseteq used
  BY DEF HInv, HandleTypeOK
<1>1. CASE Refused \/ Rejected \/ BeginTransaction \/ FailTransaction
  <2>1. /\ UNCHANGED <<formVars, signalVars, disposed, viewVars>>
        /\ borrowed' \in BOOLEAN /\ (borrowed' => ~disposed)
        /\ outcome' \in {"ok", "rejected", "conflict", "disposed"}
    <3>1. CASE Refused
      BY <3>1 DEF Refused, Refusal, HInv, HandleTypeOK
    <3>2. CASE Rejected
      BY <3>2 DEF Rejected, Refusal, HInv, HandleTypeOK
    <3>3. CASE BeginTransaction
      BY <3>3 DEF BeginTransaction, Refusal
    <3>4. CASE FailTransaction
      BY <3>4 DEF FailTransaction, HInv
    <3> QED BY <1>1, <3>1, <3>2, <3>3, <3>4
  <2> QED
    BY <2>1 DEF formVars, signalVars, viewVars, HInv, HandleTypeOK,
      SignalsMatchNodes, SignalsHoldTheForm, NobodyMissesAChange, Listening,
      ChildrenMounted, NoDroppedSignal, Mounted
<1>2. CASE Operate
  <2>1. ~disposed /\ ~borrowed
    BY <1>2 DEF Operate, Refusal
  <2>2. Change({}) /\ baselineItems' \subseteq used'
    BY <1>2, <1>b DEF Operate, Change, Allocate
  <2> QED
    BY <1>2, <2>1, <2>2, ChangeKeeps DEF Operate, HInv, HandleTypeOK
<1>3. CASE Reset
  <2>1. ~disposed /\ ~borrowed
    BY <1>3 DEF Reset, Refusal
  <2>2. Change(baselineItems) /\ baselineItems' \subseteq used'
    BY <1>3, <1>b DEF Reset, Change, Allocate
  <2> QED
    BY <1>3, <1>b, <2>1, <2>2, ChangeKeeps DEF Reset, HInv, HandleTypeOK
<1>4. CASE Reinitialize
  <2>1. ~disposed /\ ~borrowed
    BY <1>4 DEF Reinitialize, Refusal
  <2>2. Change({}) /\ baselineItems' \subseteq used'
    BY <1>4, <1>b DEF Reinitialize, Change, Allocate, HInv, HandleTypeOK
  <2> QED
    BY <1>4, <2>1, <2>2, ChangeKeeps DEF Reinitialize, HInv, HandleTypeOK
<1>5. CASE CommitTransaction
  <2>1. ~disposed
    BY <1>5 DEF CommitTransaction, HInv
  <2>2. Change({}) /\ baselineItems' \subseteq used'
    BY <1>5, <1>b DEF CommitTransaction, Change, Allocate
  <2> QED
    BY <1>5, <2>1, <2>2, ChangeKeeps DEF CommitTransaction, HInv, HandleTypeOK
<1>6. CASE Dispose
  <2>1. Mounted' = {}
    BY <1>6 DEF Dispose, Mounted
  <2> QED
    BY <1>6, <2>1 DEF Dispose, formVars, signalVars, HInv, HandleTypeOK,
      SignalsMatchNodes, SignalsHoldTheForm, NobodyMissesAChange, Listening,
      ChildrenMounted, NoDroppedSignal
<1>7. CASE \E k \in Component : Render(k)
  BY <1>7, RenderKeeps
<1>8. CASE UNCHANGED handleVars
  BY <1>8 DEF handleVars, formVars, signalVars, viewVars, HInv, HandleTypeOK,
    SignalsMatchNodes, SignalsHoldTheForm, NobodyMissesAChange, Listening,
    ChildrenMounted, NoDroppedSignal, Mounted
<1> QED
  BY <1>1, <1>2, <1>3, <1>4, <1>5, <1>6, <1>7, <1>8 DEF HandleNext, Call

(* The invariant, for every set of nodes, items, signals and watchers.     *)
THEOREM HandleInvariant == HandleSpec => []HInv
BY InitHolds, StepKeeps, PTL DEF HandleSpec

(* No signal is leaked by items that come and go, none is missing, and the *)
(* summary and the shell have the form's present values to show.           *)
THEOREM SignalsExact == HandleSpec => []SignalsMirrorTheForm
<1>1. HInv => SignalsMirrorTheForm
  BY DEF HInv, SignalsMirrorTheForm
<1> QED BY HandleInvariant, <1>1, PTL

(* A mounted component that shows what is no longer so is rendered again.  *)
THEOREM ViewsCurrent == HandleSpec => []NobodyMissesAChange
<1>1. HInv => NobodyMissesAChange
  BY DEF HInv
<1> QED BY HandleInvariant, <1>1, PTL

(* Nothing changes the form while a transaction's closure runs.            *)
THEOREM ClosureExclusive == HandleSpec => ClosureIsAlone
<1> DEFINE A == borrowed /\ borrowed' => UNCHANGED formVars /\ outcome' = "conflict"
<1>1. HInv /\ [HandleNext]_handleVars => [A]_handleVars
  <2> SUFFICES ASSUME HInv, HandleNext, borrowed, borrowed'
               PROVE  UNCHANGED formVars /\ outcome' = "conflict"
    BY DEF handleVars
  <2>1. Refusal = "conflict"
    BY DEF Refusal, HInv
  <2>2. Refused
    BY <2>1 DEF HandleNext, Call, Rejected, Operate, Reset, Reinitialize,
      BeginTransaction, CommitTransaction, FailTransaction, Dispose, Render
  <2> QED BY <2>1, <2>2 DEF Refused
<1>2. HandleSpec => [][A]_handleVars
  BY HandleInvariant, <1>1, PTL DEF HandleSpec
<1> QED BY <1>2 DEF ClosureIsAlone

-----------------------------------------------------------------------------
(* Leaving a control finalizes the text typed over its value and never     *)
(* changes the value.                                                      *)
LEMMA LeavingKeepsValue ==
  ASSUME NEW n, NEW leaves PROVE Left(n, leaves).value = n.value
BY DEF Left, Finalized

(* A composition is ended by its end, by the blur and by the effect; none  *)
(* of them applies the text of one that began in an earlier lifecycle.     *)
THEOREM CompositionsDropped == WidgetSpec => EarlierCompositionsAreDropped
<1>1. ASSUME WidgetNext, composition # Idle, composition.lifecycle # lifecycle,
             composition' = Idle
      PROVE  node'.value = node.value
  <2>1. ~Composing
    BY <1>1 DEF Composing, IsCurrent
  <2>2. ASSUME NEW leaves, FinishComposition(leaves) PROVE node'.value = node.value
    BY <2>1, <2>2, LeavingKeepsValue DEF FinishComposition
  <2>3. CASE EditsWidget
    <3>1. ASSUME NEW text \in Texts, Input(text) PROVE FALSE
      BY <1>1, <2>1, <3>1 DEF Input, ApplyText
    <3>2. CASE StartComposition
      BY <3>2 DEF StartComposition
    <3>3. CASE EndComposition
      BY <2>2, <3>3 DEF EndComposition
    <3>4. CASE BlurText
      BY <2>2, <3>4 DEF BlurText
    <3>5. ASSUME NEW value, SetBoolean(value) PROVE FALSE
      BY <1>1, <3>5 DEF SetBoolean
    <3>6. ASSUME NEW option, Select(option) PROVE FALSE
      BY <1>1, <3>6 DEF Select
    <3>7. ASSUME NEW option \in Options, Toggle(option) PROVE FALSE
      BY <1>1, <3>7 DEF Toggle
    <3> QED
      BY <2>3, <3>1, <3>2, <3>3, <3>4, <3>5, <3>6, <3>7
       DEF EditsWidget, UsesText, UsesBoolean, UsesChoice, UsesMultipleChoice
  <2>4. CASE HostChanges
    BY <1>1, <2>4 DEF HostChanges, HostSets, HostReinitializes, HostResets, HostLocks
  <2>5. CASE RenderWidget
    BY <2>5 DEF RenderWidget
  <2>6. CASE DiscardComposition
    BY <2>6 DEF DiscardComposition
  <2>7. CASE RunScript
    BY <2>7 DEF RunScript
  <2> QED
    BY <1>1, <2>3, <2>4, <2>5, <2>6, <2>7 DEF WidgetNext
<1>2. UNCHANGED allVars => node'.value = node.value
  BY DEF allVars, vars
<1> QED
  BY <1>1, <1>2, PTL DEF WidgetSpec, EarlierCompositionsAreDropped
=============================================================================
