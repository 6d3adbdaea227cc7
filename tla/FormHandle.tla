----------------------------- MODULE FormHandle -----------------------------
(***************************************************************************)
(* The handle of crates/schemaform-dioxus/src/handle.rs: one form shared   *)
(* by the components of a page, which subscribe to signals as they render. *)
(* The handle owns one signal per node and four for the form as a whole.   *)
(* An operation borrows the form, and after releasing it writes the        *)
(* signals its transition names; Dioxus marks the components subscribed to *)
(* them dirty and renders them again, one at a time, later.                *)
(*                                                                         *)
(* Of the form itself the model keeps what is shown, and lets an operation *)
(* do whatever FormContract lets it.                                       *)
(***************************************************************************)
EXTENDS Naturals, FiniteSets

CONSTANTS
  Node,         \* the nodes that are always there
  List,         \* the one whose children are the items
  Item,         \* the identities of items
  ValueSignal,  \* the signals that hold a value: summary_projection, read_only
  Watcher,      \* components outside the list that keep the reader of an item
  Watches,      \* the item each of them reads
  MaxUnneeded   \* how many nodes an operation names without need (a bound)

(* One component per node, one for each item the list has mounted, one for *)
(* each value signal (the finding summary, the shell) and a reader of the  *)
(* form as a whole.  A node's signal and its component have its name.      *)
Signal == Node \cup Item \cup ValueSignal \cup {"form_version"}
Component == Signal \cup Watcher

ASSUME FormHandleAssumption ==
  /\ List \in Node
  /\ Watches \in [Watcher -> Item]
  /\ Node \cap Item = {}
  /\ ValueSignal \cap (Node \cup Item) = {}
  /\ "form_version" \notin Node \cup Item \cup ValueSignal
  /\ Watcher \cap Signal = {}
  /\ MaxUnneeded \in Nat

VARIABLES
  items,          \* the items that are there
  used,           \* the item identities handed out so far
  baselineItems,  \* the items a reset restores
  nodeVersions,   \* the nodes that have a signal
  current,        \* the value signals that hold the form's present value
  borrowed,       \* whether a transaction's closure is running
  disposed,       \* whether the creating scope is gone
  outcome,        \* how the last call ended
  hosts,          \* the items whose components are mounted
  subscribed,     \* the signals each component read when it rendered
  dirty,          \* the components Dioxus has to render again
  stale           \* the components that show what is no longer so

formVars == <<items, used, baselineItems>>
signalVars == <<nodeVersions, current>>
viewVars == <<hosts, subscribed, dirty, stale>>
handleVars == <<formVars, signalVars, borrowed, disposed, outcome, viewVars>>

Form == INSTANCE FormContract WITH
  shown <- {}, whole <- {}, revision <- 0, transition <- {}

Mounted ==
  IF disposed THEN {}
  ELSE Node \cup hosts \cup Watcher \cup ValueSignal \cup {"form_version"}

(* observe_node subscribes to nothing when the node has no signal.         *)
Reads(k) ==
  CASE k \in Node \cup Item -> {k} \cap nodeVersions
    [] k \in Watcher        -> {Watches[k]} \cap nodeVersions
    [] OTHER                -> {k}
-----------------------------------------------------------------------------
(* apply_transition: nothing for an empty transition.  A node that is new  *)
(* gets its signal before those that changed are written; a value signal   *)
(* is set when its value differs; the signals of removed nodes are written *)
(* once more and dropped, and whoever subscribed to one is subscribed to   *)
(* nothing.                                                                *)
ValuesWritten(differing) ==
  {s \in ValueSignal : s \in differing \/ s \notin current}
Written(t, differing) ==
  {"form_version"} \cup ValuesWritten(differing)
    \cup ((t.changed \cup t.removed) \cap nodeVersions)

(* Mutant: a new node gets no signal.                                      *)
ApplyToKnownNodes(t, revised, differing) ==
  IF Form!IsEmpty(t, revised)
  THEN /\ current' = current \ differing
       /\ UNCHANGED <<nodeVersions, subscribed, dirty>>
  ELSE /\ current' = ValueSignal
       /\ nodeVersions' = nodeVersions \ t.removed
       /\ subscribed' = [k \in Component |-> subscribed[k] \ t.removed]
       /\ dirty' = dirty \cup
            {k \in Mounted : subscribed[k] \cap Written(t, differing) # {}}

(* Mutant: the signals of removed nodes stay.                              *)
ApplyKeepingSignals(t, revised, differing) ==
  /\ current' = ValueSignal
  /\ nodeVersions' = nodeVersions \cup (t.changed \cap (Node \cup items'))
  /\ dirty' = dirty \cup
       {k \in Mounted : subscribed[k] \cap Written(t, differing) # {}}
  /\ UNCHANGED subscribed

ApplyTransition(t, revised, differing) ==
  IF Form!IsEmpty(t, revised)
  THEN /\ current' = current \ differing
       /\ UNCHANGED <<nodeVersions, subscribed, dirty>>
  ELSE /\ current' = ValueSignal
       /\ nodeVersions' =
            (nodeVersions \cup (t.changed \cap (Node \cup items'))) \ t.removed
       /\ subscribed' = [k \in Component |-> subscribed[k] \ t.removed]
       /\ dirty' = dirty \cup
            {k \in Mounted : subscribed[k] \cap Written(t, differing) # {}}

(* The components that show a changed node or value, or an item that has   *)
(* come or gone.                                                           *)
Source(k) == IF k \in Watcher THEN Watches[k] ELSE k
Outdated(differing) ==
  {k \in Component :
     \/ Source(k) \in differing
     \/ Source(k) \in (items \ items') \cup (items' \ items)
     \/ k = List /\ items' # items
     \/ k = "form_version" /\ (items' # items \/ differing # {})}

(* Identities are allocated once.                                          *)
Allocate(added) == used' = used \cup added

(* The form changes, in any way FormContract lets it, and its transition   *)
(* is published.  An identity is new unless the baseline is restored.      *)
Change(restored) ==
  /\ \E added \in SUBSET (Item \ used) :
       /\ items' \in SUBSET (items \cup added \cup restored)
       /\ added \subseteq items'
       /\ Allocate(added)
  /\ \E differing \in SUBSET (Node \cup (items \cap items') \cup ValueSignal),
        changed \in SUBSET (Node \cup items'),
        revised \in BOOLEAN :
       LET t == [changed |-> changed, removed |-> items \ items']
           nodes == (differing \ ValueSignal)
                      \cup (IF items' # items THEN {List} ELSE {})
       IN  /\ Cardinality(changed \ (nodes \cup items')) <= MaxUnneeded
           /\ ~revised => changed = {} /\ items' = items
           /\ Form!TellsOf(t, revised, items, items', nodes,
                           differing \cap ValueSignal # {})
           /\ ApplyTransition(t, revised, differing)
           /\ stale' = stale \cup (Outdated(differing) \cap Mounted)
  /\ UNCHANGED hosts
-----------------------------------------------------------------------------
(* ensure_live, then try_borrow_mut.  (Mutant: only the first of them.)    *)
RefusalOfDisposed == IF disposed THEN "disposed" ELSE "none"
Refusal == IF disposed THEN "disposed" ELSE IF borrowed THEN "conflict" ELSE "none"

Refused ==
  /\ Refusal # "none"
  /\ outcome' = Refusal
  /\ UNCHANGED <<formVars, signalVars, borrowed, disposed, viewVars>>

(* The core rejects the operation: it has changed nothing, and nothing is  *)
(* published.                                                              *)
Rejected ==
  /\ Refusal = "none"
  /\ outcome' = "rejected"
  /\ UNCHANGED <<formVars, signalVars, borrowed, disposed, viewVars>>

(* apply_user_operation, and the host operations that run no closure.      *)
Operate ==
  /\ Refusal = "none"
  /\ Change({})
  /\ outcome' = "ok"
  /\ UNCHANGED <<baselineItems, borrowed, disposed>>

Reset ==
  /\ Refusal = "none"
  /\ Change(baselineItems)
  /\ items' = baselineItems
  /\ outcome' = "ok"
  /\ UNCHANGED <<baselineItems, borrowed, disposed>>

Reinitialize ==
  /\ Refusal = "none"
  /\ Change({})
  /\ items' \cap items = {}
  /\ baselineItems' = items'
  /\ outcome' = "ok"
  /\ UNCHANGED <<borrowed, disposed>>

(* try_transact: the closure runs while the form is borrowed, so that any  *)
(* call it makes is refused, and its transition is published afterwards.   *)
BeginTransaction ==
  /\ Refusal = "none"
  /\ borrowed' = TRUE
  /\ outcome' = "ok"
  /\ UNCHANGED <<formVars, signalVars, disposed, viewVars>>

CommitTransaction ==
  /\ borrowed
  /\ borrowed' = FALSE
  /\ Change({})
  /\ outcome' = "ok"
  /\ UNCHANGED <<baselineItems, disposed>>

FailTransaction ==
  /\ borrowed
  /\ borrowed' = FALSE
  /\ outcome' = "rejected"
  /\ UNCHANGED <<formVars, signalVars, disposed, viewVars>>

(* The scope that created the form is dropped, and the page with it; a     *)
(* clone of the handle may outlive it.                                     *)
Dispose ==
  /\ ~disposed /\ ~borrowed
  /\ disposed' = TRUE
  /\ dirty' = {} /\ stale' = {} /\ hosts' = {}
  /\ subscribed' = [k \in Component |-> {}]
  /\ UNCHANGED <<formVars, signalVars, borrowed, outcome>>

(* Dioxus renders a dirty component, which reads what it shows and         *)
(* subscribes anew.  Rendering the list mounts the components of items     *)
(* that are new to it, and unmounts those of items that are gone.          *)
RenderOne(k) ==
  /\ subscribed' = [subscribed EXCEPT ![k] = Reads(k)]
  /\ dirty' = dirty \ {k}
  /\ stale' = stale \ {k}
  /\ UNCHANGED hosts

RenderList ==
  LET mounted == items \ hosts
      gone    == hosts \ items
  IN  /\ hosts' = items
      /\ subscribed' = [k \in Component |->
           IF k \in mounted \cup {List} THEN Reads(k)
           ELSE IF k \in gone THEN {} ELSE subscribed[k]]
      /\ dirty' = dirty \ ({List} \cup gone)
      /\ stale' = stale \ ({List} \cup gone)

(* Dioxus renders parents first, and nothing while a closure runs.         *)
Render(k) ==
  /\ k \in dirty /\ ~borrowed
  /\ k \in hosts => List \notin dirty
  /\ IF k = List THEN RenderList ELSE RenderOne(k)
  /\ UNCHANGED <<formVars, signalVars, borrowed, disposed, outcome>>
-----------------------------------------------------------------------------
(* FormHandle::new gives every node a signal; the page renders once.  A    *)
(* reader is to be had only of an item that is there.                      *)
HandleInit ==
  /\ items \in SUBSET Item
  /\ \A w \in Watcher : Watches[w] \in items
  /\ used = items /\ baselineItems = items
  /\ nodeVersions = Node \cup items
  /\ current = ValueSignal
  /\ borrowed = FALSE /\ disposed = FALSE
  /\ outcome = "ok"
  /\ hosts = items
  /\ subscribed = [k \in Component |-> IF k \in Item \ items THEN {} ELSE Reads(k)]
  /\ dirty = {} /\ stale = {}

Call ==
  \/ Refused \/ Rejected
  \/ Operate \/ Reset \/ Reinitialize
  \/ BeginTransaction \/ CommitTransaction \/ FailTransaction

HandleNext == Call \/ Dispose \/ \E k \in Component : Render(k)

(* The closure of a transaction returns.  Dioxus renders what is dirty     *)
(* between two events, so that no sequence of calls keeps it from doing    *)
(* so: hence strong fairness of each component's rendering.                *)
HandleFairness ==
  /\ WF_handleVars(CommitTransaction \/ FailTransaction)
  /\ \A k \in Component : SF_handleVars(Render(k))

HandleSpec == HandleInit /\ [][HandleNext]_handleVars
FairHandleSpec == HandleSpec /\ HandleFairness
-----------------------------------------------------------------------------
(* The type invariant, proved in DioxusProofs.                             *)
HandleTypeOK ==
  /\ items \subseteq used /\ used \subseteq Item /\ baselineItems \subseteq used
  /\ nodeVersions \subseteq Node \cup Item
  /\ current \subseteq ValueSignal
  /\ borrowed \in BOOLEAN /\ disposed \in BOOLEAN
  /\ outcome \in {"ok", "rejected", "conflict", "disposed"}
  /\ hosts \subseteq Item
  /\ subscribed \in [Component -> SUBSET Signal]
  /\ dirty \subseteq Component /\ stale \subseteq Component

(* Every node there is has a signal and no other has: none is leaked by    *)
(* items that come and go, and none is missing for an item that is there.  *)
SignalsMatchNodes == nodeVersions = Node \cup items

(* The signals that hold a value hold the form's, although an empty        *)
(* transition leaves them alone.                                           *)
SignalsHoldTheForm == current = ValueSignal

(* Together: the signals are those of the form that is.                    *)
SignalsMirrorTheForm == SignalsMatchNodes /\ SignalsHoldTheForm

(* No component shows what is no longer so unless Dioxus is about to       *)
(* render it again, whatever changes between its renders.                  *)
NobodyMissesAChange == stale \ Watcher \subseteq dirty

(* "Reads an owned projection of this node and registers a node-level      *)
(* subscription": the same for whoever keeps the reader of an item.        *)
WatchersMissNoChange == stale \cap Watcher \subseteq dirty

(* While a transaction's closure runs, nothing changes the form, and what  *)
(* the closure calls on the handle is refused.                             *)
ClosureIsAlone ==
  [][borrowed /\ borrowed' => UNCHANGED formVars /\ outcome' = "conflict"]_handleVars

(* Whatever a component shows that is no longer so, it shows the present   *)
(* form in the end, or is unmounted.                                       *)
PageCatchesUp == \A k \in Component \ Watcher : k \in stale ~> k \notin stale
=============================================================================
