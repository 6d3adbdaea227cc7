--------------------------- MODULE ArrayViewProofs ---------------------------
(***************************************************************************)
(* Proofs about ArrayView, for all lists and any number of calls.          *)
(***************************************************************************)
EXTENDS ArrayView, TLAPS

(* While a message waits to be shown the announcement is empty, and what   *)
(* the live region holds is the message announced or older than an empty   *)
(* one.                                                                    *)
RegionInv ==
  /\ pendingAnnouncement # None => announcement[2] = None
  /\ announcement[2] # None => region[2] \in {None, announcement[2]}

LEMMA RegionInvInit == ArrayViewInit => RegionInv
BY DEF ArrayViewInit, RegionInv

(* Every operation that succeeds empties the announcement.                 *)
LEMMA SucceededEmpties ==
  ASSUME NEW event, NEW elements, Succeeded(event, elements)
  PROVE  RegionInv' /\ UNCHANGED region
BY DEF Succeeded, Announce, RegionInv, view

LEMMA OperateEmpties ==
  ASSUME NEW kind \in Kinds, NEW item, Operate(kind, item)
  PROVE  RegionInv' /\ UNCHANGED region
<1>1. CASE kind = "insert"
  BY <1>1, SucceededEmpties DEF Operate, InsertBefore
<1>2. CASE kind = "up"
  BY <1>2, SucceededEmpties DEF Operate, MoveUp
<1>3. CASE kind = "down"
  BY <1>3, SucceededEmpties DEF Operate, MoveDown
<1>4. CASE kind = "remove"
  BY <1>4, SucceededEmpties DEF Operate, RemoveItem
<1> QED
  BY <1>1, <1>2, <1>3, <1>4 DEF Kinds

Quiet == UNCHANGED <<region, announcement, pendingAnnouncement>>

LEMMA QuietKeeps == RegionInv /\ Quiet => RegionInv'
BY DEF RegionInv, Quiet

(* A step that is not a rendering leaves the region alone, and every step  *)
(* keeps the invariant.                                                    *)
LEMMA RegionStep ==
  ASSUME RegionInv, ArrayViewNext, \A a \in retained : a.kind \in Kinds
  PROVE  RegionInv' /\ (UNCHANGED region \/ (region' = announcement /\ Render))
<1>1. CASE Materialize
  BY <1>1, SucceededEmpties DEF Materialize
<1>2. CASE ClearList
  BY <1>2, SucceededEmpties DEF ClearList
<1>3. CASE AppendItem
  BY <1>3, SucceededEmpties DEF AppendItem
<1>4. ASSUME NEW kind \in Kinds, NEW item, Press(kind, item)
      PROVE  RegionInv' /\ UNCHANGED region
  BY <1>4, OperateEmpties DEF Press
<1>5. ASSUME NEW kind \in Kinds, NEW item, Retain(kind, item) PROVE Quiet
  BY <1>5 DEF Retain, view, feedback, Quiet
<1>6. ASSUME NEW a \in retained, Invoke(a) PROVE RegionInv' /\ UNCHANGED region
  <2>1. CASE Operate(a.kind, a.item)
    BY <2>1, OperateEmpties
  <2>2. CASE Refused
    BY <2>2, QuietKeeps DEF Refused, view, feedback, Quiet
  <2> QED
    BY <1>6, <2>1, <2>2 DEF Invoke
<1>7. ASSUME NEW list, HostSets(list) PROVE Quiet
  BY <1>7 DEF HostSets, view, feedback, Quiet
<1>8. CASE HostLocks
  <2>1. Quiet
    BY <1>8 DEF HostLocks, view, feedback, Quiet
  <2> QED
    BY <2>1, QuietKeeps DEF Quiet
<1>9. CASE Render
  BY <1>9 DEF Render, feedback, RegionInv
<1>10. CASE ShowAnnouncement
  <2>1. region[2] = None
    BY <1>10 DEF ShowAnnouncement, Rendered, RegionInv
  <2> QED
    BY <1>10, <2>1 DEF ShowAnnouncement, view, RegionInv
<1>11. CASE TargetFocus \/ FocusArrayTarget \/ RunFocus
  <2>1. Quiet
    BY <1>11 DEF TargetFocus, FocusArrayTarget, RunFocus, view, Quiet
  <2> QED
    BY <2>1, QuietKeeps DEF Quiet
<1> QED
  BY <1>1, <1>2, <1>3, <1>4, <1>5, <1>6, <1>7, <1>8, <1>9, <1>10, <1>11,
     QuietKeeps DEF ArrayViewNext, UsesList, Runs, Quiet

(* The affordances a renderer keeps are those it was given.                *)
Kept == \A a \in retained : a.kind \in Kinds

LEMMA SucceededKeeps ==
  ASSUME NEW event, NEW elements, Succeeded(event, elements)
  PROVE  UNCHANGED retained
BY DEF Succeeded

LEMMA KeptStep == Kept /\ [ArrayViewNext]_vars => Kept'
<1> SUFFICES ASSUME Kept, [ArrayViewNext]_vars PROVE Kept'
  OBVIOUS
<1>1. ASSUME NEW kind \in Kinds, NEW item, Operate(kind, item)
      PROVE  UNCHANGED retained
  <2>1. CASE kind = "insert"
    BY <1>1, <2>1, SucceededKeeps DEF Operate, InsertBefore
  <2>2. CASE kind = "up"
    BY <1>1, <2>2, SucceededKeeps DEF Operate, MoveUp
  <2>3. CASE kind = "down"
    BY <1>1, <2>3, SucceededKeeps DEF Operate, MoveDown
  <2>4. CASE kind = "remove"
    BY <1>1, <2>4, SucceededKeeps DEF Operate, RemoveItem
  <2> QED
    BY <2>1, <2>2, <2>3, <2>4 DEF Kinds
<1>2. ASSUME NEW kind \in Kinds, NEW item, Press(kind, item) \/ Retain(kind, item)
      PROVE  Kept'
  BY <1>1, <1>2 DEF Press, Retain, Kept
<1>3. ASSUME NEW a \in retained, Invoke(a) PROVE UNCHANGED retained
  BY <1>1, <1>3 DEF Invoke, Refused, Kept
<1>4. CASE Materialize \/ ClearList \/ AppendItem
  BY <1>4, SucceededKeeps DEF Materialize, ClearList, AppendItem, Kept
<1>5. ASSUME NEW list, HostSets(list) PROVE UNCHANGED retained
  BY <1>5 DEF HostSets
<1>6. CASE HostLocks \/ Render \/ Runs
  BY <1>6 DEF HostLocks, Render, Runs, ShowAnnouncement, TargetFocus,
     FocusArrayTarget, RunFocus, Kept
<1>7. CASE UNCHANGED vars
  BY <1>7 DEF vars, Kept
<1> QED
  BY <1>2, <1>3, <1>4, <1>5, <1>6, <1>7 DEF ArrayViewNext, UsesList, Kept

(* The live region is rendered empty between two messages, whatever the    *)
(* user and the host do and however the effects are delayed.               *)
THEOREM RegionEmptied == ArrayViewSpec => MessagesAreApart
<1>1. ArrayViewInit => RegionInv /\ Kept
  BY RegionInvInit DEF ArrayViewInit, Kept
<1>2. RegionInv /\ Kept /\ [ArrayViewNext]_vars => (RegionInv /\ Kept)'
  BY RegionStep, KeptStep, QuietKeeps DEF vars, Kept, Quiet, view, feedback
<1>3. RegionInv /\ Kept /\ [ArrayViewNext]_vars =>
        [region[2] = None \/ region'[2] \in {None, region[2]}]_vars
  <2> SUFFICES ASSUME RegionInv, Kept, ArrayViewNext
               PROVE  region[2] = None \/ region'[2] \in {None, region[2]}
    OBVIOUS
  <2> QED
    BY RegionStep DEF Kept, RegionInv
<1> QED
  BY <1>1, <1>2, <1>3, PTL DEF ArrayViewSpec, MessagesAreApart
=============================================================================
