------------------------------ MODULE ArrayView ------------------------------
(***************************************************************************)
(* A list of a form as the Dioxus adapter shows it (HomogeneousArray and   *)
(* CollectionItemHost): a button is an affordance of the scope that        *)
(* rendered it; an operation that succeeds is announced in a live region   *)
(* and moves the focus, both by effects that run after the rendering, the  *)
(* focus by a script that retries until its target is there.               *)
(*                                                                         *)
(* The form is reduced to the list: its items in order, or no list.        *)
(***************************************************************************)
EXTENDS Naturals, Sequences, SequencesExt

CONSTANTS
  HostLists,   \* lists the host may set, among them the one a reset restores
  MaxItem,     \* bound on the identities allocated
  MaxCalls,    \* bound on the calls of user and host
  None         \* no list, announcement, request or position

(* Every list is of items of its own.                                      *)
ASSUME ArrayViewAssumption ==
  /\ None \notin Nat
  /\ \A l \in HostLists : l = None \/ (l \in Seq(Nat) /\ IsInjective(l))
  /\ MaxItem \in Nat /\ MaxCalls \in Nat

VARIABLES
  items,        \* the list in the form, or None
  readOnly,     \* whether the form is read-only
  nextItem,     \* the next identity
  page,         \* the list, and whether it could be edited, as rendered
  scopes,       \* for each item rendered, the scope of its host
  retained,     \* affordances of items a renderer keeps: kind, item, scope
  announcement, \* sequence number and message
  pendingAnnouncement, pendingFocus, focusTarget,
  focusing,     \* the request of a script that has not found its target
  region,       \* the announcement as rendered
  focus,        \* the element that has the focus, or None
  last,         \* the last operation of the user if nobody came after it
  calls         \* calls made so far

form == <<items, readOnly, nextItem>>
view == <<page, scopes, region>>
feedback == <<announcement, pendingAnnouncement, pendingFocus, focusTarget, focusing>>
vars == <<form, view, retained, feedback, focus, last, calls>>

-----------------------------------------------------------------------------
(* The list.                                                               *)

Present == items # None
CanEdit == Present /\ ~readOnly
ItemSet(list) == IF list = None THEN {} ELSE ToSet(list)
Place(list, item) == CHOOSE i \in DOMAIN list : list[i] = item
Has(item) == item \in ItemSet(items)
Swapped(list, i, j) == [list EXCEPT ![i] = list[j], ![j] = list[i]]

(* What is in the document. The page shows the list it rendered, the       *)
(* buttons of an item where they do something.                             *)
Element(kind, item) == [kind |-> kind, item |-> item]
ArrayElement == Element("array", None)
AppendElement == Element("append", None)

ExistsOn(pg, e) ==
  CASE e.kind = "array" -> TRUE
    [] e.kind = "append" -> pg.editable
    [] OTHER ->
         /\ e.item \in ItemSet(pg.list)
         /\ e.kind = "up" => pg.editable /\ Place(pg.list, e.item) > 1
         /\ e.kind = "down" => pg.editable /\ Place(pg.list, e.item) < Len(pg.list)
Exists(e) == ExistsOn(page, e)

Rendered ==
  /\ page = [list |-> items, editable |-> CanEdit]
  /\ region = announcement

Position(item) == Place(page.list, item)

-----------------------------------------------------------------------------
(* Calls. What a call made dirty is rendered, and its effects and scripts  *)
(* have run, before the user's next event; the host waits for nothing.     *)

Called == calls < MaxCalls /\ calls' = calls + 1
EffectsRan == pendingAnnouncement = None /\ pendingFocus = None
              /\ focusTarget = None /\ focusing = None
UserCalls == Called /\ Rendered /\ EffectsRan

(* The region is emptied before it holds the next message, so that the     *)
(* same message is announced again; a message put over another, and one    *)
(* that is emptied last.                                                   *)
AnnounceOver(event) ==
  /\ announcement' = <<announcement[1] + 1, event>>
  /\ pendingAnnouncement' = None
AnnounceNothing(event) ==
  /\ announcement' = <<announcement[1] + 1, None>>
  /\ pendingAnnouncement' = None
Announce(event) ==
  /\ announcement' = <<announcement[1] + 1, None>>
  /\ pendingAnnouncement' = <<announcement[1] + 1, event>>

(* Focus goes to the first of these elements there is.                     *)
Focus(elements) == pendingFocus' = elements

Succeeded(event, elements) ==
  /\ Announce(event)
  /\ Focus(elements)
  /\ last' = event
  /\ UNCHANGED <<readOnly, view, retained, focusTarget, focusing, focus>>

(* The operation was refused, and reported to on_error.                    *)
Refused == UNCHANGED <<form, view, retained, feedback, focus, last>>

Event(kind, item, position) == [kind |-> kind, item |-> item, position |-> position]

Materialize ==
  /\ UserCalls /\ ~Present /\ ~readOnly
  /\ items' = <<>>
  /\ UNCHANGED nextItem
  /\ Succeeded(Event("materialized", None, None), <<ArrayElement>>)

ClearList ==
  /\ UserCalls /\ CanEdit
  /\ items' = None
  /\ UNCHANGED nextItem
  /\ Succeeded(Event("cleared", None, None), <<ArrayElement>>)

(* The new item is the one that was not there before, wherever it is.      *)
NewItems == {i \in ItemSet(items') : i \notin ItemSet(items)}
FocusNewItem == <<Element("item", CHOOSE i \in NewItems : TRUE)>>

AppendItem ==
  /\ UserCalls /\ CanEdit /\ nextItem <= MaxItem
  /\ items' = Append(items, nextItem)
  /\ nextItem' = nextItem + 1
  /\ Succeeded(Event("added", nextItem, Len(items')), FocusNewItem)

(* The affordances of an item: their closures are those of the item's last *)
(* rendering, so positions are as rendered.                                *)
InsertBefore(item) ==
  /\ Has(item) /\ CanEdit /\ nextItem <= MaxItem
  /\ items' = InsertAt(items, Place(items, item), nextItem)
  /\ nextItem' = nextItem + 1
  /\ Succeeded(Event("inserted", nextItem, Position(item)), FocusNewItem)

MoveUp(item) ==
  /\ Has(item) /\ CanEdit /\ Place(items, item) > 1
  /\ items' = Swapped(items, Place(items, item) - 1, Place(items, item))
  /\ UNCHANGED nextItem
  /\ Succeeded(Event("moved", item, Position(item) - 1),
               <<Element("up", item), Element("down", item), Element("row", item)>>)

MoveDown(item) ==
  /\ Has(item) /\ CanEdit /\ Place(items, item) < Len(items)
  /\ items' = Swapped(items, Place(items, item), Place(items, item) + 1)
  /\ UNCHANGED nextItem
  /\ Succeeded(Event("moved", item, Position(item) + 1),
               <<Element("down", item), Element("up", item), Element("row", item)>>)

(* Where the focus goes when an item is removed: to the next item, to the  *)
(* one before if it was the last, or to the button that adds one. And the  *)
(* item itself, as if it were looked up after the removal.                 *)
KeepFocus(list, index) == <<Element("item", list[index])>>
NextFocus(list, index) ==
  CASE index < Len(list) -> <<Element("item", list[index + 1])>>
    [] index = Len(list) /\ index > 1 -> <<Element("item", list[index - 1])>>
    [] OTHER -> <<AppendElement>>

RemoveItem(item) ==
  LET index == Place(items, item)
  IN /\ Has(item) /\ CanEdit
     /\ items' = RemoveAt(items, index)
     /\ UNCHANGED nextItem
     /\ Succeeded(Event("removed", item, index), NextFocus(items, index))

Operate(kind, item) ==
  \/ kind = "insert" /\ InsertBefore(item)
  \/ kind = "up" /\ MoveUp(item)
  \/ kind = "down" /\ MoveDown(item)
  \/ kind = "remove" /\ RemoveItem(item)

Refuses(kind, item) ==
  \/ ~Has(item) \/ ~CanEdit
  \/ kind = "up" /\ Place(items, item) = 1
  \/ kind = "down" /\ Place(items, item) = Len(items)

Offered(kind, item) ==
  /\ page.editable /\ item \in ItemSet(page.list)
  /\ kind = "up" => Position(item) > 1
  /\ kind = "down" => Position(item) < Len(page.list)

Kinds == {"insert", "up", "down", "remove"}

(* The user presses a button that is on the page.                          *)
Press(kind, item) ==
  /\ UserCalls /\ Offered(kind, item)
  /\ Operate(kind, item)

(* A renderer keeps an affordance, and invokes it later: nothing is        *)
(* performed if the scope that made it is gone.                            *)
Retain(kind, item) ==
  /\ Called /\ retained = {} /\ Offered(kind, item)
  /\ retained' = {[kind |-> kind, item |-> item, scope |-> scopes[item]]}
  /\ UNCHANGED <<form, view, feedback, focus, last>>

Invoke(a) ==
  /\ UserCalls
  /\ IF a.item \in ItemSet(page.list) /\ scopes[a.item] = a.scope
     THEN \/ Operate(a.kind, a.item)
          \/ Refuses(a.kind, a.item) /\ Refused
     ELSE Refused

(* The host replaces the list, keeping items or not, or resets the form.   *)
HostSets(list) ==
  /\ Called
  /\ items' = list
  /\ last' = None
  /\ UNCHANGED <<readOnly, nextItem, view, retained, feedback, focus>>

HostLocks ==
  /\ Called
  /\ readOnly' = ~readOnly
  /\ last' = None
  /\ UNCHANGED <<items, nextItem, view, retained, feedback, focus>>

-----------------------------------------------------------------------------
(* What runs between calls.                                                *)

(* Hosts are keyed by item: an item that was rendered before keeps its     *)
(* scope. An element that is gone loses the focus, and one that is moved   *)
(* in the document may lose it.                                            *)
Render ==
  /\ ~Rendered
  /\ page' = [list |-> items, editable |-> CanEdit]
  /\ region' = announcement
  /\ scopes' = [i \in ItemSet(items) |->
                  IF i \in ItemSet(page.list) THEN scopes[i] ELSE calls]
  /\ \/ focus' = IF focus # None /\ ExistsOn(page', focus)
                  THEN focus ELSE None
     \/ page.list # items /\ focus' = None
  /\ UNCHANGED <<form, retained, feedback, last, calls>>

(* The effects.                                                            *)
ShowAnnouncement ==
  /\ Rendered /\ pendingAnnouncement # None
  /\ announcement' = pendingAnnouncement
  /\ pendingAnnouncement' = None
  /\ UNCHANGED <<form, view, retained, pendingFocus, focusTarget, focusing, focus,
                 last, calls>>

TargetFocus ==
  /\ Rendered /\ pendingFocus # None
  /\ focusTarget' = pendingFocus
  /\ pendingFocus' = None
  /\ UNCHANGED <<form, view, retained, announcement, pendingAnnouncement, focusing,
                 focus, last, calls>>

FocusArrayTarget ==
  /\ Rendered /\ focusTarget # None
  /\ focusing' = focusTarget
  /\ focusTarget' = None
  /\ UNCHANGED <<form, view, retained, announcement, pendingAnnouncement, pendingFocus,
                 focus, last, calls>>

(* The script finds its target, or gives up when the page has been         *)
(* rendered without it; the row of an item is there and takes no focus.    *)
Resolved(elements) ==
  LET there == SelectSeq(elements, Exists)
  IN IF there = <<>> THEN None ELSE Head(there)

TakesFocus(e) == e # None /\ e.kind # "row"

RunFocus ==
  /\ focusing # None
  /\ Rendered \/ TakesFocus(Resolved(focusing))
  /\ focus' = IF TakesFocus(Resolved(focusing)) THEN Resolved(focusing) ELSE focus
  /\ focusing' = None
  /\ UNCHANGED <<form, view, retained, announcement, pendingAnnouncement, pendingFocus,
                 focusTarget, last, calls>>

ArrayViewInit ==
  /\ items \in HostLists
  /\ readOnly = FALSE
  /\ nextItem = 1 + Max({0} \cup UNION {ItemSet(l) : l \in HostLists})
  /\ page = [list |-> items, editable |-> CanEdit]
  /\ scopes = [i \in ItemSet(items) |-> 0]
  /\ retained = {}
  /\ announcement = <<0, None>> /\ region = <<0, None>>
  /\ pendingAnnouncement = None /\ pendingFocus = None
  /\ focusTarget = None /\ focusing = None /\ focus = None
  /\ last = None /\ calls = 0

UsesList ==
  \/ Materialize \/ ClearList \/ AppendItem
  \/ \E kind \in Kinds, item \in 1..MaxItem : Press(kind, item) \/ Retain(kind, item)
  \/ \E a \in retained : Invoke(a)

Runs == ShowAnnouncement \/ TargetFocus \/ FocusArrayTarget \/ RunFocus

ArrayViewNext ==
  \/ UsesList
  \/ (\E list \in HostLists : HostSets(list)) \/ HostLocks
  \/ Render \/ Runs

ArrayViewSpec ==
  /\ ArrayViewInit /\ [][ArrayViewNext]_vars
  /\ WF_vars(Render) /\ WF_vars(ShowAnnouncement) /\ WF_vars(TargetFocus)
  /\ WF_vars(FocusArrayTarget) /\ WF_vars(RunFocus)

-----------------------------------------------------------------------------
(* A live region never goes from one message to the next: it is rendered   *)
(* empty in between, or a screen reader would not speak the same message   *)
(* twice (set_array_announcement and the effect that completes it).        *)
MessagesAreApart ==
  [][region[2] = None \/ region'[2] \in {None, region[2]}]_vars

(* The last operation of the user comes to be announced, with the place    *)
(* the item then has, unless the host intervened.                          *)
Announced ==
  /\ region[2] = last
  /\ last.kind \in {"added", "inserted", "moved"} =>
       last.position = Place(items, last.item)
LastOperationIsAnnounced == <>[](last # None => Announced)

(* And the focus comes to rest: on the new item, on a button of the item   *)
(* that was moved, on the item that took the place of the one removed, or  *)
(* the one before, or on the button that adds one; it is never lost to the *)
(* page with the button that had it.                                       *)
FocusRests ==
  CASE last.kind \in {"added", "inserted"} -> focus = Element("item", last.item)
    [] last.kind = "moved" -> focus \in {Element("up", last.item),
                                         Element("down", last.item)}
    [] last.kind = "removed" ->
         IF items = <<>> THEN focus = AppendElement
         ELSE focus = Element("item", items[IF last.position > Len(items)
                                            THEN Len(items) ELSE last.position])
    [] OTHER -> focus = ArrayElement
FocusFollows == <>[](last # None => FocusRests)
=============================================================================
