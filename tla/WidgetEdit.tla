----------------------------- MODULE WidgetEdit -----------------------------
(***************************************************************************)
(* A control of a form as a browser's widget edits it: the edit hooks of   *)
(* the Dioxus adapter (use_text_edit, use_boolean_edit, use_choice_edit,   *)
(* use_multiple_choice_edit), between the widget's own state, which the    *)
(* user changes first, and the form, which may refuse the change.          *)
(*                                                                         *)
(* A widget has parts, each showing a face: a text field, a tri-state and  *)
(* a select are one part, a multiple choice is a checkbox for each option. *)
(* Dioxus writes a face only when what the hook shows differs from what it *)
(* wrote last; where the form refused what the user did nothing differs,   *)
(* so the hooks send a script that puts the face right.                    *)
(*                                                                         *)
(* The form is reduced to one node: its value, the text being typed over   *)
(* it, and whether it can be written. It refuses text over its limits, and *)
(* while it is read-only all edits; other values it may refuse at will.    *)
(***************************************************************************)
EXTENDS Naturals, Sequences

CONSTANTS
  Texts,       \* what can be in a text field, the spellings of values included
  TextValues,  \* the values of a text control
  Parse,       \* the value of a text, or Unparsable
  Spelled,     \* the text of a value
  Unparsable,
  TooLong,     \* texts over the form's limits
  Options,     \* the options of a choice, none of them null
  Unknown,     \* what a select reports for an option that is no longer there
  Null, Absent, Foreign,  \* null, no value, and one the control cannot hold
  Blank,       \* the empty text, and no option selected
  Idle,        \* no composition
  ScriptsFirst, \* whether the browser runs scripts before Dioxus renders
  MaxCalls     \* bound on the calls of user and host

ASSUME WidgetAssumption ==
  /\ Blank \in Texts
  /\ Parse \in [Texts -> TextValues \cup {Absent, Unparsable}]
  /\ Spelled \in [TextValues -> Texts]
  /\ \A v \in TextValues : Parse[Spelled[v]] = v
  /\ TooLong \subseteq Texts \ ({Blank} \cup {Spelled[v] : v \in TextValues})
  /\ ScriptsFirst \in BOOLEAN
  /\ MaxCalls \in Nat

VARIABLES
  kind,         \* which hook edits the control
  node,         \* the control's node
  baseline,     \* the value a reset restores
  lifecycle,    \* counts resets and reinitializations
  composition,  \* text composed by an input method, and the lifecycle it began in
  dom,          \* the face of each part in the browser
  rendered,     \* the face Dioxus wrote last
  scripts,      \* resynchronisations sent to the browser
  calls,        \* calls made so far
  superseded    \* history: a composition was superseded once it was stale

vars == <<kind, node, baseline, lifecycle, composition, dom, rendered,
          scripts, calls>>
allVars == <<vars, superseded>>

-----------------------------------------------------------------------------
(* What a widget can show, by kind.                                        *)

Kinds == {"text", "boolean", "choice", "multiple"}

Values(k) ==
  CASE k = "text" -> TextValues \cup {Absent, Foreign}
    [] k = "boolean" -> {TRUE, FALSE, Null, Absent, Foreign}
    [] k = "choice" -> Options \cup {Null, Absent, Foreign}
    [] k = "multiple" -> SUBSET Options

Whole == "whole"
Parts == IF kind = "multiple" THEN Options ELSE {Whole}

(* Whether a composition belongs to the lifecycle of the form.             *)
AlwaysCurrent(started, now) == TRUE
IsCurrent(started, now) == started = now

Composing == composition # Idle /\ IsCurrent(composition.lifecycle, lifecycle)

DisplayText(n) ==
  IF n.buffer # Idle THEN n.buffer
  ELSE IF n.writeOnly \/ n.value \notin TextValues THEN Blank
  ELSE Spelled[n.value]

(* A tri-state shows null, and write-only data, as neither on nor off, and *)
(* what is missing or no boolean as off.                                   *)
DisplayedBoolean(n) ==
  IF n.writeOnly \/ n.value = Null THEN Null ELSE n.value = TRUE

SelectedOption(n) ==
  IF n.writeOnly \/ n.value \notin Options \cup {Null} THEN Blank ELSE n.value

IsMember(n, option) == ~n.writeOnly /\ option \in n.value

(* The face of a part in a given state of the node, as the hooks' memos    *)
(* derive it.                                                              *)
Face(n, part) ==
  CASE kind = "text" -> DisplayText(n)
    [] kind = "boolean" -> DisplayedBoolean(n)
    [] kind = "choice" -> SelectedOption(n)
    [] kind = "multiple" -> IsMember(n, part)

Shown(part) == IF Composing THEN composition.text ELSE Face(node, part)

-----------------------------------------------------------------------------
(* Calls. What a call made dirty is rendered, and the scripts it sent have *)
(* run, before the next one, be it an event of the user or a task of the   *)
(* host; the effects may run later.                                        *)

Stale == composition # Idle /\ ~IsCurrent(composition.lifecycle, lifecycle)

Rendered == \A p \in Parts : rendered[p] = Shown(p)

Called == calls < MaxCalls /\ calls' = calls + 1

Calls == Called /\ scripts = <<>> /\ Rendered

InDom(part, face) == dom' = [dom EXCEPT ![part] = face]

(* A script that puts a part right; and one that is forgotten.             *)
NoResync(part, face) == scripts' = scripts
Resync(part, face) == scripts' = Append(scripts, [part |-> part, face |-> face])

ResetNode(n) == [n EXCEPT !.value = baseline, !.buffer = Idle]

(* Typing replaces the value if the text parses, and is kept as it is.     *)
Typed(n, text) ==
  [n EXCEPT !.buffer = text,
            !.value = IF Parse[text] = Unparsable THEN n.value ELSE Parse[text]]

(* Leaving a control that can be written drops text that parsed.           *)
Finalized(n) ==
  IF ~n.readOnly /\ n.buffer # Idle /\ Parse[n.buffer] # Unparsable
  THEN [n EXCEPT !.buffer = Idle] ELSE n

Left(n, leaves) == IF leaves THEN Finalized(n) ELSE n

(* Text is applied, or is refused and the text the node has now is put     *)
(* back; on_error has been called before, in which the host may reset the  *)
(* form. "after" is the composition that remains; "leaves" says whether    *)
(* the control is left as well.                                            *)
ApplyText(text, after, leaves) ==
  \/ /\ ~node.readOnly /\ text \notin TooLong
     /\ node' = Left(Typed(node, text), leaves)
     /\ composition' = after
     /\ UNCHANGED <<lifecycle, scripts>>
  \/ \E n \in {node, ResetNode(node)} :
       /\ node.readOnly \/ text \in TooLong
       /\ node' = Left(n, leaves)
       /\ lifecycle' = lifecycle + (IF n = node THEN 0 ELSE 1)
       /\ composition' = after
       /\ Resync(Whole, DisplayText(n))

Input(text) ==
  /\ kind = "text" /\ Calls
  /\ InDom(Whole, text)
  /\ IF Composing
     THEN /\ composition' = [composition EXCEPT !.text = text]
          /\ UNCHANGED <<node, lifecycle, scripts>>
     ELSE ApplyText(text, composition, FALSE)
  /\ UNCHANGED <<kind, baseline, rendered>>

StartComposition ==
  /\ kind = "text" /\ Calls
  /\ composition' = [lifecycle |-> lifecycle, text |-> DisplayText(node)]
  /\ UNCHANGED <<kind, node, baseline, lifecycle, dom, rendered, scripts>>

(* Ends a composition: its text is applied unless it is of an earlier      *)
(* lifecycle.                                                              *)
FinishComposition(leaves) ==
  IF Composing THEN ApplyText(composition.text, Idle, leaves)
  ELSE /\ composition' = Idle
       /\ node' = Left(node, leaves)
       /\ UNCHANGED <<lifecycle, scripts>>

EndComposition ==
  /\ kind = "text" /\ Calls
  /\ FinishComposition(FALSE)
  /\ UNCHANGED <<kind, baseline, dom, rendered>>

BlurText ==
  /\ kind = "text" /\ Calls
  /\ FinishComposition(TRUE)
  /\ UNCHANGED <<kind, baseline, dom, rendered>>

(* A value other than text is set, or refused.                             *)
Assigned(value) == ~node.readOnly /\ node' = [node EXCEPT !.value = value]
Declined == node' = node

(* What the user chose is put back if it was refused, and also if it must  *)
(* not be seen: to the face the node had before.                           *)
SetBoolean(value) ==
  /\ kind = "boolean" /\ Calls
  /\ InDom(Whole, value)
  /\ \/ Assigned(value) /\ ~node.writeOnly /\ UNCHANGED scripts
     \/ /\ (Assigned(value) /\ node.writeOnly) \/ Declined
        /\ Resync(Whole, DisplayedBoolean(node))
  /\ UNCHANGED <<kind, baseline, lifecycle, composition, rendered>>

(* Selecting an option that is gone, or again the one selected, changes    *)
(* nothing but the widget.                                                 *)
Select(option) ==
  /\ kind = "choice" /\ Calls
  /\ InDom(Whole, option)
  /\ LET reselected == ~node.writeOnly /\ SelectedOption(node) = option
         real == option # Unknown /\ ~reselected
     IN \/ real /\ Assigned(option) /\ ~node.writeOnly /\ UNCHANGED scripts
        \/ /\ \/ real /\ Assigned(option) /\ node.writeOnly
              \/ Declined
           /\ Resync(Whole, SelectedOption(node))
  /\ UNCHANGED <<kind, baseline, lifecycle, composition, rendered>>

(* A multiple choice that is write-only is disabled, so no event arrives.  *)
Toggle(option) ==
  /\ kind = "multiple" /\ Calls /\ ~node.writeOnly
  /\ InDom(option, ~dom[option])
  /\ \/ /\ Assigned(IF option \in node.value THEN node.value \ {option}
                    ELSE node.value \cup {option})
        /\ UNCHANGED scripts
     \/ /\ Declined
        /\ Resync(option, IsMember(node, option))
  /\ UNCHANGED <<kind, baseline, lifecycle, composition, rendered>>

-----------------------------------------------------------------------------
(* The host.                                                               *)

HostSets(value) ==
  /\ Calls
  /\ node' = [node EXCEPT !.value = value, !.buffer = Idle]
  /\ UNCHANGED <<kind, baseline, lifecycle, composition, dom, rendered, scripts>>

HostResets ==
  /\ Calls
  /\ node' = ResetNode(node)
  /\ lifecycle' = lifecycle + 1
  /\ UNCHANGED <<kind, baseline, composition, dom, rendered, scripts>>

HostReinitializes(value) ==
  /\ Calls
  /\ baseline' = value
  /\ node' = [node EXCEPT !.value = value, !.buffer = Idle]
  /\ lifecycle' = lifecycle + 1
  /\ UNCHANGED <<kind, composition, dom, rendered, scripts>>

HostLocks ==
  /\ Calls
  /\ node' = [node EXCEPT !.readOnly = ~@]
  /\ UNCHANGED <<kind, baseline, lifecycle, composition, dom, rendered, scripts>>

-----------------------------------------------------------------------------
(* What runs between calls.                                                *)

(* Dioxus writes the faces that differ from those it wrote last. A script  *)
(* and the rendering that a call causes are both queued by it; a script    *)
(* that came after the rendering could put back what the node no longer    *)
(* shows.                                                                  *)
RenderWidget ==
  /\ ~Rendered
  /\ ScriptsFirst => scripts = <<>>
  /\ rendered' = [p \in Parts |-> Shown(p)]
  /\ dom' = [p \in Parts |-> IF rendered[p] = Shown(p) THEN dom[p] ELSE Shown(p)]
  /\ UNCHANGED <<kind, node, baseline, lifecycle, composition, scripts, calls>>

(* The effect on the lifecycle drops a composition of an earlier one, once *)
(* the new one is rendered.                                                *)
DiscardComposition ==
  /\ Rendered /\ Stale
  /\ composition' = Idle
  /\ Resync(Whole, DisplayText(node))
  /\ UNCHANGED <<kind, node, baseline, lifecycle, dom, rendered, calls>>

RunScript ==
  /\ scripts # <<>>
  /\ InDom(Head(scripts).part, Head(scripts).face)
  /\ scripts' = Tail(scripts)
  /\ UNCHANGED <<kind, node, baseline, lifecycle, composition, rendered, calls>>

WidgetInit ==
  /\ kind \in Kinds
  /\ baseline \in Values(kind)
  /\ \E writeOnly \in BOOLEAN :
       node = [value |-> baseline, buffer |-> Idle, readOnly |-> FALSE,
               writeOnly |-> writeOnly]
  /\ lifecycle = 0
  /\ composition = Idle
  /\ dom = [p \in Parts |-> Face(node, p)]
  /\ rendered = dom
  /\ scripts = <<>>
  /\ calls = 0
  /\ superseded = FALSE

(* The events the built-in controls wire to the hooks.                     *)
UsesText ==
  \/ \E text \in Texts : Input(text)
  \/ StartComposition \/ EndComposition \/ BlurText
UsesBoolean == \E value \in {TRUE, FALSE, Null} : SetBoolean(value)
UsesChoice == \E option \in Options \cup {Null, Unknown} : Select(option)
UsesMultipleChoice == \E option \in Options : Toggle(option)

EditsWidget == UsesText \/ UsesBoolean \/ UsesChoice \/ UsesMultipleChoice

HostChanges ==
  \/ \E value \in Values(kind) : HostSets(value) \/ HostReinitializes(value)
  \/ HostResets \/ HostLocks

(* A stale composition is ended, or another is started, before the effect  *)
(* drops it and puts the text back.                                        *)
Supersedes == Stale /\ composition' # composition /\ scripts' = scripts

WidgetNext ==
  /\ EditsWidget \/ HostChanges \/ RenderWidget \/ DiscardComposition \/ RunScript
  /\ superseded' = (superseded \/ Supersedes)

WidgetSpec ==
  /\ WidgetInit /\ [][WidgetNext]_allVars
  /\ WF_vars(RenderWidget) /\ WF_vars(DiscardComposition) /\ WF_vars(RunScript)

-----------------------------------------------------------------------------
(* Text composed before the form was reset or reinitialized is never       *)
(* applied to the new form, whichever of the end of the composition, the   *)
(* blur and the effect on the lifecycle comes first (finish_composition):  *)
(* whoever ends such a composition leaves the value alone.                 *)
EarlierCompositionsAreDropped ==
  [][(composition # Idle /\ composition.lifecycle # lifecycle
      /\ composition' = Idle) => node'.value = node.value]_vars

(* After the last call the widget comes to show what the form holds, or    *)
(* the text being composed, and stays so: a refused edit is put right, and *)
(* no script that puts back an older face comes last.  Only a composition  *)
(* of an earlier lifecycle may leave its text in the widget, if the user   *)
(* ends it or starts another before the effect drops it (finish_           *)
(* composition, start_composition).                                        *)
WidgetCatchesUp == <>(superseded \/ [](\A p \in Parts : dom[p] = Shown(p)))
=============================================================================
