---------------------------- MODULE FormContract ----------------------------
(***************************************************************************)
(* What a form promises those who display it, whatever operation it        *)
(* performs: a transition (crates/schemaform/src/lib.rs, Transition) names *)
(* every node that shows anything else than before, every new item and     *)
(* exactly the items that are gone; and it is not empty when anything that *)
(* is shown of the form as a whole has changed.  FormFacade implements     *)
(* this contract, and FormHandle relies on nothing else.                   *)
(***************************************************************************)
CONSTANT Node  \* the nodes that are always there

VARIABLES
  items,      \* the identities of the items that are there
  shown,      \* what each node and item shows
  whole,      \* what is shown of the form as a whole
  revision,   \* the revisions of its data and state
  transition  \* what the last operation told its caller

contractVars == <<items, shown, whole, revision, transition>>

(* Transition::is_empty *)
IsEmpty(t, revised) == ~revised /\ t.changed = {} /\ t.removed = {}

(* What transition t must say of an operation that turned the items before *)
(* into those after, changed what the given nodes show, and perhaps what   *)
(* is shown of the whole.                                                  *)
TellsOf(t, revised, before, after, differing, wholeDiffers) ==
  /\ t.changed \subseteq Node \cup after
  /\ t.removed = before \ after
  /\ (differing \cup (after \ before)) \subseteq t.changed
  /\ wholeDiffers => ~IsEmpty(t, revised)

Differing ==
  {n \in (Node \cup items) \cap (Node \cup items') : shown'[n] # shown[n]}

Tells(t, revised) ==
  TellsOf(t, revised, items, items', Differing, whole' # whole)

ContractInit == transition = [changed |-> {}, removed |-> {}]
ContractNext == Tells(transition', revision' # revision)
ContractSpec == ContractInit /\ [][ContractNext]_contractVars
=============================================================================
