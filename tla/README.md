# Schemaform in TLA+

Schemaform turns a JSON Schema and a UI document into a *form definition*, and
a definition with data into a *form*: JSON data together with the state of
editing it. This directory is a verification project for that code. It models
the form as a state machine, checks it with TLC on small instances, and proves
the properties that matter most with TLAPS for every value of the constants.

## 1. Inventory

The parts of the repository, the state each keeps, and what could go wrong
there. (`L` is `src/crates/schemaform/src/lib.rs`, `E` is `engine.rs` beside it.)

| Part | State | Operations | What makes it correct |
|---|---|---|---|
| **Form runtime** (E 3611-4980) | form data, baseline, a `ControlState` per static control (edit buffer, parse blocker, touched), one `ArrayItemState` per item with an identity, baseline identities, next identity, submission attempted, data and state revision | edit text, set, remove, replace, materialize, append, insert, remove and move items, toggle a choice, blur, prepare submission, reset, reinitialize, apply a host transaction | item states agree with the data; identities are unique and never reused; edit state describes the value it edits; revisions tell changes |
| **Facade** (L 3536-7777) | the retained validation outcome, a batch of external findings per source, read-only flag, finding visibility | `UserActions`, the host's calls, submission; each returns a `Transition` naming the nodes to read again | what it retains is about the present data; findings follow their items; a ready submission is what is shown; a transition misses nothing |
| **Host transaction** (L 6975-7346, 3729-3813) | an isolated candidate, its writes, its item topology, the number of operations | set, remove, replace all, the four array methods, commit, rollback | the draft accounts for every difference between candidate and form; its topology fits its values |
| **Resources** (`resources.rs`) | documents, their identities, anchors and resource roots, the references still to follow | indexing documents, following references, rewriting them | every schema is known in the resource it is written in; every reference of a prepared graph leads where it was written |
| **Projection** (E 25-3570) | the expansion in progress, the objects whose properties are projected, the nodes so far | projecting objects, lists and their templates, controls | recursion is reported exactly; what a control takes is what the schemas admit; no property is lost |
| **JSON numbers** (E 5756-5975, `json.rs`) | none | normal forms, equality, canonical integers | equal numbers are equal in every notation; limits are exact |
| **UI schema** (`ui.rs`, L 733-1900) | the definition's nodes | checking and compiling authored elements, generated regions, item templates | a definition is a tree; it edits what the UI schema names and nothing twice |
| **Validation** (`validation.rs`, `finding.rs`) | a compiled validator | validating, bounding its output | an incomplete outcome never looks valid |
| **Limits** (`limits.rs`) | counters | checking input | the limits are exact |
| **Dioxus handle** (`schemaform-dioxus/src/handle.rs`) | a shared form, a signal per node and four for the form, a lifecycle version, disposal | every form operation under exclusive access, observation | no change goes unseen; a transaction's closure is alone with the form |
| **Dioxus editing** (`edit.rs`, `dom.rs`) | a text composition with the lifecycle it began in; the widget's own state | composition, input, blur, setting, selecting, toggling, resynchronization | a composition of an earlier lifecycle is never applied; a refused edit is put right in the widget |
| **Dioxus rendering** (`lib.rs`, `render.rs`, `dom.rs`) | registered renderers and extension handlers, the bound plan, selected tabs, the announcement and focus of a list | binding, instantiating templates, operating lists, following findings | every instance is shown and can be reached; every operation is announced once and keeps the focus |
| Fuzz harness, demo, browser tests | | | test code, not modelled |

**Interactions.** The form is passive: a host calls it, `&mut`, one call at a
time, and nothing in it runs on its own. A call of the facade checks what the
node allows (L 5342), works on a copy of the engine's form, checks the limits,
installs the copy, revalidates, drops or moves external findings, and computes
the transition from what was visible before and after. A host transaction
borrows the form while the caller's closure edits a candidate, and commits it
whole or not at all. The Dioxus handle holds the form in a `RefCell`, and turns
each transition into writes to signals, which wake the readers of nodes.

**What is hard.** Not concurrency inside a call but the order of calls: state
that lies beside the data (item states, edit buffers, findings, the validation
outcome) must be brought along by each operation for itself, over structures
that may be absent, replaced or of another shape. External findings are
computed elsewhere and arrive late. In the adapter there is real interleaving:
callbacks within callbacks, compositions across a reset, readers of nodes that
are gone. `PROJECT.json` lists these hazards line by line.

## 2. Modules

| Module | Models | Extends |
|---|---|---|
| `FormData` | form data as a JSON tree of one definition's shape; setting, taking, counting; option order | |
| `FormEngine` | the runtime form and all its operations, `ApplyHostTransaction` included | `FormData` |
| `HostDraft` | a host transaction as it is built, one operation at a time | `FormEngine` |
| `FormFacade` | the facade: allowed operations, validation, external findings, submission, transitions | `FormEngine`; implements `FormContract` |
| `FormContract` | the abstract form: what a transition promises those who display it | |
| `FormHandle` | the handle and the components subscribed to its signals | instantiates `FormContract` |
| `WidgetEdit` | a browser's widget between the user and the form | |
| `ArrayView` | the view of a list: buttons, announcements, focus | |
| `Resources` | the resource graph | |
| `JsonNumbers` | numbers as they are spelled, and what a spelling means | |
| `SpelledNumbers` | the numbers of a data schema | `Resources`, `JsonNumbers` |
| `Shapes` | what a form can make of the schemas at one binding | `SpelledNumbers` |
| `Projection` | the projection of a schema, step by step | `Shapes` |
| `Presentation` | the definition a UI schema makes of it | `Projection` |
| `Rendering` | binding a definition, its page, tabs, following a finding | `Presentation` |
| `Compilation` | resources, projection, presentation and rendering in sequence | `Rendering` |
| `MCHostDraft`, `MCFormFacade`, `MCFormHandle`, `MCWidgetEdit`, `MCArrayView`, `MCCompile` | small instances for TLC | one each |
| `SequenceLemmas`, `FormEngineProofs`, `HostDraftProofs`, `FormFacadeProofs`, `DioxusProofs`, `ArrayViewProofs`, `CompilationProofs`, `ProjectionProofs` | the proofs | |

**The shape of the form.** The definition is fixed and has every kind of node
the engine tells apart: controls below the root, a fixed object (`group`),
controls in it, and in it a list whose items are scalar controls; with
`Options` the list is a multiple choice. Presence and shape of the object and
the list are part of the data, so a value may be absent, null, incompatible, or
lie below something that is no object. What a parser does to text is the table
`Parse`; what a validator finds is the operator `ViolationsOf`. Any two values
`json_values_equal` treats as equal are one value.

**Correspondence.** Variables are named after the fields: `formData`,
`baseline`, `controls` and `items[i].control` (`ControlState`), `items`
(`ArrayItemState`), `nextItemIdentity`, `dataRevision`, `stateRevision`; the
facade adds `validated` (the data the retained outcome was computed from),
`external` (batches of bags: equal findings may repeat), `readOnly`,
`visibility`, and `transition` (what the last call returned). Actions of
`FormEngine` have the names of the engine's functions. An operation that is
refused changes nothing, so it is a disabled action; one that succeeds without
changing anything (setting the same value) is a stutter. `map` in
`PROJECT.json` gives the lines for every definition.

`FormFacade` composes each facade call from the action of the engine it calls,
`Settle` (revalidate, drop findings, as in `apply_scalar_edit`), and one of the
`Tell` operators, one for each way the code has of computing a transition:
`user_transition`, `apply_structural_edit`, `host_changed_nodes`, and the
comparison of all node observations. `Observe` and `ObserveItem` are what a
`NodeView` shows, and are the measure of what must be told.

`FormEngine` takes a transaction as a candidate with what was recorded about
it, assuming `RecordsChanges`. `HostDraft` builds such drafts by the
operations of `HostTransaction` and checks that assumption
(`DraftRecordsChanges`); `HostDraftProofs` proves it.

**The contract.** `FormContract` says what a form promises to whoever displays
it: a transition names every node that shows anything else than before, every
new item and exactly the items that are gone, and is not empty when anything
shown of the form as a whole changed. `FormFacade` implements it
(`ImplementsContract`, with `Observe` as what a node shows), for the controls,
the list and the items; the nodes for which the code does not keep it are the
subject of `facade_presenters`. `FormHandle` relies on the contract and on
nothing else of the form: its `Change` is any change with any transition the
contract allows.

**The adapter.** `FormHandle` has one component per node; rendering one
subscribes it to the signals it reads (`observe_node`), `ApplyTransition`
creates, writes and drops signals as the code does, and marks subscribers
dirty. `WidgetEdit` reduces the form to one node that may refuse what it is
asked to, and has the three states that come apart: what the form holds, what
Dioxus wrote last (`rendered`) and what the widget shows (`dom`). `ArrayView`
reduces it to a list, and models each effect and script that an operation sets
off as an action, so that they may run in any order the code allows. `Dioxus`
itself and the browser are modelled from how the code uses them and are marked
external in `map`.

**Compilation** is one long computation for each of many inputs. A schema is a
record of keywords at a pointer; URIs are a directory and a file; a number is
the digits that spell it. `ResourcesNext` and `ProjectionNext` are the steps of
the code's own work lists, with their order and limits; what a step computes
(kinds, choices, seeds, conditions) are operators of `Shapes`, and so are the
passes of presentation and binding. A page is then a small state machine again:
lists of any lengths, tabs that are clicked and moved among by keys, and
findings that are followed.

## 3. Runs

| Run | Asks | Distinct states |
|---|---|---|
| `host_draft` | drafts account for what they changed, and leave identities and edit states right | 613,143 |
| `facade_user` | every call but transactions: items stay in step and keep their state, what is retained is current and within limits, submissions are what is shown | 149,990 |
| `facade_choices` | option order, and the same transitions for a multiple choice | 157,279 |
| `facade_host` | the facade with transactions: findings follow items, the contract | 16,230 |
| `handle` | signals, subscriptions, exclusive access; the page catches up | 9,435 |
| `widget` | compositions and resynchronization of four kinds of widgets | 68,754 |
| `array_view` | announcements and focus | 843,116 |
| `compile` | resources, projection, numbers, presentation, rendering | 377,413 |
| `host_restored`, `facade_presenters`, `handle_returning` | sentences of the documentation the code does not keep | stop at the violation |
| `compile_null` | an assertion of the code that fails | stops at the violation |

**Bounds.** `MaxRevision` bounds the number of calls that change something (2
to 4 in sequence), `MaxIdentity` the identities allocated, `MaxItems` the list
(2 items), `MaxOperations` the operations of a draft (2). The initial data
is any of `HostData`, which already contains equal items, incompatible shapes,
null and absence, so a behaviour does not spend its calls on getting there. Two
items are enough for a move, a shift by insertion and by removal, and for
findings to be exchanged. Calls enough for edit, change above, and observation
after; a mutant of each property is found within these bounds. Host runs use
fewer policies and texts, because a step chooses a candidate, a set of writes
and a topology at once.

`handle` has one list and two item identities: an item that goes, one that
comes, and one that comes back. `widget` allows five calls (a composition, a
reset during it, its end, and two more), with texts of each kind the form tells
apart. `array_view` allows four calls and four identities, with lists of up to
two items from the host. `compile` has 6,701 inputs in families described in
`MCCompile`: each varies a few keywords over every combination and holds the
rest, among them two documents with identities, anchors and references between
them, cycles through every kind of step, and UI schemas of up to three nested
elements over five data schemas, each bound under four configurations of
renderers and rendered with lists of 0 to 2 items. The machine limits
(`MaxExponent`, `MaxIndex`) are scaled down with the digits the numbers are
spelled with, so that they are reached and passed; so are the limits on
traversals and outputs. None of the runs uses symmetry.

**Deadlock.** Every run turns deadlock checking off: a form waits for calls,
which are bounded, and a compilation ends.

**Fairness.** The core starts nothing by itself, and nothing must happen there.
In the adapter, `FormHandle` assumes that the closure of a transaction returns
(weak fairness) and that Dioxus renders each dirty component: strong fairness,
because a component waits for those above it and for the end of a closure, and
so is enabled again and again but not always, while Dioxus renders everything
that is dirty between two events and no sequence of calls prevents it.
`WidgetEdit` and `ArrayView` assume weak fairness of rendering, effects and
scripts, each of which is queued by the runtime or the browser and stays so
until it runs; users and hosts are under no fairness.

**What the runs found.**

- `host_restored`: a transaction that replaces a list and writes its items back
  one by one leaves it as it was but gives every item a fresh identity, against
  "Arrays restored unchanged retain their topology" (L 6994).
- `facade_presenters`: three ways in which a node that shows more than itself
  changes and is not among the nodes to be reread (L 7359, L 7401): the object
  above a list whose items are added or removed, the root when an edit drops a
  finding it shows, and a multiple choice when a transaction drops a finding of
  one of its items.
- `handle_returning`: a component that keeps the reader of an item that was
  removed is not woken when a reset brings the item back, against "registers a
  node-level subscription" (`handle.rs` 600).
- `compile_null`: `{"type": "null", "allOf": [false]}` as a property fails the
  assertion "an empty non-enum choice comes from const" (E 2852).

Smaller things met on the way, which nothing in the repository contradicts or
which no run is spent on:

- After a reset that changes no data, findings of items that are gone keep
  their index and may coincide with those of another item, so a batch may hold
  equal findings (hence bags). Setting a value equal to the present one leaves
  a blocked edit buffer as it is. Blurring an item of a multiple choice, which
  no widget does, may reveal a finding at the list without naming the list,
  as blurring the list does not name its items, which is why
  `ChoiceChangesAreTold` leaves both out.
- A composition that a reset made stale and that the user ends, or replaces by
  another, before the effect of the new lifecycle ran leaves its text in the
  widget: `finish_composition` drops it without a script (`edit.rs` 337).
  `WidgetCatchesUp` leaves these behaviours out by name (`superseded`). With
  `ScriptsFirst` false, when a script could still run after a later rendering,
  it may put back what is no longer so; `WidgetCatchesUp` assumes it cannot.
- An authored item template that has the whole item's object below its root, in
  a stack or under an automatic region with an id, shows the fixed object of the
  item twice, one in the other (L 1243-1266). Two automatic regions may both show
  the same unsupported region.
- A schema whose branch refers to the schema itself through a property
  (`then: $ref X`, `X = {required: [p], properties: {p: {$ref: X}}}`) has its
  nested conditional change not reported.
- With a multiple choice whose authored template is deeper than one node, a
  finding of an item targets the inner control, which the summary has no target
  for: it leads to the form (`schemaform-dioxus/src/lib.rs` 471). `Findable`
  leaves these nodes out.

## 4. Proofs

Checked by TLAPS, for every value of the constants that satisfies the named
assumptions (`FormDataAssumption`, `FormEngineAssumption`,
`HostDraftAssumption`, `FormFacadeAssumption`, `FormHandleAssumption`,
`ArrayViewAssumption`, `ResourcesAssumption`, `JsonNumbersAssumption`,
`SpelledNumbersAssumption`, `ShapesAssumption`, `ProjectionAssumption`), without
bounds on data, items, documents, digits or calls other than `Bounded`, of which
no proof makes use.

| Theorem | States |
|---|---|
| `Invariant` | `Spec => []IInv` |
| `TypeCorrect`, `TopologyAgreement`, `IdentityUniqueness` | `[]TypeOK`, `[]TopologyMatchesData`, `[]IdentitiesDistinct` |
| `RevisionsFaithful` | `Spec => RevisionsTellChanges` |
| `TextDescribesValues` | `Spec => []EditStatesDescribeValues` |
| `IdentitiesAreNotReused`, `SurvivorsKeep`, `ChoicesKeepOrder` | `Spec => IdentitiesNeverReused`, `SurvivorsKeepTheirState`, `ChoicesStayInOptionOrder` |
| `DraftInvariant`, `DraftsAgree`, `DraftsRecord`, `HostTextDescribes` | `HostSpec => []DraftInv`, `[]DraftTopologyAgrees`, `[]DraftRecordsChanges`, `[]EditStatesDescribeValues` |
| `FacadeInvariant` | `FacadeSpec => []FInv` |
| `FacadeTopologyAgreement`, `ValidationCurrent`, `ExternalFindingsCurrent` | the same agreement, `[]ValidationDescribesData` and `[]ExternalFindingsAreCurrent` under the facade |
| `FacadeTyped`, `LimitsHold` | `FacadeSpec => []FacadeTypeOK`, `[]RetainedWithinLimits` |
| `FindingsFollow` | `FacadeSpec => FindingsFollowItems` |
| `FormImplementsContract` | `~MultipleChoice => (FacadeSpec => ImplementsContract)` |
| `ChoicesTold` | `UserFacadeSpec => ChoiceChangesAreTold` |
| `ReadySubmits` | `FacadeSpec => ReadySubmitsWhatIsShown` |
| `HandleInvariant` | `HandleSpec => []HInv` |
| `SignalsExact`, `ViewsCurrent` | `[]SignalsMirrorTheForm`, `[]NobodyMissesAChange` |
| `ClosureExclusive` | `HandleSpec => ClosureIsAlone` |
| `CompositionsDropped` | `WidgetSpec => EarlierCompositionsAreDropped` |
| `RegionEmptied` | `ArrayViewSpec => MessagesAreApart` |
| `ResourcesSound` | `ResourcesSpec => []ResourcesInv` |
| `BasesLexical`, `ReferencesLead` | `ResourcesSpec => []BasesAreLexical`, `[]ReferencesLeadWhereWritten` |
| `EqualNumbers`, `IntegralNumbers`, `LengthBounds`, `StoredIntegers` | of all spellings, and limits on digits: equality, being an integer, the length and the stored digits are as meant |
| `NumbersMean` | `ResourcesSpec => []NumbersMeanWhatTheySpell` |
| `Coverage`, `SubschemasFollow` | `ResourcesSpec => []CoverageInv`, `[]SubschemasAreFollowed` |
| `ProjectionSound`, `AllThatApplies` | `ProjectionSpec => []ProjectionInv`, `[]WhatAppliesIsExpanded` |
| `ControlsTakeAll`, `SeedsFit`, `LengthsFit` | `ProjectionSpec => []ControlsTakeWhatIsAdmitted`, `[]SeedsAreAdmitted`, `[]LengthsAreAdmitted` |
| `EverythingPlaced` | `ProjectionSpec => []EveryPropertyIsPlaced` |

**The argument.** `IInv` is the type invariant, the agreement of the item
states with data *and baseline*, distinctness of the identities in both, and
that all are below `nextItemIdentity`. None of these is inductive alone: a
fresh identity is distinct only because it is above all others; a reset is safe
only because the baseline's identities are distinct and fit the baseline; an
insertion agrees with the data only because the data is a tree, whose absent
list is empty. `StepPreserves` reduces a step that leaves the baseline alone to
what it does to data, controls and items; `ReconcilePreserves` covers every
call that rebuilds the list; `SequenceLemmas` says what inserting, removing and
swapping do, and that they keep elements distinct. For a host transaction,
`PreservedDistinct` shows that kept identities (distinct by the topology check)
and fresh ones (by counting the fresh items before each) do not collide.

`RevisionStep` is proved of every operation: where the code tells from values
whether to advance (moving equal items, resetting to the same data, committing
the data and topology there was), the lemmas `SwapEqualValues` and
`SameTopologyKeepsItems` show that nothing then changed.

`EditInv` is `IInv` and `EditStatesDescribeValues`, and `FormEngineProofs` shows
it is inductive by following each item through a step. A list operation
*carries* items: one that is in the list afterwards is new and untouched, or
was there with the same value and the same edit state (`Carried`, by
`InsertionCarries`, `RemoveArrayItemCarries`, `MoveArrayItemCarries` and so
on). Every other step but a reset *follows* them: an item keeps its identity
and has text that goes with its value (`ItemsFollowed`). A reset leaves no text
at all. `StepFollows` and `HostStepFollows` say that these are all the ways a
step can go; that no identity is reused, and that a list operation leaves
survivors as they were, are read off them with the distinctness in `IInv`. The
text of a control goes with the value because the control is the same over the
same value, was cleared, or was just edited (`TypedDescribes`): here the proof
needs that a text that cannot be parsed gives something that is neither a value
nor absent, which is what `FormEngineAssumption` says of `Unparsable`.

A transaction clears each edit state whose value it changes, provided it
recorded the change. `FormEngine` assumes this of the transactions it commits
(`RecordsChanges`), and `HostDraftProofs` discharges the assumption: `DraftOK`,
the two invariants of `HostDraft` together, is kept by every operation
(`ControlWrite` for a control, `WriteAboveKeeps` at and above the list,
`SetItemToKeeps` for an index, `ListEdit` for the array methods, which
`Rearranged` describes), so that a commit is the step `HostStepKeepsEditInv` is
about. `DraftInvariant` therefore has no assumption on what a caller does.

`ReadySubmits` puts this and the facade together: text that is not blocked
parses to the value under it (`FacadeEditInv`), and the outcome that shows no
violation is about this data (`FInv`).

`RInv` adds what the form retains: every batch is a bag of findings at places
of the form, the findings of all batches are finitely many and within the
limit, and so are the edit buffers. The limits are counts, and are kept by
injections: a finding is counted by its *copies*, one for each time the batch
has it, and `Gathering` shows that moving findings maps the copies afterwards
one to one into those before, so that no move adds any (`MovedToBatch`,
`CountFollows`), whichever findings it lets fall on the same place. A buffer of
an item afterwards is a buffer of the same item before, unless text was just
typed (`TextKept`, by identity; `KeptTextCounts`). Typing needs `RoomFor`
because it may add the one buffer the limit has left (`TypedTextHolds`).

`SwapIsMove` and `RebaseIsMove` read both ways findings move as one function
from places to places, and `MovedToGrows` says what arrives where: at least
what lay at any place that is moved there. `FindingsFollow` then comes down to
the place of an item before being moved to that of the same item after, which
is `KeptByTopology` for a transaction, and distinctness for all of them.

`FormImplementsContract` is the refinement of `FormContract`: every step of the
facade is a step or a stutter of the contract. What a node presents is its
part of the form and its findings, and these are the batches at its place
(`FindingsOn`, `NodeFindingsAre`, `ItemFindingsAre`). A step is *quiet* about a node when it
advances none of the revisions its observers are told by; a quiet step changes
nothing the node shows (`StillIsQuiet`, `RebaseSame`). The others are of two
kinds. One settles data and validates again: every place is then compared,
before and after (`SettledTold`). One moves or replaces findings over data it
leaves alone: a place that keeps its item keeps its findings, and the item's
revision tells of the rest (`UnsettledTold`, `PlaceKept`). There is one lemma
per operation (`ControlActionTold` to `TransactTold`), and `NodesTold`,
`ItemsTold` and `ComingsTold` give the step of the contract from what they say.
The hypothesis that the list is no multiple choice is in the model because it
is in the code: a multiple choice does not show the nodes of its items and
presents the findings of its items at the list.

`ChoicesTold` is what remains true of one, and the lemmas serve both. The places
a node presents are `PlacesOf`: its own, and for a multiple choice those of its
items too. A step that settles validates anew and names the list whenever
findings of its items may differ; what is told of an item is compared without
the findings its own node would present (`ShownOfItem`). Excluding a choice is
the operation that moves items about in a way of its own: the survivors, in
ascending order, keep their place as long as none before them is excluded
(`AscendingStart`, by counting), and the code names all the others. Leaving the
control of a choice's item is the exception stated in the property. The
specification is that of the operations: a transaction that changes other data
drops the findings of a choice's item and does not name the list that presents
them, which is one of the three ways `facade_presenters` shows.

`FInv` adds that the outcome is about the present data and that no active batch
has another revision. `UserActionOperates`, `HostActionOperates` and
`TransactPreserves` show that each call of the facade is an operation of the
engine with one of four ways to treat what is retained (`Retains`), or a
setting that leaves the form alone. `RetainsPreserves` then needs only
`RevisionStep`: the data is the same unless its revision advanced.

`HInv` is the type invariant of the handle, that exactly the nodes of the form
have a signal, that value signals are current, that a mounted component that is
not dirty is subscribed to what it reads, and that the components shown are
those of the items there are unless the list is dirty. `NobodyMissesAChange`
is not inductive without the last two: a change wakes a component only if it
subscribed, and an item's component is only there to be woken, or rightly not,
if its list was or will be rendered. `ChangeKeeps` takes from `FormContract`
just what it says of the transition.

`RegionInv` says that the announcement is empty while a message waits to be
shown, and that the live region holds the announced message or is older than an
empty announcement: the next message is only announced, and so only rendered,
once the region was emptied. A stale composition
is ended by its end, by the blur and by the effect, and `CompositionsDropped`
goes through each.


`ResourcesInv` is about any number of documents of any shape, and is stated
over the documents as they were given (`input.documents`): the present ones
`Agree` with them in everything but what stands under `ref`, which is what the
walk rewrites. `GraphInv` says that what is known, under an address or an
anchor, is known as what its place makes it: in the document it is in, with the
base its own identity and those above it give (`Lexical`; `LexicalStep` and
`AlongIsLexical` say that the code's fold over the later part of a path goes on
from the base at its beginning). A reference is followed to a place
whose resources may not have been indexed yet, by a fold over the path
(`IndexTarget`); `Charted` says that afterwards every identity on the way is
known, and `Extends` that a graph only grows, so that what a reference resolved
to when it was followed is what it still resolves to when others have been.

What makes references lead where they should is not inductive by itself, since
a schema is visited before its references are followed, and the schemas its
references lead to are visited before they have been dealt with in turn.
`FollowingInv` therefore says of each reference of each visited schema that it
is `Settled`: pending in a frame of the work list, built in, or leading to a
visited place it was `Written` for. `Frames` says what the work list holds: no
two frames of one place, and nothing pending that the schema does not have.
`RewritingInv` is the other half: a reference that is still pending, or whose
schema was never visited, reads as it was written, so that what is followed is
always the reference the document was given with. At the end the work list is
empty, no reference is pending, and `ReferencesLead` is read off.

The theorems are of `ResourcesSpec`. The steps of `CompilationSpec`, which is
what `compile` runs, are those of `ResourcesNext` until the graph is prepared
and leave `resourceVars` alone afterwards. `ResourcesAssumption` says that an
input is a sequence of documents, each retrieved from an absolute address, with
a schema wherever a schema stands in one, whose identities and references are
URIs;
it does not say that an identity is used once or that a reference leads
anywhere, which the steps themselves have to refuse.

The numbers are proved against what a spelling means, an integer over a power
of ten (`Numerator`, `Places`), neither of which the code computes. `TenTo`
and `Leading` (the value of the first digits of a sequence) are recursive
functions: `Recursion` shows that such a function exists, by least
counterexample, and everything about them (`Exponents`, `LeadingIsBelow`,
`TrailingZeros`, `WithoutLeadingZeros`) follows in the same way.
`NormalFormSpells` says that trimming zeros and adjusting the scale keeps the
number. That different normal forms are different numbers is the harder half of
`EqualNumbers`: of two equal numbers with different scales the one with the
smaller scale would have digits divisible by ten, and a normal form does not end
in zero; with one scale the digits are the same because a number has one
spelling of each length. `StoredIntegers` uses that as many digits are left as
`kept` says, so that the limit on digits is met exactly when the number is below
that power of ten; `LengthBounds` that more digits than the largest length has
spell a larger number. `JsonNumbersAssumption` says only that `MaxIndexDigits`
is the number of digits of `MaxIndex`, and `SpelledNumbersAssumption` that the
numbers of an input are digits with a sign and an exponent.

The projection works on the graph when it is prepared, and needs of it that
whatever it looks at was followed. `CoverageInv` says that of every followed
schema all below it is followed or is among the children some frame of the work
list has still to enter, and that each is known with the base its place gives
it; `SubschemasFollow` and the finiteness of what was followed come from it, and
with them `ClosureIs`: `Closure`, which the model computes in as many rounds as
there are schemas, is the least set closed under its steps, because each round
that is not the last adds a schema.

`ControlsTakeWhatIsAdmitted`, `SeedsAreAdmitted` and `LengthsAreAdmitted` say
what a form edits against all that applies (`Reachable`), while a node is made
of the schemas the work list expanded. `Expansion` relates the two while the
list is worked on: as long as no cycle was met, what an expanded schema leads to
was expanded or is pending. A node is placed when nothing is pending and no
cycle was met, so that its schemas are closed (`Complete`, in `NodeInv`). The
rest is about one set of schemas, and by the shape of the code: `ChoicesAmong`
narrows the choices by one source after the other, the kinds are those all
declarations share, and each of these keeps exactly what every schema admits
(`ControlsTake`, `SeedsAre`, `LengthsAre`), whatever order and spelling the
choices have. `ListLengths` rests on `LengthBounds`: the greatest of the least
lengths, each cut at `MaxIndex`, is what all of them ask of any length below it.
`FrameInv` and `SubjectInv` keep what is known of the objects around a subject
and of the list whose template it is in, whose length and seeds are worked out
only when its template is complete.

`AllThatApplies` holds also of an expansion that met a cycle, where `Expansion` says nothing:
`ExpandingInv` adds that every place on the way to a pending schema was
expanded, so that a reference back to it leads to nothing new.

`EverythingPlaced` is about the order in which the work list places things: an
object is open while its properties are projected, those of an object within it
come before its next one, and a template that fails takes back what was placed
in it. `Placement` is said of any set of nodes, stack of open objects and set of
what is asked, so that its lemmas are about sets and prefixes of bindings and no
state: every name asked for at an object's binding is placed alone there, is the
subject, or is owed by an open object (`Owes`, for a property left or for the
list whose template it is); nothing is placed where something is owed (`Open`);
an open object is within the one opened before it, and not at or below a
property that one has left (`Inside`); the list whose template is underway has nothing but
that template (`Repeating`). With this, adding a node where the subject is leaves
everything else alone (`PutPlain`, `PutObject`, `PutList`), and giving up a
template removes what is below its binding and nothing that is asked elsewhere
(`GiveUpList`). What the root asks for is not recorded in the state: `RootInv`
says that what is found for it is all that references and allOf lead to.

`ProjectionSpec` is the first two parts of `CompilationSpec`: the steps of the
others leave all its variables alone. `ShapesAssumption` says that at the
keywords of a shape stand values and lengths, which is what a schema's dialect
asks for, and `ProjectionAssumption` that no property has the name the model
gives to the items of a list.

**Only model-checked.** Of the runtime form, the drafts, the handle and the widgets
every invariant and action property a passing run checks is proved; of a form
with a multiple choice `ImplementsContract` is not claimed, for it does not hold. Liveness
(`WidgetCatchesUp`, `LastOperationIsAnnounced`, `FocusFollows`,
`PageCatchesUp`) is out of the prover's reach, and so is what a recursion over
schemas or elements computes: `DefinitionIsATree`, `UiSchemaIsFollowed` and
`FindingsLeadToTheirNodes` are about `Presentation` and `Rendering`, whose
operators recurse over elements as the code does, and which the prover
therefore cannot read; `ConditionsChangeNothing` is about `BranchChanges`, a recursive
function over branches (`Walk`) that nothing says exists for every schema but an
induction over data. One more property of the projection could be proved and
is not: `CyclesAreReported` needs, beyond `WhatAppliesIsExpanded`, that a cycle
is met at one of its references in whatever order the work list is taken:
an argument about the order in which a depth-first search leaves its schemas.

## 5. Not modelled

Items with several controls and lists within lists, in the runtime form (the
compiled definition has lists of objects); limits on sizes in bytes and on
nesting, on the findings of one incoming batch (`lib.rs` 3861), and on the
numbers of references and of resources (`resources.rs` 328; the limit on
schemas visited is `MaxTraversal`); the syntax of URIs, pointers and JSON text;
the validator itself and the bounding of its output; annotations, formats and
the definition's fingerprint; the parsing of UI documents; the observer of
renderings. Names, labels, markup and messages are left out on purpose. The
fuzz harness, the demo and the browser tests are test code.

## 6. What is left

1. `HostDraft` extended with the indices a draft writes and composed with the
   facade, to check that the transition of a commit names every item whose edit
   state it cleared.
2. The validator's output: bounding and truncation of findings, indeterminate
   outcomes, and what the facade makes of them.
3. A runtime form whose items have several controls, instantiated from a
   definition of `Presentation`.
