---------------------------- MODULE Presentation ----------------------------
(***************************************************************************)
(* What a definition presents: the nodes of the projection, arranged by a  *)
(* UI schema or, without one, as a generated region of everything.         *)
(*                                                                         *)
(* A definition is a sequence of nodes, each known by its place in it; the *)
(* first is the root.  A list's control has one child, the template its    *)
(* items are instantiated from, and every node of the template is owned by *)
(* that control.  Labels, help and the spans of grid cells are left out,   *)
(* and so are the sizes of extension values.                               *)
(***************************************************************************)
EXTENDS Projection

CONSTANTS
  MaxNamespaces,   \* the limit on namespaces of extensions
  MaxOccurrences,  \* the limit on extensions of elements
  OutputLimits     \* the limits on nodes, controls and findings

VARIABLES
  definition,  \* the definition's nodes
  presented    \* how far presentation came, or why it was refused

presentationVars == <<definition, presented>>

ASSUME PresentationAssumption ==
  /\ MaxNamespaces \in Nat /\ MaxOccurrences \in Nat
  /\ OutputLimits \in [nodes : Nat, controls : Nat, findings : Nat]
-----------------------------------------------------------------------------
(* The elements of a UI schema.                                            *)
NoMeta == [id |-> {}, extensions |-> {}]

ControlElement(origin, binding, template) ==
  [ type |-> "control", meta |-> NoMeta, origin |-> origin, binding |-> binding,
    parts |-> template, itemLabel |-> FALSE, widget |-> {} ]

Remaining  == "[remaining]"
Everything == [include |-> {}, exclude |-> {}, order |-> <<>>]

AutoElement(origin, binding, properties) ==
  [ type |-> "auto", meta |-> NoMeta, origin |-> origin, binding |-> binding,
    parts |-> <<>>, properties |-> properties ]

(* A stack, a grid, a group or tabs; a text when there is nothing in it.   *)
Container(type, parts) == [type |-> type, meta |-> NoMeta, parts |-> parts]

UiSchema(root) == [required |-> <<>>, root |-> root]

RECURSIVE Elements(_)
Elements(element) ==
  <<element>> \o FlattenSeq([i \in DOMAIN element.parts |-> Elements(element.parts[i])])

(* Extensions are checked before anything is arranged.                     *)
ExtensionRefusal(ui) ==
  LET elements == Elements(ui.root)
      used     == UNION { elements[i].meta.extensions : i \in DOMAIN elements }
      uses     == FoldLeft(LAMBDA sum, e : sum + Cardinality(e.meta.extensions), 0, elements)
      repeated == { i \in DOMAIN ui.required :
                      i <= MaxNamespaces /\ \E j \in 1..i - 1 : ui.required[j] = ui.required[i] }
  IN IF repeated # {} THEN "duplicate-extension"
     ELSE IF \/ Len(ui.required) > MaxNamespaces
             \/ Cardinality(used) > MaxNamespaces
             \/ uses > MaxOccurrences
     THEN "limit"
     ELSE IF ~(ToSet(ui.required) \subseteq used) THEN "missing-extension"
     ELSE "none"
-----------------------------------------------------------------------------
(* What can be presented: the projected nodes, by their bindings.          *)
Projected(binding) == { n \in projected : n.binding = binding }

IsMultipleChoice(node) ==
  /\ node.what = "array" /\ node.lengths.unique
  /\ \E n \in Projected(Append(node.binding, Item)) : n.what = "control" /\ n.kind = "choice"

(* The list in whose item template a binding is; none at the root.         *)
ListOf(binding) ==
  { SubSeq(binding, 1, i - 1) : i \in { j \in DOMAIN binding : binding[j] = Item } }

(* Mutant: a list has no template.                                         *)
ChildrenOutsideTemplates(binding) ==
  IF binding = <<>> THEN {}
  ELSE { n.binding : n \in { m \in projected :
           m.binding # <<>> /\ Front(m.binding) = binding /\ Last(m.binding) # Item } }

(* Below the projected root is nothing: its properties have no parent.     *)
ChildBindings(binding) ==
  IF binding = <<>> THEN {}
  ELSE { n.binding : n \in { m \in projected :
           m.binding # <<>> /\ Front(m.binding) = binding } }

RECURSIVE Subtree(_)
Subtree(binding) ==
  {binding} \cup UNION { Subtree(child) : child \in ChildBindings(binding) }

DirectProperties(binding) ==
  { Last(n.binding) : n \in { m \in projected :
      m.binding # <<>> /\ Front(m.binding) = binding /\ Last(m.binding) # Item } }

RootRoots(names) ==
  (IF { n \in Projected(<<>>) : n.what = "unsupported" } = {} THEN <<>> ELSE << <<>> >>)
    \o [i \in DOMAIN names |-> <<names[i]>>]
-----------------------------------------------------------------------------
(* A definition in the making: its nodes, the bindings and ids in use, the *)
(* nodes the last element gave, and why it is refused.                     *)
DefinitionNode(kind, what, binding, owner, children) ==
  [ kind |-> kind, what |-> what, binding |-> binding, owner |-> owner,
    children |-> children, widget |-> {}, extensions |-> {} ]

NoBinding == <<"none">>

Draft ==
  [ nodes |-> << DefinitionNode("layout", "none", NoBinding, 0, <<>>) >>,
    bound |-> {}, ids |-> {}, made |-> <<>>, refusal |-> "none" ]

Refuse(draft, why) == [draft EXCEPT !.refusal = why]

Push(draft, node) ==
  [draft EXCEPT !.nodes = Append(@, node), !.made = <<Len(draft.nodes) + 1>>]

Layout(kind, context, children) ==
  DefinitionNode(kind, "none", NoBinding, context.owner, children)

Extending(node, element) == [node EXCEPT !.extensions = element.meta.extensions]

Kind(node) == CASE node.what \in {"control", "array"} -> "control"
                [] node.what = "object"               -> "layout"
                [] node.what = "unsupported"          -> "unsupported"

(* Where an element is: at the root or in the item template of a list.     *)
RootContext == [list |-> {}, owner |-> 0]
InTemplate(list, owner) == [list |-> {list}, owner |-> owner]
Origin(context) == IF context.list = {} THEN "root" ELSE "item"
Absolute(context, binding) ==
  IF context.list = {} THEN binding ELSE First(context.list) \o <<Item>> \o binding

RegisterId(draft, meta) ==
  IF meta.id \cap draft.ids # {} THEN Refuse(draft, "duplicate-id")
  ELSE [draft EXCEPT !.ids = @ \cup meta.id]

(* Mutant: nothing is found to be bound already.                           *)
OverlapsNothing(draft, claimed) == FALSE

Overlaps(draft, claimed) == claimed \cap draft.bound # {}

(* A generated region: the given roots and all below them, under the       *)
(* object they are properties of when there is one.  Nodes are numbered in *)
(* the order of their bindings; here in any.                               *)
Materialize(draft, parent, roots, context) ==
  LET included == parent \cup UNION { Subtree(roots[i]) : i \in DOMAIN roots }
      order    == SetToSeq(included)
      id(b)    == Len(draft.nodes) + (CHOOSE i \in DOMAIN order : order[i] = b)
      claimed  == { b \in included : /\ ListOf(b) = context.list
                                     /\ First(Projected(b)).what # "unsupported" }
      below(b) == IF b \in parent THEN roots
                  ELSE SetToSeq(ChildBindings(b) \cap included)
      owner(b) == IF ListOf(b) = {} THEN 0
                  ELSE IF context.owner # 0 THEN context.owner ELSE id(First(ListOf(b)))
      node(b)  == LET n == First(Projected(b))
                  IN DefinitionNode(Kind(n), n.what, b, owner(b),
                                    [i \in DOMAIN below(b) |-> id(below(b)[i])])
  IN IF Overlaps(draft, claimed) THEN Refuse(draft, "duplicate-binding")
     ELSE [ draft EXCEPT
            !.nodes = @ \o [i \in DOMAIN order |-> node(order[i])],
            !.bound = @ \cup claimed,
            !.made  = IF parent # {} THEN << id(First(parent)) >>
                      ELSE [i \in DOMAIN roots |-> id(roots[i])] ]

(* The properties of an Auto, in its order; the ones it leaves unordered   *)
(* are taken by name, here in any order.                                   *)
Ordered(properties) ==
  { i \in DOMAIN properties.order : properties.order[i] # Remaining }

SelectionRepeats(properties) ==
  \E i, j \in DOMAIN properties.order :
    i # j /\ properties.order[i] = properties.order[j]

Named(properties) ==
  properties.include \cup properties.exclude
    \cup { properties.order[i] : i \in Ordered(properties) }

Selected(properties, names) ==
  (IF properties.include = {} THEN names ELSE properties.include) \ properties.exclude

InOrder(properties, names) ==
  LET selected  == Selected(properties, names)
      remaining == SetToSeq(selected \ { properties.order[i] : i \in Ordered(properties) })
      order     == IF Contains(properties.order, Remaining) THEN properties.order
                   ELSE Append(properties.order, Remaining)
  IN FlattenSeq([ i \in DOMAIN order |->
                    IF order[i] = Remaining THEN remaining
                    ELSE IF order[i] \in selected THEN <<order[i]>> ELSE <<>> ])

WithMeta(draft, element, context) ==
  IF draft.refusal # "none" \/ element.meta = NoMeta THEN draft
  ELSE Push(draft, Extending(Layout("layout", context, draft.made), element))

CompileAuto(draft, element, context) ==
  LET binding == Absolute(context, element.binding)
      objects == { n \in Projected(binding) : n.what = "object" }
      whole   == binding = <<>>
      names   == DirectProperties(binding)
      chosen  == InOrder(element.properties, names)
      roots   == IF whole THEN RootRoots(chosen)
                 ELSE [i \in DOMAIN chosen |-> Append(binding, chosen[i])]
      regions == { n \in Projected(binding) : n.what = "unsupported" }
      parent  == IF whole THEN {} ELSE {binding}
  IN IF element.origin # Origin(context) THEN Refuse(draft, "origin")
     ELSE IF SelectionRepeats(element.properties) THEN Refuse(draft, "selection")
     ELSE IF ~whole /\ objects = {} /\ regions # {}
     THEN WithMeta(Materialize(draft, {}, <<binding>>, context), element, context)
     ELSE IF ~whole /\ objects = {} THEN Refuse(draft, "unknown-binding")
     ELSE IF ~(Named(element.properties) \subseteq names)
     THEN Refuse(draft, "unknown-binding")
     ELSE WithMeta(Materialize(draft, parent, roots, context), element, context)

(* The parts of a container, each in a cell or a panel of its own where    *)
(* the container has those.                                                *)
PartKinds == [grid |-> "grid-cell", tabs |-> "tab-panel"]

RECURSIVE CompileElement(_, _, _)

CompileParts(draft, element, context) ==
  LET join(d, part) ==
        LET child  == CompileElement(d, part, context)
            placed == IF child.refusal = "none" /\ element.type \in DOMAIN PartKinds
                      THEN Push(child, Layout(PartKinds[element.type], context, child.made))
                      ELSE child
        IN [placed EXCEPT !.made = d.made \o placed.made]
      all == FoldLeft(join, [draft EXCEPT !.made = <<>>], element.parts)
  IN IF all.refusal # "none" THEN all
     ELSE Push(all, Extending(Layout(element.type, context, all.made), element))

(* The template of a list's control, which is inside the item's object     *)
(* whether or not it says so.                                              *)
StartsWithItem(draft, binding) ==
  /\ Len(draft.made) = 1
  /\ draft.nodes[draft.made[1]].what = "object"
  /\ draft.nodes[draft.made[1]].binding = binding

CompileTemplate(draft, element, binding, list) ==
  LET id     == Len(draft.nodes)
      inside == InTemplate(binding, id)
      item   == Append(binding, Item)
      fresh  == [draft EXCEPT !.bound = {}]
      authored == CompileElement(fresh, element.parts[1], inside)
      objects  == { n \in Projected(item) : n.what = "object" }
      made == IF element.parts = <<>> THEN Materialize(fresh, {}, <<item>>, inside)
              ELSE IF authored.refusal # "none" \/ objects = {} \/ StartsWithItem(authored, item)
              THEN authored
              ELSE Push(authored, DefinitionNode("layout", "object", item, id, authored.made))
  IN IF element.parts = <<>> /\ ~IsMultipleChoice(list) THEN draft
     ELSE [ made EXCEPT !.nodes[id].children = made.made,
                        !.bound = draft.bound, !.made = <<id>> ]

CompileControl(draft, element, context) ==
  LET binding  == Absolute(context, element.binding)
      bindable == { n \in Projected(binding) :
                      \/ n.what = "control"
                      \/ /\ n.what = "array" /\ context.list = {}
                         /\ element.parts # <<>> \/ IsMultipleChoice(n) }
      node     == First(bindable)
      control  == [ DefinitionNode("control", node.what, binding, context.owner, <<>>)
                    EXCEPT !.widget = element.widget ]
      placed   == Push([draft EXCEPT !.bound = @ \cup {binding}],
                       Extending(control, element))
  IN IF element.origin # Origin(context) THEN Refuse(draft, "origin")
     ELSE IF bindable = {} THEN Refuse(draft, "unknown-binding")
     ELSE IF Overlaps(draft, {binding}) THEN Refuse(draft, "duplicate-binding")
     ELSE IF node.what = "array" THEN CompileTemplate(placed, element, binding, node)
     ELSE IF element.parts # <<>> \/ element.itemLabel
     THEN Refuse(draft, "unsupported-field")
     ELSE placed

CompileElement(draft, element, context) ==
  LET registered == RegisterId(draft, element.meta)
  IN IF draft.refusal # "none" THEN draft
     ELSE IF registered.refusal # "none" THEN registered
     ELSE CASE element.type = "control" -> CompileControl(registered, element, context)
            [] element.type = "auto"    -> CompileAuto(registered, element, context)
            [] element.type \notin {"control", "auto"} ->
                 CompileParts(registered, element, context)

Rooted(draft) == [draft EXCEPT !.nodes[1].children = draft.made]

Authored(ui) ==
  IF ExtensionRefusal(ui) # "none" THEN Refuse(Draft, ExtensionRefusal(ui))
  ELSE Rooted(CompileElement(Draft, ui.root, RootContext))

Generated ==
  Rooted(Materialize(Draft, {}, RootRoots(SetToSeq(DirectProperties(<<>>))), RootContext))

WithinOutputLimits(nodes) ==
  /\ Len(nodes) <= OutputLimits.nodes
  /\ Cardinality({ i \in DOMAIN nodes : nodes[i].kind = "control" }) <= OutputLimits.controls
  /\ Cardinality(warnings) + Cardinality(UNION { n.findings : n \in projected })
       <= OutputLimits.findings

PresentationInit == definition = <<>> /\ presented = "waiting"

Finish(draft) ==
  IF draft.refusal # "none"
  THEN presented' = draft.refusal /\ UNCHANGED definition
  ELSE IF ~WithinOutputLimits(draft.nodes)
  THEN presented' = "limit" /\ UNCHANGED definition
  ELSE presented' = "presented" /\ definition' = draft.nodes

Present ==
  /\ stage = "projected" /\ presented = "waiting"
  /\ Finish(IF input.ui = {} THEN Generated ELSE Authored(First(input.ui)))
-----------------------------------------------------------------------------
(* A form over a definition: the nodes there are of it when each list has  *)
(* some number of items, and how its limits count them.                    *)
Lists == { i \in DOMAIN definition : definition[i].what = "array" }

Template(list) ==
  First({ child \in ToSet(definition[list].children) : definition[child].owner = list })

RECURSIVE Instances(_, _)
Instances(i, lengths) ==
  1 + IF i \in Lists THEN lengths[i] * Instances(Template(i), lengths)
      ELSE FoldLeft(LAMBDA sum, child : sum + Instances(child, lengths), 0,
                    definition[i].children)

TreeMetrics(lengths) ==
  LET owned(owner) == Cardinality({ i \in DOMAIN definition : definition[i].owner = owner })
  IN owned(0) + FoldSet(LAMBDA list, sum : sum + lengths[list] * owned(list), 0, Lists)
-----------------------------------------------------------------------------
(* However generated regions and authored elements are combined, a         *)
(* definition is one tree; each list has one template, all of whose nodes  *)
(* it owns, and no other node is owned; and the limits on a form count     *)
(* exactly the nodes it instantiates, whatever the lengths of its lists    *)
(* (compile_authored_element, materialize_generated_region,                *)
(* initial_tree_metrics).                                                  *)
RECURSIVE Under(_)
Under(i) == {i} \cup UNION { Under(child) : child \in ToSet(definition[i].children) }

DefinitionIsATree ==
  LET edges == { <<i, k>> \in (DOMAIN definition) \X (1..Len(definition)) :
                 k \in DOMAIN definition[i].children }
      above(child) == { e \in edges : definition[e[1]].children[e[2]] = child }
  IN presented = "presented" =>
       /\ above(1) = {}
       /\ \A i \in 2..Len(definition) :
            /\ Cardinality(above(i)) = 1
            /\ LET parent == First(above(i))[1]
               IN definition[i].owner = IF parent \in Lists THEN parent
                                        ELSE definition[parent].owner
       /\ Under(1) = DOMAIN definition
       /\ \A list \in Lists : Len(definition[list].children) = 1
       /\ \A lengths \in [Lists -> 0..2] : Instances(1, lengths) = TreeMetrics(lengths)

(* A definition edits the values its UI schema names, each by one control, *)
(* and no other; without one, all there are.  A UI schema is refused for a *)
(* duplicate binding only when two elements of it name a value or an       *)
(* object both (compile_authored_element, select_auto_properties).         *)
RECURSIVE Elsewhere(_, _)
Elsewhere(element, context) ==
  LET inside == IF element.type = "control"
                THEN InTemplate(Absolute(context, element.binding), 0) ELSE context
  IN << <<element, context>> >>
       \o FlattenSeq([i \in DOMAIN element.parts |-> Elsewhere(element.parts[i], inside)])

Names(element, context) ==
  LET binding == IF element.type \in {"control", "auto"}
                 THEN Absolute(context, element.binding) ELSE NoBinding
      below(b) == { n.binding : n \in { m \in projected : IsPrefix(b, m.binding) } }
  IN CASE element.type = "control" -> IF element.parts = <<>> THEN below(binding) ELSE {binding}
       [] element.type = "auto" ->
            {binding} \cup UNION { below(Append(binding, name)) :
                name \in Selected(element.properties, DirectProperties(binding)) }
       [] element.type \notin {"control", "auto"} -> {}

UiSchemaIsFollowed ==
  LET root   == IF input.ui = {} THEN AutoElement("root", <<>>, Everything)
                ELSE First(input.ui).root
      places == Elsewhere(root, RootContext)
      names(i) == { b \in Names(places[i][1], places[i][2]) :
                      \E n \in Projected(b) : n.what # "unsupported" }
      shared == UNION { names(i) \cap names(j) :
                        <<i, j>> \in { p \in (DOMAIN places) \X (DOMAIN places) : p[1] # p[2] } }
      controls == { i \in DOMAIN definition : definition[i].kind = "control" }
      edited == { b \in UNION { names(i) : i \in DOMAIN places } :
                    \E n \in Projected(b) : n.what \in {"control", "array"} }
  IN /\ presented = "presented" =>
          /\ shared = {}
          /\ { definition[i].binding : i \in controls } = edited
          /\ Cardinality(edited) = Cardinality(controls)
     /\ presented = "duplicate-binding" => shared # {}
=============================================================================
