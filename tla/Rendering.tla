------------------------------ MODULE Rendering ------------------------------
(***************************************************************************)
(* A definition bound to renderers, and the page of a form over it: what   *)
(* each node is rendered as, the items its lists' templates are            *)
(* instantiated for, the tabs that are selected, and where following a     *)
(* finding of the summary leads.                                           *)
(*                                                                         *)
(* An instance is a node of the definition and an item, 0 outside of item  *)
(* templates; its element in the page is known by the instance.  What a    *)
(* page asks of the document (which elements are hidden, where the focus   *)
(* goes) is modelled from how it is used: an element of a panel that is    *)
(* not selected cannot be focused, its tab button can be clicked.          *)
(***************************************************************************)
EXTENDS Presentation

CONSTANTS
  Configurations,  \* the renderers and extension handlers a host registers
  MaxShown         \* the bound on the items a list has

VARIABLES
  plan,      \* what each node is rendered as, and why that fails
  items,     \* the number of items of each list
  page,      \* the rendered nodes
  selected,  \* the selected panel of each instance of tabs
  focused,   \* the element that has the focus, or the summary
  followed   \* the instance whose finding was followed last, if it was just now

renderingVars == <<plan, items, page, selected, focused, followed>>

ASSUME RenderingAssumption == MaxShown \in Nat
-----------------------------------------------------------------------------
(* The renderer of a control: the one registered for its widget, or the    *)
(* one of highest priority among those that match it.                      *)
Shown(i) == First(Projected(definition[i].binding))

IsCollection(i) == definition[i].what = "array" /\ ~IsMultipleChoice(Shown(i))

RenderedKinds(i) ==
  IF IsCollection(i) THEN {}
  ELSE IF definition[i].what = "array" THEN {"multiple-choice"}
  ELSE IF Shown(i).kind = "null" THEN {"constant"} ELSE {Shown(i).kind}

Matching(registry, i) ==
  { j \in DOMAIN registry.matchers : RenderedKinds(i) \subseteq registry.matchers[j].kinds }

Winners(registry, i) ==
  { j \in Matching(registry, i) : \A k \in Matching(registry, i) :
      registry.matchers[k].priority <= registry.matchers[j].priority }

Registered(sequence, names) == Cardinality({ j \in DOMAIN sequence : sequence[j] \in names })

OneOf(number, none, several) ==
  IF number = 0 THEN {none} ELSE IF number > 1 THEN {several} ELSE {}

RendererFindings(registry, i) ==
  IF RenderedKinds(i) = {} THEN {"unsupported-kind"}
  ELSE IF definition[i].widget # {}
  THEN OneOf(Registered(registry.widgets, definition[i].widget), "missing-widget", "ambiguous-widget")
  ELSE OneOf(Cardinality(Winners(registry, i)), "no-renderer", "ambiguous-matcher")
-----------------------------------------------------------------------------
(* The handlers of extensions; what a required one cannot be prepared for  *)
(* stops the form from being bound.                                        *)
RequiredNamespaces == IF input.ui = {} THEN {} ELSE ToSet(First(input.ui).required)

Used == UNION { definition[i].extensions : i \in DOMAIN definition }

ExtensionFindings(registry) ==
  UNION { LET handlers == Registered(registry.handlers, {namespace})
          IN IF handlers > 1 THEN {"ambiguous-extension"}
             ELSE IF namespace \notin RequiredNamespaces THEN {}
             ELSE IF handlers = 0 THEN {"missing-extension"}
             ELSE IF namespace \in registry.refused THEN {"invalid-extension"}
             ELSE {} : namespace \in Used }

Prepared(registry, i) ==
  { namespace \in definition[i].extensions \ registry.refused :
      Registered(registry.handlers, {namespace}) = 1 }
-----------------------------------------------------------------------------
(* The plan: the tree of the definition below its root, of bound nodes.    *)
(* There is nothing of a node that cannot be bound.                        *)
BoundNode(type, i, children) == << [type |-> type, node |-> i, children |-> children] >>

Decorated(registry, i, nodes) ==
  IF Prepared(registry, i) = {} THEN nodes ELSE BoundNode("decorated", i, nodes)

LayoutType(i) ==
  CASE definition[i].what = "object" -> "object"
    [] definition[i].what # "object" /\ definition[i].kind = "layout" -> "transparent"
    [] definition[i].what # "object" /\ definition[i].kind # "layout" -> definition[i].kind

RECURSIVE Assemble(_, _, _)
Assemble(registry, i, template) ==
  LET n        == definition[i]
      listed   == IsCollection(i) /\ ~template
      parts    == [ k \in DOMAIN n.children |->
                      Assemble(registry, n.children[k], template \/ listed) ]
      below    == FlattenSeq([k \in DOMAIN parts |-> parts[k].nodes])
      findings == UNION { parts[k].findings : k \in DOMAIN parts }
      unbound  == RendererFindings(registry, i)
      made(nodes, why) == [nodes |-> nodes, findings |-> why]
  IN CASE n.kind = "unsupported" /\ template -> made(<<>>, {"unsupported-node"})
       [] n.kind = "unsupported" /\ ~template ->
            made(Decorated(registry, i, BoundNode("unsupported", i, <<>>)), {})
       [] n.kind = "control" /\ listed ->
            made(IF below = <<>> THEN <<>> ELSE Decorated(registry, i, BoundNode("array", i, below)),
                 findings \cup IF n.widget # {} THEN {"collection-widget"} ELSE {})
       [] n.kind = "control" /\ ~listed ->
            made(IF unbound # {} THEN <<>> ELSE Decorated(registry, i, BoundNode("control", i, <<>>)),
                 unbound)
       [] n.kind \notin {"unsupported", "control"} ->
            made(Decorated(registry, i, BoundNode(LayoutType(i), i, below)), findings)

Bind(registry) ==
  LET parts == [ k \in DOMAIN definition[1].children |->
                   Assemble(registry, definition[1].children[k], FALSE) ]
  IN [ nodes    |-> FlattenSeq([k \in DOMAIN parts |-> parts[k].nodes]),
       findings |-> ExtensionFindings(registry)
                      \cup UNION { parts[k].findings : k \in DOMAIN parts } ]
-----------------------------------------------------------------------------
(* The instances of a form, as it tells them itself.                       *)
Instance(i, item) == <<i, item>>

ChildrenOf(instance, lengths) ==
  LET i == instance[1] IN
  IF i \in Lists THEN [k \in 1..lengths[i] |-> Instance(Template(i), k)]
  ELSE [k \in DOMAIN definition[i].children |-> Instance(definition[i].children[k], instance[2])]

RECURSIVE InstancesUnder(_)
InstancesUnder(instance) ==
  {instance} \cup UNION { InstancesUnder(child) : child \in ToSet(ChildrenOf(instance, items)) }

(* The page: each node at its instance, and a list's template once for     *)
(* each of its items.  A template is laid over the children the form tells *)
(* of an item, and gives nothing when they are not as many as its own.     *)
Rendered(type, instance, children) ==
  << [type |-> type, instance |-> instance, children |-> children] >>

RECURSIVE Instantiate(_, _)
Instantiate(bound, instance) ==
  LET below == IF bound.type = "decorated" THEN <<instance>> ELSE ChildrenOf(instance, <<>>)
      parts == IF Len(below) # Len(bound.children) THEN <<>>
               ELSE FlattenSeq([ k \in DOMAIN below |->
                                   Instantiate(bound.children[k], below[k]) ])
  IN IF bound.type = "control" THEN Rendered(bound.type, instance, <<>>)
     ELSE IF Len(parts) # Len(below) \/ Len(parts) # Len(bound.children) THEN <<>>
     ELSE Rendered(bound.type, instance, parts)

RECURSIVE Mounted(_, _)
Mounted(bound, lengths) ==
  LET each  == [ k \in 1..lengths[bound.node] |->
                   Instantiate(bound.children[1], Instance(Template(bound.node), k)) ]
      parts == IF bound.type = "array" THEN each
               ELSE [k \in DOMAIN bound.children |-> Mounted(bound.children[k], lengths)]
  IN Rendered(bound.type, Instance(bound.node, 0), FlattenSeq(parts))

Page(lengths) == FlattenSeq([k \in DOMAIN plan.nodes |-> Mounted(plan.nodes[k], lengths)])
-----------------------------------------------------------------------------
(* Where the findings of an instance lead: to an element, through the tabs *)
(* that contain it.  A multiple choice stands for its items, which are not *)
(* rendered; the form stands for whatever has no target.                   *)
Form == Instance(1, 0)

FocusTarget(element, tabs) == [element |-> element, tabs |-> tabs]

(* Mutant: only the innermost tabs are known.                              *)
InnermostTab(tabs, node, k) == << [of |-> node.instance, panel |-> k] >>

InTab(tabs, node, k) == Append(tabs, [of |-> node.instance, panel |-> k])

RECURSIVE FocusTargets(_, _)
FocusTargets(node, tabs) ==
  LET own   == { <<node.instance, FocusTarget(node.instance, tabs)>> }
      below == UNION { FocusTargets(node.children[k],
                                    IF node.type = "tabs" THEN InTab(tabs, node, k) ELSE tabs) :
                       k \in DOMAIN node.children }
      within == IF node.instance[1] \in Lists THEN ToSet(ChildrenOf(node.instance, items)) ELSE {}
  IN CASE node.type = "control" ->
            own \cup { <<item, FocusTarget(node.instance, tabs)>> : item \in within }
       [] node.type \in {"object", "tab-panel", "array", "unsupported"} -> own \cup below
       [] node.type \notin {"control", "object", "tab-panel", "array", "unsupported"} -> below

TargetOf(instance) ==
  LET targets == UNION { FocusTargets(page[k], <<>>) : k \in DOMAIN page }
      found   == { t \in targets : t[1] = instance }
  IN IF found = {} THEN FocusTarget(Form, <<>>) ELSE First(found)[2]

(* The elements of the page while some panels of each tabs are open, which *)
(* are the ones that can be focused.                                       *)
RECURSIVE ElementsOf(_, _)
ElementsOf(node, open) ==
  {node.instance} \cup UNION { ElementsOf(node.children[k], open) :
    k \in { j \in DOMAIN node.children : node.type = "tabs" => j \in open[node.instance] } }

PageElements(open) == {Form} \cup UNION { ElementsOf(page[k], open) : k \in DOMAIN page }

Visible(panels) == PageElements([tabs \in DOMAIN panels |-> {panels[tabs]}])
-----------------------------------------------------------------------------
NoPlan  == [nodes |-> <<>>, findings |-> {"unbound"}]
Nothing == <<"nothing">>
Summary == <<"summary">>

RenderingInit ==
  /\ plan = NoPlan
  /\ items = <<>> /\ page = <<>> /\ selected = <<>>
  /\ focused = Nothing /\ followed = {}

BindForm(registry) ==
  /\ presented = "presented" /\ plan = NoPlan
  /\ plan' = Bind(registry)
  /\ UNCHANGED <<items, page, selected, focused, followed>>

(* Every tabs of the page starts with its first panel.                     *)
Tabs(lengths) ==
  UNION { LET owner == definition[i].owner
          IN {i} \X (IF owner = 0 THEN {0} ELSE 1..lengths[owner]) :
          i \in { j \in DOMAIN definition : definition[j].kind = "tabs" } }

MountPage(lengths) ==
  /\ plan.findings = {} /\ focused = Nothing
  /\ items' = lengths
  /\ page' = Page(lengths)
  /\ selected' = [tabs \in Tabs(lengths) |-> 1]
  /\ focused' = Summary
  /\ UNCHANGED <<plan, followed>>

IsMounted == focused # Nothing

(* A click on a tab, or a key pressed on it: an arrow goes round.          *)
NextPanel(key, k, count) ==
  CASE key = "right" -> (k % count) + 1
    [] key = "left"  -> ((k + count - 2) % count) + 1
    [] key = "home"  -> 1
    [] key = "end"   -> count
    [] key = "enter" -> k

Panels(tabs) == DOMAIN definition[tabs[1]].children

ClickTab(tabs, k) ==
  /\ IsMounted /\ tabs \in Visible(selected)
  /\ selected' = [selected EXCEPT ![tabs] = k]
  /\ focused' = <<"tab", tabs, k>> /\ followed' = {}
  /\ UNCHANGED <<plan, items, page>>

PressKey(tabs, k, key) ==
  /\ IsMounted /\ focused = <<"tab", tabs, k>>
  /\ LET other == NextPanel(key, k, Cardinality(Panels(tabs)))
     IN /\ selected' = [selected EXCEPT ![tabs] = other]
        /\ focused' = <<"tab", tabs, other>>
  /\ followed' = {}
  /\ UNCHANGED <<plan, items, page>>

(* An entry of the summary is followed: the tabs around its target are     *)
(* clicked from the outermost on, then the target is focused if it can be. *)
FollowFinding(instance) ==
  LET target == TargetOf(instance)
      turned == FoldLeft(LAMBDA panels, tab : [panels EXCEPT ![tab.of] = tab.panel],
                         selected, target.tabs)
  IN /\ IsMounted
     /\ selected' = turned
     /\ focused' = IF target.element \in Visible(turned) THEN target.element ELSE Summary
     /\ followed' = {instance}
     /\ UNCHANGED <<plan, items, page>>

(* The nodes a finding can be about, the items of multiple choices among   *)
(* them but nothing further inside those.                                  *)
InMultipleChoice(instance) ==
  LET owner == definition[instance[1]].owner IN owner # 0 /\ ~IsCollection(owner)

Findable ==
  { instance \in InstancesUnder(Form) :
      LET n == definition[instance[1]] IN
      /\ n.binding # NoBinding
      /\ InMultipleChoice(instance) => instance[1] = Template(n.owner) } \cup {Form}

RenderingNext ==
  \/ \E registry \in Configurations : BindForm(registry)
  \/ \E lengths \in [Lists -> 0..MaxShown] : MountPage(lengths)
  \/ \E tabs \in DOMAIN selected : \E k \in Panels(tabs) :
       \/ ClickTab(tabs, k)
       \/ \E key \in {"right", "left", "home", "end", "enter"} : PressKey(tabs, k, key)
  \/ IsMounted /\ \E instance \in Findable : FollowFinding(instance)
-----------------------------------------------------------------------------
(* A definition has nothing in it that no renderer could be found for.  A  *)
(* bound form shows every instance of it but those inside a multiple       *)
(* choice, whatever its lists hold; and following a finding reveals the    *)
(* element of the instance the finding is about (the multiple choice for   *)
(* its items), through whatever tabs contain it and whichever of their     *)
(* panels were selected (assemble_bound_node, instantiate_array_template,  *)
(* collect_focus_targets).                                                 *)
ShownBy(instance) ==
  IF InMultipleChoice(instance) THEN Instance(definition[instance[1]].owner, 0) ELSE instance

PanelsAround(instance) ==
  { <<tabs, k>> \in UNION { {t} \X Panels(t) : t \in DOMAIN selected } :
      instance \in InstancesUnder(ChildrenOf(tabs, items)[k]) }

FindingsLeadToTheirNodes ==
  /\ plan.findings \cap {"unsupported-kind", "unsupported-node"} = {}
  /\ IsMounted =>
       PageElements([tabs \in DOMAIN selected |-> Panels(tabs)])
         = { instance \in InstancesUnder(Form) : ~InMultipleChoice(instance) }
  /\ \A instance \in followed :
       /\ focused = ShownBy(instance)
       /\ \A panel \in PanelsAround(instance) : selected[panel[1]] = panel[2]
=============================================================================
