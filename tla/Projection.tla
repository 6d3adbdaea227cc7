----------------------------- MODULE Projection -----------------------------
(***************************************************************************)
(* Projecting a prepared data schema to what a form edits: controls, fixed *)
(* objects and lists, and the regions that no control can edit.            *)
(*                                                                         *)
(* What applies at a binding is found by following references and allOf    *)
(* from the schemas there; Shapes says what a form can make of it.  The    *)
(* properties of an object are projected one by one, and those of an       *)
(* object among them before the next; the items of a list have a template  *)
(* that is projected the same way and given up with all it has when one    *)
(* region of it cannot be edited.                                          *)
(*                                                                         *)
(* Bindings are sequences of property names; those in the item template of *)
(* a list continue the list's with Item.                                   *)
(***************************************************************************)
EXTENDS Shapes

CONSTANTS
  MaxProjection  \* the limit on schemas visited by the projection

VARIABLES
  traversal,  \* the schemas visited so far
  pending,    \* schemas to be expanded, the last one first
  seen,       \* the keys of those expanded
  expanded,   \* the schemas found to apply
  cycles,     \* the references that lead back to where they are
  subject,    \* the binding the expansion is for
  agenda,     \* the objects whose properties are being projected, inmost first
  projected,  \* what was projected: the definition's nodes
  warnings,   \* what the form tells of objects it edits nevertheless
  stage       \* how far the projection came

expansionVars  == <<pending, seen, expanded, cycles, subject>>
projectionVars == <<traversal, expansionVars, agenda, projected, warnings, stage>>

Item == "[item]"

ASSUME ProjectionAssumption ==
  /\ MaxProjection \in Nat
  /\ \A i \in Input : \A d \in DOMAIN i.documents : \A at \in DOMAIN i.documents[d].nodes :
       \A j \in DOMAIN at : at[j][1] = "properties" => at[j][2] # Item
-----------------------------------------------------------------------------

Located(l, memberships) ==
  [ doc |-> l.doc, at |-> l.at, base |-> l.base,
    memberships |-> memberships, path |-> {Place(l)} ]

ProjectionInit ==
  /\ traversal = 0
  /\ pending = <<>> /\ seen = {} /\ expanded = {} /\ cycles = {}
  /\ subject = [of |-> "root", binding |-> <<>>, list |-> {}]
  /\ agenda = <<>>
  /\ projected = {} /\ warnings = {}
  /\ stage = "waiting"

ExpandNext(schemas, of, binding, list) ==
  /\ pending' = schemas
  /\ subject' = [of |-> of, binding |-> binding, list |-> list]
  /\ seen' = {} /\ expanded' = {} /\ cycles' = {}

(* Every schema an instance may be validated against is reached before     *)
(* anything is projected; a reference to the dialect's own schema, which   *)
(* preparation let pass, stops it here.                                    *)
Answered(l) == { k \in References(SchemaOf(l)) : Target(l, k) # NoLocation }

Validated(from) ==
  Closure(from, [ l \in visited |-> { Target(l, k) : k \in Answered(l) }
                                      \cup Subschemas(l, ApplicableKeywords) ])

ValidationVisits(from) ==
  1 + FoldSet(LAMBDA l, sum : sum + Cardinality(Answered(l))
                                + Cardinality(Subschemas(l, ApplicableKeywords)),
              0, Validated(from))

IncludeValidationResources ==
  LET root == Root(documents, 1)
      stop(reason) == stage' = reason /\ UNCHANGED expansionVars
  IN /\ stage = "waiting" /\ outcome = "prepared"
     /\ IF \E l \in Validated({root}) : Answered(l) # References(SchemaOf(l))
        THEN stop("unsupported-reference")
        ELSE IF ValidationVisits({root}) > MaxProjection THEN stop("limit")
        ELSE stage' = "expanding" /\ ExpandNext(<<Located(root, <<>>)>>, "root", <<>>, {})
     /\ UNCHANGED <<traversal, agenda, projected, warnings>>
-----------------------------------------------------------------------------
(* Following references and allOf from the schemas at one binding.  A      *)
(* schema remembers the allOf it came through, and the schemas on the way; *)
(* a reference to one of these, or to a schema around the binding, is not  *)
(* followed.  A schema is expanded once for the allOf it came through.     *)
Membership(origin, branch) == [origin |-> origin, branch |-> branch]

Joined(memberships, membership) ==
  IF Contains(memberships, membership) THEN memberships
  ELSE Append(memberships, membership)

Applying(l) == [doc |-> l.doc, at |-> l.at, base |-> l.base, memberships |-> l.memberships]

Active == IF agenda = <<>> THEN {} ELSE Head(agenda).active

Entry(l) ==
  IF Uses(l, "allOf")
  THEN [l EXCEPT !.memberships = Joined(@, Membership(Place(l), 0))] ELSE l

Via(l, target, memberships) ==
  [Located(target, memberships) EXCEPT !.path = @ \cup l.path]

(* Mutant: only the path of the expansion itself is looked at.             *)
IsCyclicWithin(l) == Has(SchemaOf(l), "ref") /\ Place(Target(l, "ref")) \in l.path

IsCyclic(l) ==
  Has(SchemaOf(l), "ref") /\ Place(Target(l, "ref")) \in Active \cup l.path

(* Mutant: a reference next to an allOf is not followed.                   *)
FollowedAlone(l) ==
  IF Has(SchemaOf(l), "ref") /\ ~IsCyclic(l) /\ ~Uses(l, "allOf")
  THEN << Via(l, Target(l, "ref"), l.memberships) >> ELSE <<>>

Followed(l) ==
  IF Has(SchemaOf(l), "ref") /\ ~IsCyclic(l)
  THEN << Via(l, Target(l, "ref"), l.memberships) >> ELSE <<>>

Branching(l) ==
  [ i \in DOMAIN Branches(l) |->
      Via(l, Branches(l)[i], Joined(l.memberships, Membership(Place(l), i))) ]

Expand ==
  LET l     == Entry(Last(pending))
      key   == <<Bare(l), ToSet(l.memberships)>>
      new   == key \notin seen
  IN /\ stage = "expanding" /\ pending # <<>>
     /\ traversal' = traversal + 1 +
          IF new /\ Has(SchemaOf(l), "dynamicRef")
          THEN ValidationVisits({Target(l, "dynamicRef")}) ELSE 0
     /\ IF traversal' > MaxProjection
        THEN stage' = "limit" /\ UNCHANGED expansionVars
        ELSE /\ pending' = IF new THEN Front(pending) \o Followed(l) \o Branching(l)
                           ELSE Front(pending)
             /\ seen' = seen \cup {key}
             /\ expanded' = IF new THEN expanded \cup {Applying(l)} ELSE expanded
             /\ cycles' = IF new /\ IsCyclic(l) THEN cycles \cup {Place(l)} ELSE cycles
             /\ UNCHANGED <<subject, stage>>
     /\ UNCHANGED <<agenda, projected, warnings>>

RecursiveFindings ==
  { Finding("structure.recursive.projection", Append(p, "ref")) : p \in cycles }
-----------------------------------------------------------------------------
(* The value a control, an object or a list is created with: the one       *)
(* default the schemas agree on, or the least there is.                    *)
NoSeed == [kind |-> "absent"]

Defaults(schemas) == Distinct({ SchemaOf(l).default : l \in Using(schemas, "default") })

TheOnly(values, otherwise) ==
  IF Cardinality(values) = 1 THEN First(values) ELSE otherwise

EmptyOf(kind) ==
  CASE kind \in {"number", "integer"} ->
         [ kind |-> "number", number |->
             [negative |-> FALSE, whole |-> <<0>>, fraction |-> <<>>, exponent |-> 0] ]
    [] kind = "string"               -> [kind |-> "string", text |-> "empty"]
    [] kind = "boolean"              -> [kind |-> "boolean", flag |-> FALSE]
    [] kind \in {"object", "array"}  -> [kind |-> kind, text |-> "empty"]

StructureSeed(schemas, kind) ==
  TheOnly({ v \in Defaults(schemas) : v.kind = kind }, EmptyOf(kind))

ControlKind(kind, choices) ==
  CASE choices.values = {} -> kind
    [] choices.values # {} /\ choices.nullOnly -> "null"
    [] choices.values # {} /\ ~choices.nullOnly ->
         IF choices.selectable THEN "choice" ELSE "constant"

(* Mutant: a value among the choices has any type.                         *)
CompatibleWithChoices(kind, values, v) == values = {} \/ Among(v, values)

ScalarIsCompatible(kind, values, v) ==
  IF kind \in Scalars THEN HasType(v, kind) ELSE Among(v, values)

MinimalSeed(kind, values) ==
  LET solid == { v \in values : ~IsNull(v) }
  IN IF kind \in Scalars THEN EmptyOf(kind)
     ELSE IF kind = "null" THEN NullValue
     ELSE First(IF solid # {} THEN solid ELSE values)

ScalarSeed(schemas, kind, values) ==
  TheOnly({ v \in Defaults(schemas) : ~IsNull(v) /\ ScalarIsCompatible(kind, values, v) },
          IF kind = "null" THEN NoSeed ELSE MinimalSeed(kind, values))

ItemSeed(schemas, kind, values, nullable) ==
  TheOnly({ v \in Defaults(schemas) : \/ IsNull(v) /\ nullable
                                      \/ ScalarIsCompatible(kind, values, v) },
          MinimalSeed(kind, values))

Bounds(schemas, keyword) ==
  { Bound(SchemaOf(l)[keyword]) : l \in Using(schemas, keyword) } \ {NoBound}
-----------------------------------------------------------------------------
(* Objects may hold more than a form shows of them.                        *)
IsClosed(schemas) ==
  \E l \in schemas : Has(SchemaOf(l), "additionalProperties")
                       /\ SchemaOf(l).additionalProperties = FALSE

Opened(schemas) ==
  { l \in schemas : Has(SchemaOf(l), "additionalProperties")
                      /\ SchemaOf(l).additionalProperties = TRUE }

Mapped(schemas) == { l \in schemas : Below(l, "additionalProperties") # {} }

OpenObjectWarnings(schemas) ==
  IF Using(schemas, "properties") = {} THEN {}
  ELSE FirstFinding(schemas, "patternProperties",
                    "applicator.pattern-properties.fixed-projection")
       \cup (IF IsClosed(schemas) THEN {}
             ELSE IF Mapped(schemas) # {}
             THEN FirstFinding(Mapped(schemas), "additionalProperties",
                               "applicator.additional-properties.schema-projection")
             ELSE IF Opened(schemas) # {}
             THEN FirstFinding(Opened(schemas), "additionalProperties",
                               "applicator.additional-properties.open")
             ELSE { Finding("applicator.additional-properties.open",
                            Place(First(Using(schemas, "properties")))) })

DynamicMapFindings(schemas) ==
  IF Using(schemas, "properties") # {} THEN {}
  ELSE FirstFinding(schemas, "patternProperties", "applicator.pattern-properties.shape")
       \cup FirstFinding(schemas, "unevaluatedProperties", "unevaluated.properties.shape")
       \cup (IF IsClosed(schemas) THEN {}
             ELSE IF Mapped(schemas) \cup Opened(schemas) # {}
             THEN FirstFinding(Mapped(schemas) \cup Opened(schemas), "additionalProperties",
                               "applicator.additional-properties.dynamic-map")
             ELSE { Finding("applicator.additional-properties.dynamic-map",
                            Place(First(schemas))) })

IsBoolean(l) == Has(SchemaOf(l), "boolean")

UnsupportedControl(schemas) ==
  IF \E l \in schemas : IsBoolean(l)
  THEN { Finding("core.boolean.unconstrained", Place(First(schemas))) }
  ELSE IF Using(schemas, "type") # {}
  THEN FirstFinding(schemas, "type", "validation.type.ambiguous")
  ELSE { Finding("validation.type.unconstrained", Place(First(schemas))) }

UnsupportedRoot(schemas, kind, hasChoices) ==
  LET declared == UNION { SchemaOf(l).type : l \in Using(schemas, "type") }
  IN IF kind = "array" \/ (kind = NoKind /\ ~hasChoices /\ declared = {"array"})
     THEN FirstFinding(schemas, "type", "structure.root.array")
     ELSE IF kind # NoKind
     THEN FirstFinding(schemas, "type", "structure.root.scalar")
     ELSE IF hasChoices
     THEN { Finding("structure.root.scalar", Place(First(schemas))) }
     ELSE UnsupportedControl(schemas)
-----------------------------------------------------------------------------
(* What is projected at a binding.  The root itself is no node unless it   *)
(* cannot be edited.                                                       *)
ProjectedNode(what, binding, schemas, kind, values, seed, findings) ==
  [ what |-> what, binding |-> binding, schemas |-> schemas, kind |-> kind,
    choices |-> values, seed |-> seed, findings |-> findings,
    nullable |-> IF values # {} THEN \E v \in values : IsNull(v)
                 ELSE kind \in Scalars /\ AcceptsNull(schemas),
    lengths |-> IF what = "array"
                THEN [ least  |-> Bounds(schemas, "minItems"),
                       most   |-> Bounds(schemas, "maxItems"),
                       unique |-> \E l \in schemas : Has(SchemaOf(l), "uniqueItems")
                                                       /\ SchemaOf(l).uniqueItems ]
                ELSE [least |-> {}, most |-> {}, unique |-> FALSE] ]

Unsupported(binding, schemas, findings) ==
  ProjectedNode("unsupported", binding, schemas, NoKind, {}, NoSeed, findings)

Control(binding, schemas, kind, choices, seed) ==
  ProjectedNode("control", binding, schemas, ControlKind(kind, choices),
                choices.values, seed, {})

Structure(binding, schemas, kind) ==
  ProjectedNode(kind, binding, schemas, kind, {}, StructureSeed(schemas, kind), {})

(* Mutant: an object in a template is no different.                        *)
FrameAnywhere(binding, schemas, template, list) ==
  [ binding |-> binding, schemas |-> schemas, left |-> PropertyNames(schemas),
    active |-> Active \cup { Place(l) : l \in schemas },
    template |-> FALSE, list |-> list ]

(* The object at a binding, in the item template of a list or not.  list   *)
(* are the schemas of the list whose items it is.                          *)
Frame(binding, schemas, template, list) ==
  [ binding |-> binding, schemas |-> schemas, left |-> PropertyNames(schemas),
    active |-> Active \cup { Place(l) : l \in schemas },
    template |-> template, list |-> list ]

Warn(binding, findings) ==
  warnings' = warnings \cup { <<binding, f>> : f \in findings }

ShapeWith(schemas, kind, choices) ==
  [ kind |-> kind, choices |-> choices,
    findings |->
      RecursiveFindings \cup choices.findings
        \cup DeferredShapeFindings(schemas, kind, choices.values # {})
        \cup (IF kind = "object" THEN DynamicMapFindings(schemas) ELSE {}) ]

Shape(schemas) ==
  LET of(kind) == ShapeWith(schemas, kind, ScalarChoices(schemas, kind))
  IN of(InferKind(schemas))

Panic == stage' = "panicked" /\ UNCHANGED <<agenda, projected, warnings>>

PlaceRoot(shape) ==
  LET findings ==
        shape.findings \cup KindConflicts(expanded)
          \cup (IF shape.kind = "object" \/ shape.choices.findings # {} THEN {}
                ELSE UnsupportedRoot(expanded, shape.kind, shape.choices.values # {}))
  IN IF shape.choices.panics THEN Panic
     ELSE /\ projected' = IF findings = {} THEN {}
                          ELSE {Unsupported(<<>>, expanded, findings)}
          /\ IF shape.kind = "object"
             THEN /\ Warn(<<>>, OpenObjectWarnings(expanded))
                  /\ IF Using(expanded, "properties") # {}
                     THEN /\ agenda' = <<Frame(<<>>, expanded, FALSE, {})>>
                          /\ stage' = "choosing"
                     ELSE /\ stage' = IF findings = {} /\ ~IsClosed(expanded)
                                      THEN "missing-properties" ELSE "projected"
                          /\ UNCHANGED agenda
             ELSE stage' = "projected" /\ UNCHANGED <<agenda, warnings>>

(* The properties are taken in the order of their names; here in any.      *)
StartProperty ==
  LET frame == Head(agenda)
  IN /\ stage = "choosing" /\ agenda # <<>>
     /\ \E name \in frame.left :
          LET child(l) == Located(Property(l, name), l.memberships)
          IN /\ traversal' = traversal + 1
             /\ IF traversal' > MaxProjection
                THEN stage' = "limit" /\ UNCHANGED <<agenda, expansionVars>>
                ELSE /\ agenda' = [agenda EXCEPT ![1].left = @ \ {name}]
                     /\ ExpandNext(SetToSeq({ child(l) : l \in Declaring(frame.schemas, name) }),
                                   "property", Append(frame.binding, name), {})
                     /\ stage' = "expanding"
     /\ UNCHANGED <<projected, warnings>>

(* A node is placed, and the next property taken.                          *)
Put(nodes) ==
  /\ projected' = projected \cup nodes
  /\ stage' = "choosing"

ProjectList ==
  LET items   == { Located(Sub(l, Append(l.at, <<"items">>)), l.memberships) :
                   l \in { m \in expanded : Below(m, "items") # {} } }
      missing == IF Using(expanded, "unevaluatedItems") # {}
                 THEN FirstFinding(expanded, "unevaluatedItems", "unevaluated.items.shape")
                 ELSE { Finding("structure.array.homogeneous-scalar", Place(First(expanded))) }
      nested  == { Finding("structure.array.nested", Place(First(expanded))) }
      refuse(findings) == /\ Put({Unsupported(subject.binding, expanded, findings)})
                          /\ UNCHANGED expansionVars
  IN IF Head(agenda).template THEN refuse(nested)
     ELSE IF items = {} THEN refuse(missing)
     ELSE /\ ExpandNext(SetToSeq(items), "item", subject.binding, expanded)
          /\ UNCHANGED <<projected, stage>>

PlaceProperty(shape) ==
  LET binding == subject.binding
      choices == shape.choices
      findings == shape.findings
                    \cup (IF choices.values # {} THEN {} ELSE KindConflicts(expanded))
      kind    == ControlKind(shape.kind, choices)
      editable == choices.values # {} \/ shape.kind \in Scalars
      quiet   == UNCHANGED <<agenda, warnings, expansionVars>>
  IN IF choices.panics THEN Panic /\ UNCHANGED expansionVars
     ELSE IF findings # {} THEN Put({Unsupported(binding, expanded, findings)}) /\ quiet
     ELSE IF editable
     THEN /\ Put({Control(binding, expanded, shape.kind, choices,
                          ScalarSeed(expanded, kind, choices.values))})
          /\ quiet
     ELSE IF shape.kind = "object"
     THEN /\ Put({Structure(binding, expanded, "object")})
          /\ Warn(binding, OpenObjectWarnings(expanded))
          /\ agenda' = <<Frame(binding, expanded, Head(agenda).template, {})>> \o agenda
          /\ UNCHANGED expansionVars
     ELSE IF shape.kind = "array"
     THEN ProjectList /\ UNCHANGED <<agenda, warnings>>
     ELSE Put({Unsupported(binding, expanded, UnsupportedControl(expanded))}) /\ quiet

(* The items of a list: scalars, or objects whose properties come first.   *)
PlaceItem(shape) ==
  LET list     == subject.binding
      binding  == Append(list, Item)
      choices  == shape.choices
      kind     == ControlKind(shape.kind, choices)
      editable == choices.values # {} \/ shape.kind \in Scalars
      item     == Control(binding, expanded, shape.kind, choices, NoSeed)
      seeded   == [item EXCEPT !.seed =
                     ItemSeed(expanded, kind, choices.values, item.nullable)]
      unlike   == { Finding(IF shape.kind = "array" THEN "structure.array.nested"
                            ELSE "structure.array.homogeneous-scalar", Place(First(expanded))) }
      refuse(findings) == Put({Unsupported(list, subject.list, findings)})
      quiet    == UNCHANGED <<agenda, warnings>>
  IN IF choices.panics THEN Panic
     ELSE IF shape.findings # {} THEN refuse(shape.findings) /\ quiet
     ELSE IF shape.kind = "object"
     THEN /\ Put({Structure(binding, expanded, "object")})
          /\ Warn(list, OpenObjectWarnings(expanded))
          /\ agenda' = <<Frame(binding, expanded, TRUE, subject.list)>> \o agenda
     ELSE IF editable
     THEN Put({seeded, Structure(list, subject.list, "array")}) /\ quiet
     ELSE refuse(unlike) /\ quiet

(* All that applies at the binding is found, and decides what it is.       *)
PlaceSubject(shape) ==
  \/ subject.of = "root" /\ PlaceRoot(shape) /\ UNCHANGED expansionVars
  \/ subject.of = "property" /\ PlaceProperty(shape)
  \/ subject.of = "item" /\ PlaceItem(shape) /\ UNCHANGED expansionVars

ProjectSubject ==
  /\ stage = "expanding" /\ pending = <<>>
  /\ PlaceSubject(Shape(expanded))
  /\ UNCHANGED traversal

(* All properties of an object are placed.  A template that holds anything *)
(* a form cannot edit is given up, and the whole list with it.             *)
FinishObject ==
  LET frame    == Head(agenda)
      list     == Front(frame.binding)
      within   == { node \in projected : IsPrefix(frame.binding, node.binding) }
      failed   == { node \in within : node.what = "unsupported" }
      heard    == { w \in warnings : IsPrefix(frame.binding, w[1]) }
  IN /\ stage = "choosing" /\ agenda # <<>> /\ frame.left = {}
     /\ agenda' = Tail(agenda)
     /\ stage' = IF agenda' = <<>> THEN "projected" ELSE "choosing"
     /\ IF frame.list = {} THEN UNCHANGED <<projected, warnings>>
        ELSE IF failed # {}
        THEN /\ projected' = (projected \ within) \cup
                  {Unsupported(list, frame.list, UNION { node.findings : node \in failed })}
             /\ warnings' = warnings \ heard
        ELSE /\ projected' = projected \cup {Structure(list, frame.list, "array")}
             /\ warnings' = (warnings \ heard) \cup { <<list, w[2]>> : w \in heard }
     /\ UNCHANGED <<traversal, expansionVars>>

ProjectionNext ==
  \/ IncludeValidationResources \/ Expand \/ ProjectSubject
  \/ StartProperty \/ FinishObject

(* Preparing a data schema, and projecting it.                             *)
PreparingNext  == ResourcesNext /\ UNCHANGED projectionVars
ProjectingNext == ProjectionNext /\ UNCHANGED resourceVars

ProjectionSpec ==
  /\ ResourcesInit /\ ProjectionInit
  /\ [][PreparingNext \/ ProjectingNext]_<<resourceVars, projectionVars>>
-----------------------------------------------------------------------------
(* Whatever was followed when the graph was prepared, the subschemas below *)
(* it were followed as well, each in the resource its own identity names:  *)
(* projection normalizes their locations without a way to fail             *)
(* (located_subschema).                                                    *)
SubschemasAreFollowed ==
  outcome = "prepared" =>
    \A l \in visited : Subschemas(l, SchemaKeywords) \subseteq visited

(* Among the schemas found to apply at a binding is everything references  *)
(* and allOf lead to from them, cycles or not, but for the objects around  *)
(* the binding (expand_references).                                        *)
WhatAppliesIsExpanded ==
  stage = "expanding" /\ pending = <<>> =>
    LET schemas == { Bare(l) : l \in expanded }
    IN Reachable(schemas, {"ref", "allOf"}, Active) = schemas

(* A form is told of a cycle when there is one: a reference among the      *)
(* schemas that apply that leads back to where it is or to an object       *)
(* around the binding, which would have to be projected within itself      *)
(* (expand_references).                                                    *)
CyclesAreReported ==
  stage = "expanding" /\ pending = <<>> =>
    LET schemas == { Bare(l) : l \in expanded }
        looping == { l \in { m \in schemas : Has(SchemaOf(m), "ref") } :
                       \/ Place(Target(l, "ref")) \in Active
                       \/ l \in Reachable({Target(l, "ref")}, {"ref", "allOf"}, Active) }
    IN (cycles # {}) = (looping # {})

(* Every property of an object that is edited is placed, once, and nothing *)
(* is placed below what is not edited; a list has a template without gaps  *)
(* (compile_properties, compile_homogeneous_array).                        *)
Roots == IF \E l \in { Root(documents, 1) } :
              InferKind(Reachable({l}, {"ref", "allOf"}, {})) = "object"
         THEN { [ binding |-> <<>>,
                  schemas |-> Reachable({Root(documents, 1)}, {"ref", "allOf"}, {}) ] }
         ELSE {}

EveryPropertyIsPlaced ==
  LET objects == { [binding |-> n.binding, schemas |-> n.schemas] :
                   n \in { m \in projected : m.what = "object" } } \cup Roots
      at(b)   == { n \in projected : n.binding = b }
      lists   == { n.binding : n \in { m \in projected : m.what = "array" } }
  IN stage = "projected" =>
       /\ \A o \in objects : \A name \in PropertyNames(o.schemas) :
            Cardinality(at(Append(o.binding, name))) = 1
       /\ \A n \in projected : n.binding # <<>> =>
            Front(n.binding) \in { o.binding : o \in objects } \cup lists
       /\ \A b \in lists :
            /\ Cardinality(at(Append(b, Item))) = 1
            /\ \A n \in projected :
                 IsPrefix(Append(b, Item), n.binding) => n.what \in {"control", "object"}

(* Whatever schemas apply, working out the choices of a binding ends in    *)
(* choices or in a finding, and never fails: what leaves nothing to choose *)
(* is an enum, a const or a constant choice (scalar_choices).              *)
EmptyChoicesHaveASource == stage # "panicked"

(* A scalar control takes exactly the values that types, enum, const and   *)
(* the constants of oneOf and anyOf admit in every schema that applies,    *)
(* however their numbers are spelled, and what it is created with is one   *)
(* of them (infer_kind, scalar_choices, scalar_creation_seed).  A schema   *)
(* false takes choices away, and nothing from what can be typed.           *)
Admits(l, v) ==
  LET schema == SchemaOf(l)
      matching(keyword) ==
        { at \in Below(l, keyword) :
            LET branch == Node(documents, l.doc, at)
            IN /\ JsonEqual(branch.const, v)
               /\ Has(branch, "type") => MatchesDeclaration(v, branch.type) }
  IN /\ Has(schema, "type")  => MatchesDeclaration(v, schema.type)
     /\ Has(schema, "enum")  => Among(v, ToSet(schema.enum))
     /\ Has(schema, "const") => JsonEqual(schema.const, v)
     /\ Below(l, "oneOf") # {} => Cardinality(matching("oneOf")) = 1
     /\ Below(l, "anyOf") # {} => matching("anyOf") # {}

Takes(node, v) ==
  IF node.kind \in Scalars THEN HasType(v, node.kind) \/ (IsNull(v) /\ node.nullable)
                           ELSE Among(v, node.choices)

Applies(node) == Reachable({ Bare(l) : l \in node.schemas }, {"ref", "allOf"}, {})

AdmittedAt(node, v) ==
  \A l \in Applies(node) :
    Admits(l, v) /\ (node.choices # {} => SchemaOf(l) # [boolean |-> FALSE])

Controls == { n \in projected : n.what = "control" }

ControlsTakeWhatIsAdmitted ==
  stage = "projected" =>
    \A n \in Controls : \A v \in input.literals :
      Takes(n, v) <=> AdmittedAt(n, v)

SeedsAreAdmitted ==
  stage = "projected" =>
    /\ \A n \in Controls : n.seed # NoSeed => AdmittedAt(n, n.seed)
    /\ \A n \in Controls : Last(n.binding) = Item => n.seed # NoSeed

(* The lengths a form lets a list have are those every schema admits, as   *)
(* far as a length can be told (array_length_bounds).                      *)
Count(length) == [negative |-> FALSE, whole |-> <<length>>, fraction |-> <<>>, exponent |-> 0]

AdmitsLength(l, length) ==
  /\ Has(SchemaOf(l), "minItems") => ~LessThan(Count(length), SchemaOf(l).minItems)
  /\ Has(SchemaOf(l), "maxItems") => ~LessThan(SchemaOf(l).maxItems, Count(length))

TakesLength(node, length) ==
  /\ \A least \in node.lengths.least : least <= length
  /\ \A most \in node.lengths.most : length <= most

LengthsAreAdmitted ==
  stage = "projected" =>
    \A n \in { m \in projected : m.what = "array" } : \A length \in 0..MaxIndex - 1 :
      TakesLength(n, length) <=> \A l \in Applies(n) : AdmitsLength(l, length)

(* A branch that may not apply adds no property, no required name and no   *)
(* choice to what is edited, wherever in it that is written                *)
(* (branch_changes_projection).                                            *)
ConditionsChangeNothing ==
  LET branches(schemas) ==
        Reachable(UNION { IF Uses(l, "if") THEN Subschemas(l, {"then", "else", "dependentSchemas"})
                          ELSE Subschemas(l, {"dependentSchemas"}) : l \in schemas },
                  {"ref", "allOf", "then", "else"}, {})
      edited == { n \in projected : n.what \in {"object", "control"} }
                  \cup { r \in { [Unsupported(<<>>, o.schemas, {}) EXCEPT !.what = "object"] : o \in Roots } :
                        \A n \in projected : n.binding # <<>> }
  IN stage = "projected" =>
       \A n \in edited :
         LET schemas == Applies(n)
             written == branches(schemas)
         IN /\ \A l \in written : ~Uses(l, "enum") /\ ~Uses(l, "const")
            /\ n.what = "object" =>
                 /\ PropertyNames(written) \subseteq PropertyNames(schemas)
                 /\ Required(written) \subseteq Required(schemas)
=============================================================================
