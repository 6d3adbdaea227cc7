-------------------------------- MODULE Shapes --------------------------------
(***************************************************************************)
(* What a form can make of the schemas that apply at one binding: the kind *)
(* of value, the choices, the value it is created with, and everything     *)
(* that keeps the binding from being edited.                               *)
(*                                                                         *)
(* Further keywords of a schema (see Resources):                           *)
(*   boolean     the schema is just true or false                          *)
(*   type        the set of kinds; one alone stands for its name           *)
(*   required    the set of names                                          *)
(*   enum        a sequence of values;  const, default: a value            *)
(*   minItems, maxItems a number;  uniqueItems a Boolean                   *)
(*   additionalProperties  a Boolean, when it is no schema                 *)
(* and, with their subschemas below it, the applicators.  An applicator    *)
(* with no subschema is a field of the record.  Titles, descriptions and   *)
(* the other annotations are left out, but for default.  Where the code    *)
(* takes the first of several schemas, by resource and pointer, to name in *)
(* a finding, CHOOSE stands for that order.                                *)
(*                                                                         *)
(* A schema that applies is a location with its memberships: the allOf     *)
(* keywords it was reached through, outermost first, each with the number  *)
(* of its branch, or 0 for the schema that has the allOf itself.           *)
(***************************************************************************)
EXTENDS SpelledNumbers

Kinds   == {"string", "number", "integer", "boolean", "null", "object", "array"}
Scalars == {"string", "number", "integer", "boolean"}
NoKind  == "none"

NullValue == [kind |-> "null"]

(* A value, and what a schema that keeps to its dialect has at the         *)
(* keywords a shape depends on.                                            *)
IsValue(v) ==
  /\ v.kind \in Kinds \ {"integer"}
  /\ v.kind = "null" => v = NullValue
  /\ v.kind = "number" => IsSpelling(v.number)

IsLength(n) == IsSpelling(n) /\ IsWhole(n) /\ WholeOf(n) >= 0

IsSchema(schema) ==
  /\ Has(schema, "type") => schema.type \subseteq Kinds
  /\ Has(schema, "enum") => \A i \in DOMAIN schema.enum : IsValue(schema.enum[i])
  /\ \A keyword \in {"const", "default"} \cap DOMAIN schema : IsValue(schema[keyword])
  /\ \A keyword \in {"minItems", "maxItems"} \cap DOMAIN schema : IsLength(schema[keyword])

ASSUME ShapesAssumption ==
  \A i \in Input :
    /\ \A v \in i.literals : IsValue(v)
    /\ \A d \in DOMAIN i.documents : \A at \in DOMAIN i.documents[d].nodes :
         IsSchema(i.documents[d].nodes[at])

SchemaOf(l) == Node(documents, l.doc, l.at)
Place(l)    == <<l.doc, l.at>>
Bare(l)     == [doc |-> l.doc, at |-> l.at, base |-> l.base]
First(S)    == CHOOSE x \in S : TRUE

Below(l, keyword) ==
  Children(documents, l.doc, l.at, {keyword} \cap SchemaKeywords)

Uses(l, keyword) == Has(SchemaOf(l), keyword) \/ Below(l, keyword) # {}

Using(schemas, keyword) == { l \in schemas : Uses(l, keyword) }

Target(l, keyword) == Resolve(documents, Graph, l.base, SchemaOf(l)[keyword])

(* A subschema, which its own identity may put in another resource.        *)
Sub(l, at) ==
  Normalize(documents, Graph, [doc |-> l.doc, at |-> at, base |-> l.base])

Subschemas(l, keywords) ==
  { Sub(l, at) : at \in Children(documents, l.doc, l.at, keywords) }

(* The branches of an allOf, numbered from 1.                              *)
Branches(l) ==
  [i \in 1..Cardinality(Below(l, "allOf")) |->
     Sub(l, Append(l.at, <<"allOf", ToString(i)>>))]

PropertyNames(schemas) ==
  UNION { { Last(at)[2] : at \in Below(l, "properties") } : l \in schemas }

Property(l, name) == Sub(l, Append(l.at, <<"properties", name>>))

Declaring(schemas, name) == { l \in schemas : name \in PropertyNames({l}) }

Required(schemas) == UNION { SchemaOf(l).required : l \in Using(schemas, "required") }

(* What is reached from some schemas through some keywords; then and else  *)
(* count next to an if.  References to barred places are not followed.     *)
Onward(l, keywords, barred) ==
  LET branches == IF Uses(l, "if") \/ "if" \in keywords THEN {} ELSE {"then", "else"}
      targets  == { Target(l, k) : k \in keywords \cap References(SchemaOf(l)) }
  IN Subschemas(l, (keywords \cap SchemaKeywords) \ branches)
       \cup { t \in targets : Place(t) \notin barred }

(* All that is reached from some schemas by steps that lead from one to a  *)
(* set of others; as many rounds as there are schemas reach everything.    *)
Further(round, steps) ==
  LET new == (UNION { steps[l] : l \in round.new }) \ round.reached
  IN [reached |-> round.reached \cup new, new |-> new]

Closure(from, steps) ==
  LET rounds[n \in Nat] == IF n = 0 THEN [reached |-> from, new |-> from]
                           ELSE Further(rounds[n - 1], steps)
  IN rounds[Cardinality(DOMAIN steps)].reached

Reachable(from, keywords, barred) ==
  Closure(from, [l \in visited |-> Onward(l, keywords, barred)])
-----------------------------------------------------------------------------
(* The kind all declared types leave.  Integers are numbers; a structure   *)
(* that may be null has no control.                                        *)
DeclaredKinds(l) ==
  LET kinds == SchemaOf(l).type
  IN IF "number" \in kinds THEN kinds \cup {"integer"} ELSE kinds

InferKind(schemas) ==
  LET declared == Using(schemas, "type")
      kinds == { k \in Kinds : \A l \in declared : k \in DeclaredKinds(l) }
      rest  == kinds \ {"null"}
  IN CASE declared = {} -> NoKind
       [] declared # {} /\ rest = {} -> IF "null" \in kinds THEN "null" ELSE NoKind
       [] declared # {} /\ rest # {} ->
            IF "null" \in kinds /\ rest \cap {"object", "array"} # {} THEN NoKind
            ELSE IF rest = {"number", "integer"} THEN "number"
            ELSE IF Cardinality(rest) = 1 THEN First(rest) ELSE NoKind

Structured(v) == v.kind \in {"array", "object"}
IsNull(v)     == v.kind = "null"

MatchesDeclaration(v, kinds) == \E k \in kinds : HasType(v, k)

(* Mutant: one schema that admits null is enough.                          *)
AcceptsNullSomewhere(schemas) ==
  \E l \in Using(schemas, "type") : "null" \in SchemaOf(l).type

AcceptsNull(schemas) ==
  LET declared == Using(schemas, "type")
  IN declared # {} /\ \A l \in declared : "null" \in SchemaOf(l).type

ArrayMayApply(schemas) ==
  \A l \in Using(schemas, "type") : "array" \in SchemaOf(l).type

(* One of every run of equal values.                                       *)
Distinct(values) ==
  { v \in values : v = First({ w \in values : JsonEqual(v, w) }) }

Among(v, values) == \E w \in values : JsonEqual(v, w)
-----------------------------------------------------------------------------
Finding(code, place) == [code |-> code, at |-> place]

KeywordFindings(schemas, keyword, code) ==
  { Finding(code, Append(Place(l), keyword)) : l \in Using(schemas, keyword) }

FirstFinding(schemas, keyword, code) ==
  IF Using(schemas, keyword) = {} THEN {}
  ELSE { Finding(code, Append(Place(First(Using(schemas, keyword))), keyword)) }

(* A oneOf or anyOf whose branches are constants is a list of choices: the *)
(* constants of those branches whose own type they satisfy.                *)
ConstantBranchKeywords == {"const", "type", "title"}

BranchSchemas(l, keyword) == { Node(documents, l.doc, at) : at \in Below(l, keyword) }

IsConstantChoice(l, keyword) ==
  /\ Below(l, keyword) # {}
  /\ \A at \in Below(l, keyword) :
       LET branch == Node(documents, l.doc, at)
       IN /\ Has(branch, "const") /\ ~Structured(branch.const)
          /\ DOMAIN branch \subseteq ConstantBranchKeywords
          /\ Children(documents, l.doc, at, SchemaKeywords) = {}
  /\ keyword = "oneOf" =>
       \A at, other \in Below(l, keyword) :
         at # other => ~JsonEqual(Node(documents, l.doc, at).const,
                                  Node(documents, l.doc, other).const)

ConstantChoices(l, keyword) ==
  { b.const : b \in { c \in BranchSchemas(l, keyword) :
                        Has(c, "type") => MatchesDeclaration(c.const, c.type) } }

RecognizedChoices(schemas) ==
  UNION { { [ at |-> Append(Place(l), keyword), values |-> ConstantChoices(l, keyword) ] :
            l \in { m \in schemas : IsConstantChoice(m, keyword) } } :
          keyword \in {"anyOf", "oneOf"} }

BranchApplicatorFindings(schemas, keyword, code) ==
  { Finding(code, Append(Place(l), keyword)) :
    l \in { m \in Using(schemas, keyword) : ~IsConstantChoice(m, keyword) } }
-----------------------------------------------------------------------------
(* The choices at a binding.  One source gives the values, every other and *)
(* every type narrows them.  "panics" is the assertion that only enum and  *)
(* const leave nothing to choose.                                          *)
NoChoices == [values |-> {}, selectable |-> FALSE, nullOnly |-> FALSE,
              findings |-> {}, panics |-> FALSE]

ChoicesAmong(schemas, kind, enums, constants, recognized) ==
  LET enumOf(l)  == ToSet(SchemaOf(l).enum)
      sources    == { c.values : c \in recognized } \cup { enumOf(l) : l \in enums }
                      \cup { {SchemaOf(l).const} : l \in constants }
      seed == IF recognized # {} THEN First(recognized).values
              ELSE IF enums # {} THEN enumOf(First(enums))
              ELSE IF constants # {} THEN {SchemaOf(First(constants)).const}
              ELSE {NullValue}
      allowed(v) ==
        /\ \A values \in sources : Among(v, values)
        /\ \A l \in schemas :
             /\ SchemaOf(l) # [boolean |-> FALSE]
             /\ Has(SchemaOf(l), "type") => MatchesDeclaration(v, SchemaOf(l).type)
      values == { v \in seed : allowed(v) }
      refused(findings) == [NoChoices EXCEPT !.findings = findings]
      structuredConstants == { l \in constants : Structured(SchemaOf(l).const) }
      conflicting == { l \in constants : ~JsonEqual(SchemaOf(l).const,
                                                    SchemaOf(First(constants)).const) }
      from(enumCode, constCode) ==
        IF enums # {} THEN FirstFinding(schemas, "enum", enumCode)
        ELSE FirstFinding(schemas, "const", constCode)
  IN IF sources = {} /\ kind # "null" THEN NoChoices
     ELSE IF structuredConstants # {}
     THEN refused(FirstFinding(structuredConstants, "const", "validation.const.structured"))
     ELSE IF conflicting # {}
     THEN refused(FirstFinding(conflicting, "const", "validation.const.conflicting"))
     ELSE IF \E v \in values : Structured(v)
     THEN refused(from("validation.enum.structured", "validation.const.structured"))
     ELSE IF values = {} /\ recognized # {}
     THEN refused({Finding("applicator.constant-choices.incompatible",
                           First(recognized).at)})
     ELSE IF values = {} /\ sources = {} THEN [NoChoices EXCEPT !.panics = TRUE]
     ELSE IF values = {}
     THEN refused(from("validation.enum.incompatible", "validation.const.incompatible"))
     ELSE [ NoChoices EXCEPT
            !.values = Distinct(values),
            !.selectable = (enums # {} \/ recognized # {}) /\ constants = {},
            !.nullOnly = sources = {} ]

ScalarChoices(schemas, kind) ==
  ChoicesAmong(schemas, kind, Using(schemas, "enum"), Using(schemas, "const"),
               RecognizedChoices(schemas))

(* Conflicting types among the branches of an allOf, told for the          *)
(* innermost allOf they conflict in.                                       *)
Origins(l) == { m.origin : m \in ToSet(l.memberships) }

KindConflicts(schemas) ==
  LET typed == UNION { { m.origin : m \in { n \in ToSet(l.memberships) : n.branch # 0 } } :
                       l \in Using(schemas, "type") }
      within(origin) == { l \in schemas : origin \in Origins(l) }
      conflicting == { o \in typed : InferKind(within(o)) = NoKind }
      index(l, o) == CHOOSE i \in DOMAIN l.memberships :
                       /\ l.memberships[i].origin = o
                       /\ \A j \in 1..i - 1 : l.memberships[j].origin # o
      precedes(o, p) == \E l \in schemas :
                          {o, p} \subseteq Origins(l) /\ index(l, o) < index(l, p)
      leaves == { o \in conflicting :
                    ~\E p \in conflicting : p # o /\ precedes(o, p) }
  IN { Finding("applicator.all-of.ambiguous", Append(o, "allOf")) : o \in leaves }
-----------------------------------------------------------------------------
(* Whether a branch that may not apply would change what is projected.     *)
(* The branch is walked depth first; a reference is followed once, and     *)
(* those followed so far are not followed for a property either.           *)
SingleKind(l) == IF Has(SchemaOf(l), "type") /\ Cardinality(SchemaOf(l).type) = 1
                 THEN SchemaOf(l).type ELSE {}

PropertyKinds(schemas) ==
  [ name \in PropertyNames(schemas) |->
      UNION { UNION { SingleKind(m) :
                      m \in Reachable({Bare(Property(l, name))}, {"ref", "allOf"}, {}) } :
              l \in Declaring(schemas, name) } ]

PropertyChanges(l, kinds, followed) ==
  \E m \in Reachable({l}, {"ref", "allOf"}, followed) :
    \/ Has(SchemaOf(m), "type")
         /\ ~(Cardinality(kinds) = 1 /\ SchemaOf(m).type = kinds)
    \/ \E keyword \in { "properties", "required", "items", "prefixItems",
                        "dependentSchemas", "dynamicRef", "oneOf", "anyOf",
                        "enum", "const" } : Uses(m, keyword)

AddsProperties(l, about, followed) ==
  \E name \in PropertyNames({l}) :
    \/ name \notin DOMAIN about.properties
    \/ PropertyChanges(Property(l, name), about.properties[name], followed)

ChangesHere(l, about, followed) ==
  \/ about.kind = "object" /\ AddsProperties(l, about, followed)
  \/ about.kind = "object" /\ ~(Required({l}) \subseteq about.required)
  \/ about.kind = NoKind /\ (Uses(l, "items") \/ Uses(l, "prefixItems"))
  \/ about.kind = "object" /\ Uses(l, "dependentSchemas")
  \/ about.kind \in {NoKind, "object"} /\ Uses(l, "dynamicRef")
  \/ \E keyword \in {"oneOf", "anyOf", "enum", "const"} : Uses(l, keyword)
  \/ Uses(l, "type") /\ (about.kind = NoKind \/ SingleKind(l) # {about.kind})

(* Mutant: what follows from a failed condition is left out.               *)
OnlyThenBranches(l) ==
  IF Uses(l, "if") THEN SetToSeq(Subschemas(l, {"then"})) ELSE <<>>

ConditionalBranches(l) ==
  IF Uses(l, "if") THEN SetToSeq(Subschemas(l, {"then"})) \o SetToSeq(Subschemas(l, {"else"}))
  ELSE <<>>

Pointers  == Seq(Seq(STRING))
Uris      == [dir : STRING, file : STRING]
Visits    == [ schema   : [doc : Nat, at : Pointers, base : Uris],
               followed : SUBSET (Nat \X Pointers) ]

Visit(l, followed) == [schema |-> l, followed |-> followed]

Walk(from, about) ==
  LET walk[visit \in Visits] ==
        LET l        == visit.schema
            followed == visit.followed
            target   == Target(l, "ref")
            fresh    == Has(SchemaOf(l), "ref") /\ Place(target) \notin followed
            onward   == (IF fresh THEN <<target>> ELSE <<>>)
                          \o Branches(l) \o ConditionalBranches(l)
            start    == [ changes  |-> ChangesHere(l, about, followed),
                          followed |-> IF fresh THEN followed \cup {Place(target)}
                                       ELSE followed ]
        IN FoldLeft(LAMBDA state, m : IF state.changes THEN state
                                      ELSE walk[Visit(m, state.followed)],
                    start, onward)
  IN walk[Visit(from, {})]

BranchChanges(l, about) == Walk(l, about).changes

(* What a binding is without its conditions.                               *)
About(schemas, kind) ==
  [kind |-> kind, properties |-> PropertyKinds(schemas), required |-> Required(schemas)]

(* The schemas whose condition has a branch that changes the binding.      *)
Changing(schemas, about) ==
  [ keyword \in {"then", "else"} |->
      { l \in Using(schemas, "if") :
          \E m \in Subschemas(l, {keyword}) : BranchChanges(m, about) } ]

ChangingFindings(changing, about) ==
  LET structural == changing["then"] \cup changing["else"]
      adding(keyword) == { l \in structural : about.kind = "object" /\
                             \E m \in Subschemas(l, {keyword}) : AddsProperties(m, about, {}) }
  IN KeywordFindings(structural, "if", "applicator.if.structural")
       \cup KeywordFindings(changing["then"], "then", "applicator.then.structural")
       \cup KeywordFindings(changing["else"], "else", "applicator.else.structural")
       \cup { Finding("applicator.properties.conditional", Append(Place(l), "then")) :
              l \in adding("then") }
       \cup { Finding("applicator.properties.conditional", Append(Place(l), "else")) :
              l \in adding("else") }
       \cup UNION { { Finding("applicator.all-of.conditional", Append(m.origin, "allOf")) :
               m \in { n \in ToSet(l.memberships) : n.branch # 0 } } : l \in structural }

ConditionalFindings(schemas, kind) ==
  LET tell(about) == ChangingFindings(Changing(schemas, about), about)
  IN tell(About(schemas, kind))

ConditionalChoiceFindings(schemas) ==
  LET branches == UNION { Subschemas(l, {"then", "else"}) : l \in Using(schemas, "if") }
  IN KeywordFindings(
       Reachable(branches, {"ref", "properties", "allOf", "items", "then", "else"}, {}),
       "enum", "validation.enum.conditional")

DependentFindings(schemas, kind) ==
  KeywordFindings({ l \in schemas : \E m \in Subschemas(l, {"dependentSchemas"}) :
                                      BranchChanges(m, About(schemas, kind)) },
                  "dependentSchemas", "applicator.dependent-schemas.structural")

DynamicShapeFindings(schemas) ==
  KeywordFindings({ l \in Using(schemas, "dynamicRef") :
                      BranchChanges(Target(l, "dynamicRef"), About(schemas, "object")) },
                  "dynamicRef", "core.dynamic-reference.shape")

(* Everything that leaves the shape of a binding open.                     *)
DeferredShapeFindings(schemas, kind, hasChoices) ==
  BranchApplicatorFindings(schemas, "oneOf", "applicator.one-of")
    \cup BranchApplicatorFindings(schemas, "anyOf", "applicator.any-of")
    \cup (IF ArrayMayApply(schemas)
          THEN KeywordFindings(schemas, "prefixItems", "applicator.prefix-items") ELSE {})
    \cup (IF kind = NoKind /\ ~hasChoices
          THEN KeywordFindings(schemas, "dynamicRef", "core.dynamic-reference.shape")
                 \cup KeywordFindings(schemas, "not", "applicator.not.shape")
          ELSE IF kind = "object" THEN DynamicShapeFindings(schemas) ELSE {})
    \cup ConditionalFindings(schemas, kind)
    \cup ConditionalChoiceFindings(schemas)
    \cup DependentFindings(schemas, kind)
=============================================================================
