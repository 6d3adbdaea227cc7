------------------------------ MODULE MCCompile -----------------------------
(***************************************************************************)
(* Data schemas to compile, in families: each varies what its comment says *)
(* and keeps the rest.                                                     *)
(***************************************************************************)
EXTENDS Compilation

P(name) == <<"properties", name>>
D(name) == <<"$defs", name>>
O(name) == <<"x", name>>
AllOf(i) == <<"allOf", i>>
Then  == <<"then">>
Else  == <<"else">>
If    == <<"if">>
Items == <<"items">>

Relative(file) == [dir |-> "", file |-> file]
Uri(dir, file) == [dir |-> dir, file |-> file]
To(pointer)    == [ref |-> [to |-> Here, pointer |-> pointer]]

Spelling(negative, whole, fraction, exponent) ==
  [negative |-> negative, whole |-> whole, fraction |-> fraction, exponent |-> exponent]
Number(whole, fraction, exponent) ==
  [kind |-> "number", number |-> Spelling(FALSE, whole, fraction, exponent)]

One       == Number(<<1>>, <<>>, 0)
OnePoint  == Number(<<1>>, <<0>>, 0)
TenTenths == Number(<<1, 0>>, <<>>, -1)
Half      == Number(<<1>>, <<5>>, 0)
A         == [kind |-> "string", text |-> "a"]
Truth     == [kind |-> "boolean", flag |-> TRUE]
Object    == [kind |-> "object", text |-> "o"]
Array     == [kind |-> "array", text |-> "l"]
MCLiterals == {One, OnePoint, TenTenths, Half, A, Truth, NullValue, Object, Array}

MCNumbers ==
  { Spelling(n, w, f, e) : n \in BOOLEAN, e \in -3..3, f \in { <<>>, <<0>>, <<5>> },
                           w \in { <<0>>, <<1>>, <<1, 0>>, <<1, 5>>, <<1, 0, 0>> } }

Empty     == << >>
Schema(r) == (<<>> :> r)
Type(k)   == Schema([type |-> k])

Mount(at, fragment) ==
  [ p \in { at \o q : q \in DOMAIN fragment } |-> fragment[SubSeq(p, Len(at) + 1, Len(p))] ]

Doc(uri, nodes) == [uri |-> uri, dialect |-> "2020-12", nodes |-> nodes]

Graphs(docs) == [documents |-> docs, literals |-> {}, numbers |-> {}, ui |-> {}]

RootUri == Uri("d", "root")

World(nodes) == [ Graphs(<< Doc(RootUri, nodes) >>) EXCEPT !.literals = MCLiterals ]
-----------------------------------------------------------------------------
(* Constraints of one value, met through the property itself, an allOf     *)
(* branch and a reference in another.                                      *)
Choice(keyword, one, other) ==
  Schema(Empty) @@ (<< <<keyword, "1">> >> :> one) @@ (<< <<keyword, "2">> >> :> other)

Fragments ==
  << Schema(Empty), Type({"string"}), Type({"number"}), Type({"integer"}),
     Type({"integer", "null"}), Type({"string", "null"}), Type({"string", "number"}),
     Schema([enum |-> <<One, OnePoint, A>>]), Schema([enum |-> <<A, NullValue>>]),
     Schema([enum |-> <<Half, TenTenths, Object>>]),
     Schema([const |-> OnePoint]), Schema([const |-> A]), Schema([const |-> Object]),
     Choice("oneOf", [const |-> One, title |-> "x"], [const |-> A]),
     Choice("anyOf", [const |-> NullValue], [const |-> Half, type |-> {"integer"}]),
     Choice("oneOf", [const |-> One], [const |-> OnePoint]),
     Schema([boolean |-> TRUE]), Schema([boolean |-> FALSE]),
     Schema([default |-> A]), Schema([default |-> TenTenths]) >>

OwnSchemas ==
  { Schema(Empty), Type({"string"}), Type({"number"}), Type({"null"}),
    Type({"object"}), Schema([default |-> One]) }

ScalarWorld(own, left, right) ==
  World(Schema([type |-> {"object"}, additionalProperties |-> FALSE])
          @@ Mount(<<P("a")>>, own)
          @@ Mount(<<P("a"), AllOf("1")>>, left)
          @@ Mount(<<P("a"), AllOf("2")>>, Schema(To(<<D("t")>>)))
          @@ Mount(<<D("t")>>, right))

ScalarWorlds ==
  { ScalarWorld(own, Fragments[i], Fragments[j]) :
    own \in OwnSchemas,
    <<i, j>> \in { <<k, l>> \in (DOMAIN Fragments) \X (DOMAIN Fragments) : k <= l } }
-----------------------------------------------------------------------------
(* Items of a list.                                                        *)
ItemFragments ==
  << Type({"integer", "null"}), Type({"null"}), Type({"string"}), Type({"array"}),
     Type({"object"}), Schema([enum |-> <<A, NullValue>>]),
     Schema([default |-> NullValue]), Schema([default |-> TenTenths]),
     Schema([additionalProperties |-> FALSE]), Schema([additionalProperties |-> TRUE]),
     Type({"object"}) @@ (<<P("x")>> :> [type |-> {"string"}]),
     Type({"object"}) @@ (<<P("y")>> :> [type |-> {"array"}])
                      @@ (<<P("y"), Items>> :> [type |-> {"string"}]),
     Type({"object"}) @@ (<<P("y")>> :> [type |-> {"object"}, properties |-> TRUE]),
     Schema(Empty) @@ (<<P("z")>> :> Empty) >>

ItemWorld(own, left, right) ==
  World(Schema([type |-> {"object"}])
          @@ Mount(<<P("a")>>, Schema([type |-> {"array"}]))
          @@ Mount(<<P("a"), Items>>, own)
          @@ Mount(<<P("a"), Items, AllOf("1")>>, left)
          @@ Mount(<<P("a"), Items, AllOf("2")>>, right))

ItemWorlds ==
  { ItemWorld(own, ItemFragments[i], ItemFragments[j]) :
    own \in OwnSchemas,
    <<i, j>> \in { <<k, l>> \in (DOMAIN ItemFragments) \X (DOMAIN ItemFragments) : k <= l } }

(* Bounds of a list's length, spelled in several ways.                     *)
Lengths ==
  { Number(<<2>>, <<>>, 0), Number(<<2>>, <<0>>, 0), Number(<<4, 0>>, <<>>, -1),
    Number(<<0>>, <<0>>, 3), Number(<<1>>, <<>>, 1) }

LengthWorld(least, most, other, unique) ==
  World(Schema([type |-> {"object"}])
          @@ (<<P("a")>> :> [ type |-> {"array"}, minItems |-> least.number,
                              maxItems |-> most.number ])
          @@ (<<P("a"), Items>> :> [type |-> {"string"}])
          @@ (<<P("a"), AllOf("1")>> :> [minItems |-> other.number, uniqueItems |-> unique]))

LengthWorlds ==
  { LengthWorld(least, most, other, unique) :
    least \in Lengths, most \in Lengths, other \in Lengths, unique \in BOOLEAN }
-----------------------------------------------------------------------------
(* References among an object, what is in it and definitions: chains,      *)
(* cycles, and allOf around them.                                          *)
Destinations == { <<>>, <<P("a")>>, <<P("a"), P("b")>>, <<D("t")>>, <<D("u")>>, <<D("u"), AllOf("1")>> }

CycleWorld(a, b, t, u1, u2) ==
  World(Schema([type |-> {"object"}])
          @@ (<<P("a")>> :> To(a)) @@ (<<P("a"), P("b")>> :> To(b))
          @@ (<<D("t")>> :> ([type |-> {"object"}] @@ To(t)))
          @@ (<<D("u")>> :> Empty)
          @@ (<<D("u"), AllOf("1")>> :> To(u1)) @@ (<<D("u"), AllOf("2")>> :> To(u2)))

(* A reference next to an allOf.                                           *)
BesideWorld(u, u1) ==
  World(Schema([type |-> {"object"}])
          @@ (<<P("a")>> :> To(<<D("u")>>)) @@ (<<D("u")>> :> To(u))
          @@ (<<D("u"), AllOf("1")>> :> To(u1)) @@ (<<D("t")>> :> [type |-> {"string"}]))

CycleWorlds ==
  { CycleWorld(a, b, t, u1, u2) :
    a \in { <<D("t")>>, <<D("u")>> }, b \in Destinations, t \in { <<>>, <<D("t")>>, <<D("u")>> },
    u1 \in Destinations, u2 \in { <<D("t")>>, <<D("u")>>, <<P("a"), P("b")>> } }
  \cup { BesideWorld(u, u1) : u \in Destinations \ { <<P("a"), P("b")>> },
                              u1 \in { <<>>, <<D("t")>>, <<D("u")>> } }
-----------------------------------------------------------------------------
(* Branches that may not apply.                                            *)
ConditionFragments ==
  { Schema(Empty), Type({"string"}), Schema([required |-> {"b"}]), Schema([const |-> A]),
    Schema(Empty) @@ (<<P("b")>> :> Empty),
    Schema(Empty) @@ (<<P("a")>> :> [enum |-> <<A>>]),
    Schema(Empty) @@ (<<P("a")>> :> [type |-> {"object"}]),
    Schema(Empty) @@ (<<P("a")>> :> To(<<D("t")>>)),
    Schema(To(<<D("t")>>)),
    Schema(Empty) @@ Mount(<<AllOf("1")>>, Schema(To(<<D("t")>>))),
    Schema(Empty) @@ Mount(<<If>>, Schema(Empty)) @@ Mount(<<Else>>, Schema(To(<<D("t")>>))) }

ConditionWorld(keyword, kind, branch, target) ==
  World(Schema([type |-> {"object"}])
          @@ (<<P("a")>> :> [type |-> {kind}, properties |-> TRUE])
          @@ (IF keyword[1] = "dependentSchemas" THEN Empty ELSE Mount(<<If>>, Schema(Empty)))
          @@ Mount(<<keyword>>, branch)
          @@ Mount(<<D("t")>>, target))

ConditionWorlds ==
  { ConditionWorld(keyword, kind, branch, target) :
    keyword \in {Then, Else, <<"dependentSchemas", "a">>}, kind \in {"string", "object"},
    branch \in ConditionFragments, target \in ConditionFragments }
-----------------------------------------------------------------------------
(* Two documents with identities, anchors, opaque steps and references     *)
(* among them.                                                             *)
Optional(keyword, value) == IF value = {} THEN Empty ELSE keyword :> First(value)

MCReferences ==
  { [to |-> Here, pointer |-> <<D("t")>>], [to |-> Here, pointer |-> <<O("o")>>],
    [to |-> Here, pointer |-> <<O("o"), P("c")>>],
    [to |-> Relative("t"), pointer |-> <<>>], [to |-> Here, anchor |-> "A"],
    [to |-> Relative("other"), pointer |-> <<D("u")>>] }

MCIdentities == { {}, {Relative("t")}, {Uri("e", "t")} }

GraphWorld(b, t, o, c, named, d) ==
  Graphs(<< Doc(RootUri,
              Schema([type |-> {"object"}])
                @@ (<<P("a")>> :> [ref |-> [to |-> Here, pointer |-> <<O("o"), P("c")>>]])
                @@ (<<P("b")>> :> [ref |-> b])
                @@ (<<D("t")>> :> (Optional("id", t)
                                     @@ (IF named THEN [anchors |-> {"A"}] ELSE Empty)))
                @@ (<<O("o")>> :> Optional("id", o))
                @@ (<<O("o"), P("c")>> :> (Optional("ref", c)
                                     @@ (IF named THEN Empty ELSE [anchors |-> {"A"}])))),
            Doc(Uri("d", "other"),
              Schema(Empty) @@ (<<D("u")>> :> Optional("ref", d))) >>)

GraphWorlds ==
  { GraphWorld(b, t, o, c, named, d) :
    b \in MCReferences, t \in MCIdentities, o \in MCIdentities,
    c \in { {} } \cup { {r} : r \in MCReferences }, named \in BOOLEAN,
    d \in { {}, { [to |-> RootUri, pointer |-> <<O("o")>>] },
            { [to |-> Uri("e", "t"), pointer |-> <<P("c")>>] } } }

(* Inputs that are refused before anything is followed, references to the  *)
(* dialect's own schema, the dialect named again or another in an opaque   *)
(* place, a reference that is dynamic, and the spelled numbers.            *)
MetaSchema == Uri("json-schema.org", "schema")

MCBuiltIn       == {MetaSchema}
MCBuiltInPlaces == { [to |-> MetaSchema, pointer |-> <<>>], [to |-> MetaSchema, anchor |-> "meta"] }

Other(uri, node) == Doc(uri, Schema(node))

RootWith(node) == Doc(RootUri, Schema([type |-> {"object"}]) @@ (<<P("a")>> :> node))

OpaqueDialect(node, below) ==
  Graphs(<< Doc(RootUri,
              Schema([type |-> {"object"}]) @@ (<<P("a")>> :> To(<<O("o")>>))
                @@ (<<O("o")>> :> node) @@ (<<O("o"), P("c")>> :> below)) >>)

OddWorlds ==
  { Graphs(<< RootWith(Empty), Other(RootUri, Empty) >>),
    Graphs(<< RootWith(Empty), [Other(Uri("d", "other"), Empty) EXCEPT !.dialect = "draft-07"] >>),
    Graphs(<< RootWith([dialect |-> "2020-12"]) >>),
    Graphs(<< RootWith([dialect |-> "draft-07"]) >>),
    Graphs(<< RootWith(Empty),
              Other(MetaSchema, [id |-> Uri("d", "meta")]) >>),
    Graphs(<< RootWith([ref |-> [to |-> Uri("d", "missing"), pointer |-> <<>>]]) >>),
    Graphs(<< RootWith([ref |-> [to |-> MetaSchema, pointer |-> <<>>]]) >>),
    Graphs(<< RootWith([ref |-> [to |-> MetaSchema, anchor |-> "meta"]]) >>),
    Graphs(<< RootWith([ref |-> [to |-> MetaSchema, anchor |-> "a"]]) >>),
    OpaqueDialect([dialect |-> "draft-07"], Empty), OpaqueDialect(Empty, [dialect |-> "draft-07"]),
    OpaqueDialect([dialect |-> "2020-12"], [dialect |-> "2020-12"]),
    Graphs(<< RootWith([dynamicRef |-> [to |-> Relative("other"), pointer |-> <<>>]]),
              Other(Uri("d", "other"), [type |-> {"string"}]) >>),
    [Graphs(<< RootWith([type |-> {"string"}]) >>) EXCEPT !.numbers = MCNumbers] }

-----------------------------------------------------------------------------
(* UI schemas over four data schemas: an object within an object, a list   *)
(* of objects, a list and a multiple choice, and a region that is not      *)
(* edited.                                                                 *)
MCOutputLimits == [nodes |-> 12, controls |-> 4, findings |-> 8]

Strings == [type |-> {"string"}]

UiData ==
  [ objects |->
      Schema([type |-> {"object"}]) @@ (<<P("a")>> :> Strings)
        @@ (<<P("o")>> :> [type |-> {"object"}])
        @@ (<<P("o"), P("x")>> :> Strings) @@ (<<P("o"), P("y")>> :> Strings),
    rows |->
      Schema([type |-> {"object"}])
        @@ (<<P("l")>> :> [type |-> {"array"}])
        @@ (<<P("l"), Items>> :> [type |-> {"object"}])
        @@ (<<P("l"), Items, P("p")>> :> Strings) @@ (<<P("l"), Items, P("q")>> :> Strings),
    lists |->
      Schema([type |-> {"object"}])
        @@ (<<P("s")>> :> [type |-> {"array"}]) @@ (<<P("s"), Items>> :> Strings)
        @@ (<<P("m")>> :> [type |-> {"array"}, uniqueItems |-> TRUE])
        @@ (<<P("m"), Items>> :> [enum |-> <<A>>]),
    regions |->
      Schema([type |-> {"object"}]) @@ (<<P("a")>> :> Strings) @@ (<<P("u")>> :> Empty),
    root |-> Schema([type |-> {"array"}]) ]

Titled(element)   == [element EXCEPT !.meta.id = {"i"}]
Extended(element, namespaces) == [element EXCEPT !.meta.extensions = namespaces]
AtRoot(path)      == ControlElement("root", path, <<>>)
InItem(path)      == ControlElement("item", path, <<>>)
ListOver(path, t) == ControlElement("root", path, <<t>>)
Auto(path)        == AutoElement("root", path, Everything)
Some(path, include, exclude, order) ==
  AutoElement("root", path, [include |-> include, exclude |-> exclude, order |-> order])
AutoItem(include) == AutoElement("item", <<>>, [Everything EXCEPT !.include = include])
Note              == Container("text", <<>>)
Stack(parts)      == Container("stack", parts)

Pairs(elements) ==
  elements \cup { Stack(<<e, f>>) : e \in elements, f \in elements }
           \cup { Container(type, <<e>>) : type \in {"grid", "tabs", "group"}, e \in elements }

ObjectElements ==
  { AtRoot(<<"a">>), AtRoot(<<"o", "x">>), AtRoot(<<"o">>), InItem(<<"a">>),
    [AtRoot(<<"a">>) EXCEPT !.itemLabel = TRUE], Note, Titled(Note),
    Auto(<<>>), Auto(<<"o">>), Auto(<<"a">>), Titled(Auto(<<"o">>)), AutoItem({}),
    Some(<<>>, {}, {"o"}, <<>>), Some(<<>>, {"o"}, {}, <<>>), Some(<<>>, {"z"}, {}, <<>>),
    Some(<<"o">>, {"x"}, {}, <<>>), Some(<<"o">>, {}, {"x"}, <<"y">>),
    Some(<<>>, {}, {}, <<"o", Remaining>>), Some(<<>>, {}, {}, <<Remaining, Remaining>>),
    Some(<<>>, {}, {}, <<"a", "a">>) }

RowTemplates ==
  { InItem(<<"p">>), InItem(<<>>), AtRoot(<<"l">>), AutoItem({}), AutoItem({"q"}),
    Titled(AutoItem({})), Note }

RowElements ==
  { AtRoot(<<"l">>), Auto(<<>>), Some(<<>>, {}, {"l"}, <<>>), Titled(Note) }
    \cup { ListOver(<<"l">>, t) : t \in Pairs(RowTemplates) }

RowPairs == RowElements \cup { Stack(<<e, f>>) : e \in RowElements,
                                 f \in { Auto(<<>>), ListOver(<<"l">>, InItem(<<"q">>)) } }

ListElements ==
  { AtRoot(<<"s">>), AtRoot(<<"m">>), Auto(<<>>), Some(<<>>, {}, {"m"}, <<>>),
    ListOver(<<"s">>, InItem(<<>>)), ListOver(<<"s">>, AutoItem({})),
    ListOver(<<"m">>, Stack(<<Note, InItem(<<>>)>>)) }

RegionElements ==
  { AtRoot(<<"a">>), AtRoot(<<"u">>), Auto(<<"u">>), Titled(Auto(<<"u">>)), Auto(<<>>),
    ListOver(<<"a">>, Note) }

Requiring(element, required) == [required |-> required, root |-> element]

(* Tabs in panels of tabs, within and around the item template of a list.  *)
Tabbed(elements) == Container("tabs", elements)

TabElements ==
  { Tabbed(<<Tabbed(<<Note, AtRoot(<<"a">>)>>), Stack(<<Auto(<<"o">>)>>), Note>>),
    Container("group", <<Note, Tabbed(<<Container("grid", <<Tabbed(<<Auto(<<>>)>>)>>)>>)>>) }

TabbedRows ==
  { Tabbed(<<Note, ListOver(<<"l">>, t)>>) :
    t \in { AutoItem({}), Tabbed(<<InItem(<<"q">>), InItem(<<"p">>)>>),
            Extended(Stack(<<Tabbed(<<InItem(<<"p">>)>>)>>), {"e"}) } }

WidgetElements ==
  { [AtRoot(<<"a">>) EXCEPT !.widget = {w}] : w \in {"w", "v"} }

WidgetRows == { [ListOver(<<"l">>, Titled(Note)) EXCEPT !.widget = {"w"}] }

ExtensionSchemas ==
  { Requiring(Extended(Auto(<<>>), used), required) :
    used \in SUBSET {"e", "f"}, required \in { <<>>, <<"e">>, <<"e", "e">>, <<"f", "e">>, <<"e", "f", "g">> } }
    \cup { Requiring(Extended(Stack(<<Extended(Note, {"e"}), Extended(Note, {"e"})>>), {"e"}),
                     <<"e">>) }

UiWorld(data, ui) == [Graphs(<< Doc(RootUri, UiData[data]) >>) EXCEPT !.ui = {ui}]

UiWorlds ==
  { UiWorld("objects", UiSchema(e)) : e \in Pairs(ObjectElements) \cup TabElements \cup WidgetElements }
    \cup { UiWorld("rows", UiSchema(e)) : e \in RowPairs \cup TabbedRows \cup WidgetRows }
    \cup { UiWorld("lists", UiSchema(e)) : e \in Pairs(ListElements) }
    \cup { UiWorld("regions", UiSchema(e)) : e \in Pairs(RegionElements) }
    \cup { UiWorld("regions", ui) : ui \in ExtensionSchemas }
    \cup { UiWorld("root", UiSchema(e)) : e \in {Auto(<<>>), Note} }

(* Renderers and handlers: the built-in one alone; none at all; and others *)
(* next to it that win, tie, are ambiguous or refuse what they are given.  *)
AllKinds == Scalars \cup {"choice", "constant", "multiple-choice"}
BuiltInRenderer == [kinds |-> AllKinds, priority |-> 0]
Registry(matchers, widgets, handlers, refused) ==
  [matchers |-> matchers, widgets |-> widgets, handlers |-> handlers, refused |-> refused]

MCConfigurations ==
  { Registry(<<BuiltInRenderer>>, <<"w", "v">>, <<"e", "f">>, {}),
    Registry(<<>>, <<"w", "w">>, <<>>, {}),
    Registry(<<BuiltInRenderer, [kinds |-> {"string"}, priority |-> 0]>>, <<>>, <<"e", "e">>, {}),
    Registry(<<[kinds |-> {"string"}, priority |-> 1], BuiltInRenderer>>, <<"w">>, <<"f", "e">>, {"e"}) }
-----------------------------------------------------------------------------
(* A value that must be null and can be nothing.                           *)
MCNullInput ==
  { World(Schema([type |-> {"object"}]) @@ (<<P("a")>> :> [type |-> {kind}])
            @@ (<<P("a"), AllOf("1")>> :> branch)) :
    kind \in {"string", "null"}, branch \in { Empty, [boolean |-> TRUE], [boolean |-> FALSE] } }

MCInput ==
  ScalarWorlds \cup ItemWorlds \cup LengthWorlds \cup CycleWorlds \cup ConditionWorlds
    \cup GraphWorlds \cup OddWorlds \cup UiWorlds
=============================================================================
