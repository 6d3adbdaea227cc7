------------------------------ MODULE Resources -----------------------------
(***************************************************************************)
(* Preparing the resource graph of a data schema: the documents a caller   *)
(* supplies are indexed by the identities, anchors and subschemas in them, *)
(* and every reference is followed until each is known to resolve.         *)
(*                                                                         *)
(* A document is [uri, dialect, nodes]: where it was retrieved from, the   *)
(* dialect it declares, and its schemas by JSON Pointer.  A pointer is a   *)
(* sequence of steps, one per schema on the way: <<"items">>,              *)
(* <<"properties", "a">>.  A step whose keyword is not the dialect's is    *)
(* opaque: what lies below it is a schema only when a reference says so.   *)
(* A schema is a record of the keywords it has; the keywords of this       *)
(* module are                                                              *)
(*   id          a URI reference, [dir, file]                              *)
(*   anchors     the names of its anchors                                  *)
(*   ref         [to |-> a URI reference or Here, anchor |-> a name] or    *)
(*               [to |-> .., pointer |-> a pointer]                        *)
(*   dynamicRef  as ref                                                    *)
(*   dialect     the dialect a schema below the root names                 *)
(*                                                                         *)
(* A location is [doc, at, base]: a place in a document, and the identity  *)
(* of the resource it is read in.  A resource root is the location of the  *)
(* schema that has the identity.  The validator's own registry and the     *)
(* meta-schema are external: the schemas here are all valid.               *)
(***************************************************************************)
EXTENDS Naturals, Sequences, FiniteSets, TLC, SequencesExt

CONSTANTS
  Input,         \* the inputs of a compilation; documents: the root one first
  BuiltIn,       \* the identities of the dialect's meta-schemas
  BuiltInPlaces, \* the references to them that find a schema
  MaxTraversal   \* the limit on schemas visited while references are followed

VARIABLES
  input,      \* what is compiled, as it was supplied
  documents,  \* the documents, with references rewritten
  aliases,    \* resource roots by identity and by retrieval URI
  anchors,    \* locations by resource and anchor
  indexed,    \* the locations known to be schemas
  visited,    \* the locations whose references were followed
  stack,      \* what remains to be followed, innermost first
  next,       \* the document to be read next
  outcome     \* how far preparation came, or why it was refused

resourceVars ==
  <<input, documents, aliases, anchors, indexed, visited, stack, next, outcome>>
-----------------------------------------------------------------------------
Has(schema, keyword) == keyword \in DOMAIN schema

Node(docs, doc, at) == docs[doc].nodes[at]

(* Where an implementation finds subschemas, and where those that apply to *)
(* the instance.                                                           *)
ApplicableKeywords ==
  { "dependentSchemas", "patternProperties", "properties", "allOf", "anyOf",
    "oneOf", "prefixItems", "additionalProperties", "contains", "else", "if",
    "items", "not", "propertyNames", "then", "unevaluatedItems",
    "unevaluatedProperties" }

SchemaKeywords ==
  ApplicableKeywords \cup {"$defs", "definitions", "contentSchema"}

Children(docs, doc, at, keywords) ==
  { below \in DOMAIN docs[doc].nodes :
      /\ Len(below) = Len(at) + 1
      /\ IsPrefix(at, below)
      /\ Last(below)[1] \in keywords }

(* A document is a tree of schemas at pointers.  A keyword with one schema *)
(* is a step by itself, one with several has a name for each or, for the   *)
(* branches of an allOf, a number from 1 on.  An identity is given         *)
(* relative to a base, as a reference is, which ends in an anchor or in a  *)
(* pointer; where a document was retrieved from is absolute.               *)
IsUri(uri) == uri = [dir |-> uri.dir, file |-> uri.file]

IsReference(reference) ==
  /\ IsUri(reference.to)
  /\ "anchor" \notin DOMAIN reference => reference.pointer \in Seq(Range(reference.pointer))

NamedKeywords ==
  { "dependentSchemas", "patternProperties", "properties", "allOf", "anyOf",
    "oneOf", "prefixItems", "$defs", "definitions" }

IsStep(step) ==
  step[1] \in SchemaKeywords =>
    step = IF step[1] \in NamedKeywords THEN <<step[1], step[2]>> ELSE <<step[1]>>

IsDocument(document) ==
  /\ DOMAIN document = {"uri", "dialect", "nodes"}
  /\ IsUri(document.uri) /\ document.uri.dir # ""
  /\ IsFiniteSet(DOMAIN document.nodes) /\ <<>> \in DOMAIN document.nodes
  /\ \A at \in DOMAIN document.nodes :
       /\ at \in Seq(Range(at)) /\ \A i \in DOMAIN at : IsStep(at[i])
       /\ \A n \in 0..Len(at) : SubSeq(at, 1, n) \in DOMAIN document.nodes
       /\ LET branches == Children(<<document>>, 1, at, {"allOf"})
          IN branches = { Append(at, <<"allOf", ToString(i)>>) : i \in 1..Cardinality(branches) }
       /\ "id" \in DOMAIN document.nodes[at] => IsUri(document.nodes[at].id)
       /\ \A keyword \in {"ref", "dynamicRef"} \cap DOMAIN document.nodes[at] :
            IsReference(document.nodes[at][keyword])

ASSUME ResourcesAssumption ==
  /\ MaxTraversal \in Nat
  /\ \A i \in Input : /\ i.documents \in Seq(Range(i.documents)) /\ i.documents # <<>>
                       /\ \A d \in DOMAIN i.documents : IsDocument(i.documents[d])
-----------------------------------------------------------------------------
(* The schemas below a schema, itself included.                            *)
Descendants(docs, doc, at) ==
  { below \in DOMAIN docs[doc].nodes :
      /\ IsPrefix(at, below)
      /\ \A i \in Len(at) + 1..Len(below) : below[i][1] \in SchemaKeywords }

(* Below a root the dialect may be named again, and not another one.       *)
SwitchesDialect(docs, doc, at) ==
  /\ at # <<>> /\ Has(Node(docs, doc, at), "dialect")
  /\ Node(docs, doc, at).dialect # "2020-12"

Here == [dir |-> "", file |-> ""]

(* A reference without a directory is relative to that of its base.        *)
ResolveUri(base, reference) ==
  CASE reference = Here                            -> base
    [] reference # Here /\ reference.dir = ""      -> [dir |-> base.dir, file |-> reference.file]
    [] reference # Here /\ reference.dir # ""      -> reference

(* A reference to a meta-schema, which is no part of the graph, is looked  *)
(* up there.                                                               *)
BuiltInReferenceResolves(base, reference) ==
  LET uri == ResolveUri(base, reference.to)
  IN uri \in BuiltIn /\ [reference EXCEPT !.to = uri] \in BuiltInPlaces

(* The base in a schema, given the one around it.                          *)
BaseIn(schema, base) ==
  IF Has(schema, "id") THEN ResolveUri(base, schema.id) ELSE base

(* The bases at a pointer, from one length of it on: every identity on the *)
(* way changes it.                                                         *)
Bases(docs, doc, at, first, base) ==
  LET bases[n \in Nat] ==
        IF n = 0 THEN base
        ELSE BaseIn(Node(docs, doc, SubSeq(at, 1, first + n - 1)), bases[n - 1])
  IN bases

BaseAlong(docs, doc, at, first, last, base) ==
  Bases(docs, doc, at, first, base)[IF last < first THEN 0 ELSE last - first + 1]

Root(docs, doc) ==
  [doc |-> doc, at |-> <<>>, base |-> BaseIn(Node(docs, doc, <<>>), docs[doc].uri)]
-----------------------------------------------------------------------------
(* A graph under construction: aliases, anchors and indexed schemas.       *)
Graph == [aliases |-> aliases, anchors |-> anchors, indexed |-> indexed]

NoLocation == [doc |-> 0, at |-> <<>>, base |-> Here]
NoGraph    == [aliases |-> << >>, anchors |-> << >>, indexed |-> {}]

(* The deepest resource root around a place; two at one depth would be two *)
(* identities of one schema.                                               *)
DeepestRoot(graph, doc, at, fallback) ==
  LET around == { graph.aliases[uri] : uri \in DOMAIN graph.aliases }
      roots  == { r \in around : r.doc = doc /\ IsPrefix(r.at, at) }
  IN IF roots = {} THEN fallback
     ELSE CHOOSE r \in roots : \A s \in roots : Len(s.at) <= Len(r.at)

ResolveRaw(docs, graph, base, reference) ==
  LET uri == ResolveUri(base, reference.to)
  IN IF uri \notin DOMAIN graph.aliases THEN NoLocation
     ELSE LET root == graph.aliases[uri]
          IN IF Has(reference, "anchor")
             THEN IF <<root.base, reference.anchor>> \in DOMAIN graph.anchors
                  THEN graph.anchors[<<root.base, reference.anchor>>]
                  ELSE NoLocation
             ELSE LET at == root.at \o reference.pointer
                  IN IF at \notin DOMAIN docs[root.doc].nodes THEN NoLocation
                     ELSE [ doc |-> root.doc, at |-> at,
                            base |-> IF reference.pointer = <<>> THEN root.base
                                     ELSE DeepestRoot(graph, root.doc, at, root).base ]

(* Mutant: it is read in the resource around it.                           *)
NormalizeNot(docs, graph, location) == location

(* A schema with an identity is read in the resource it names.             *)
Normalize(docs, graph, location) ==
  LET schema == Node(docs, location.doc, location.at)
      placed(root) == root.doc = location.doc /\ root.at = location.at
      known(uri) == uri \in DOMAIN graph.aliases
  IN IF \/ known(location.base) /\ placed(graph.aliases[location.base])
        \/ ~Has(schema, "id")
     THEN location
     ELSE LET uri == ResolveUri(location.base, schema.id)
          IN IF known(uri) /\ placed(graph.aliases[uri])
             THEN [location EXCEPT !.base = graph.aliases[uri].base]
             ELSE NoLocation

Resolve(docs, graph, base, reference) ==
  LET raw == ResolveRaw(docs, graph, base, reference)
  IN IF raw = NoLocation THEN NoLocation ELSE Normalize(docs, graph, raw)

(* The schemas at and below a place in the resource of root, each with the *)
(* base around it.                                                         *)
Entries(docs, at, root) ==
  LET first == IF at = root.at THEN Len(at) + 1 ELSE Len(at)
  IN { [ doc |-> root.doc, at |-> below,
         base |-> BaseAlong(docs, root.doc, below, first, Len(below) - 1, root.base) ] :
       below \in Descendants(docs, root.doc, at) }

StartsResource(docs, root, entry) ==
  Has(Node(docs, entry.doc, entry.at), "id") /\ entry.at # root.at

Own(docs, root, entry) ==
  IF StartsResource(docs, root, entry)
  THEN [entry EXCEPT !.base = ResolveUri(@, Node(docs, entry.doc, entry.at).id)]
  ELSE entry

(* An identity that is taken, by a resource, a document or the dialect.    *)
Taken(docs, graph, uri, location) ==
  \/ uri \in BuiltIn
  \/ uri \in DOMAIN graph.aliases /\ graph.aliases[uri] # location
  \/ \E d \in DOMAIN docs :
       docs[d].uri = uri /\ (d # location.doc \/ location.at # <<>>)

(* Indexing them: an identity or an anchor that is taken is refused.       *)
Index(docs, graph, at, root) ==
  LET entries == Entries(docs, at, root) \ graph.indexed
      roots   == { Own(docs, root, e) : e \in { f \in entries : StartsResource(docs, root, f) } }
      anchored(e) == LET schema == Node(docs, e.doc, e.at)
                     IN IF Has(schema, "anchors") THEN schema.anchors ELSE {}
      named   == UNION { { <<Own(docs, root, e), name>> : name \in anchored(e) } : e \in entries }
      key(n)  == <<n[1].base, n[2]>>
  IN IF \/ \E r \in roots : \/ Taken(docs, graph, r.base, r)
                            \/ \E s \in roots : s # r /\ s.base = r.base
        \/ \E n \in named : \/ key(n) \in DOMAIN graph.anchors
                            \/ \E o \in named : o # n /\ key(o) = key(n)
     THEN NoGraph
     ELSE [ aliases |-> [ uri \in DOMAIN graph.aliases \cup { r.base : r \in roots } |->
                            IF uri \in DOMAIN graph.aliases THEN graph.aliases[uri]
                            ELSE CHOOSE r \in roots : r.base = uri ],
            anchors |-> [ k \in DOMAIN graph.anchors \cup { key(n) : n \in named } |->
                            IF k \in DOMAIN graph.anchors THEN graph.anchors[k]
                            ELSE (CHOOSE n \in named : key(n) = k)[1] ],
            indexed |-> graph.indexed \cup entries ]

(* Mutant: the identities on the way to a target are not indexed.          *)
IndexTargetAlone(docs, graph, target) ==
  Index(docs, graph, target.at, graph.aliases[target.base])

(* The place a reference leads to is indexed, and so is every schema with  *)
(* an identity on the way to it, which an opaque step would have hidden.   *)
IndexStep(docs, target, at, state) ==
  LET schema == Node(docs, target.doc, at)
      result == IF Has(schema, "id") \/ at = target.at
                THEN Index(docs, state.graph, at, state.root) ELSE state.graph
  IN IF state.graph = NoGraph \/ result = NoGraph
     THEN [graph |-> NoGraph, root |-> state.root]
     ELSE [ graph |-> result,
            root  |-> IF Has(schema, "id")
                      THEN result.aliases[ResolveUri(state.root.base, schema.id)]
                      ELSE state.root ]

IndexSteps(docs, graph, target) ==
  LET first == graph.aliases[target.base]
      steps[n \in Nat] ==
        IF n = 0 THEN [graph |-> graph, root |-> first]
        ELSE IndexStep(docs, target, SubSeq(target.at, 1, Len(first.at) + n), steps[n - 1])
  IN steps

IndexTarget(docs, graph, target) ==
  LET first == graph.aliases[target.base]
  IN IndexSteps(docs, graph, target)[Len(target.at) - Len(first.at)].graph
-----------------------------------------------------------------------------
ReferenceKeywords == {"ref", "dynamicRef"}

References(schema) == ReferenceKeywords \cap DOMAIN schema

Supplied(docs) ==
  UNION { { [ doc |-> d, at |-> at,
              base |-> BaseAlong(docs, d, at, 0, Len(at), docs[d].uri) ] :
            at \in Descendants(docs, d, <<>>) } : d \in DOMAIN docs }

(* The resources there can be: nothing is retrieved.                       *)
KnownIdentities(docs) ==
  { s.base : s \in Supplied(docs) } \cup { docs[d].uri : d \in DOMAIN docs }

(* What is wrong with the documents before any is indexed.                 *)
Refusals(docs) ==
  { reason \in {"retrieved-twice", "dialect", "nested-dialect", "unresolved"} :
      CASE reason = "retrieved-twice" ->
             \E d, e \in DOMAIN docs : d # e /\ docs[d].uri = docs[e].uri
        [] reason = "dialect" -> \E d \in DOMAIN docs : docs[d].dialect # "2020-12"
        [] reason = "nested-dialect" ->
             \E s \in Supplied(docs) : SwitchesDialect(docs, s.doc, s.at)
        [] reason = "unresolved" ->
             \E s \in Supplied(docs) :
               LET schema == Node(docs, s.doc, s.at)
               IN \E keyword \in References(schema) :
                    ResolveUri(s.base, schema[keyword].to)
                      \notin KnownIdentities(docs) \cup BuiltIn }

ResourcesInit ==
  /\ input \in Input
  /\ documents = input.documents
  /\ aliases = << >> /\ anchors = << >> /\ indexed = {}
  /\ visited = {} /\ stack = <<>>
  /\ next = 1
  /\ outcome = "admitting"

(* The code stops at the first thing wrong; here at any.                   *)
Admit ==
  /\ outcome = "admitting"
  /\ IF Refusals(documents) = {} THEN outcome' = "indexing"
     ELSE outcome' \in Refusals(documents)
  /\ UNCHANGED <<input, documents, aliases, anchors, indexed, visited, stack, next>>

(* A document is known by where it was retrieved from and by its identity. *)
IndexDocument ==
  LET root  == Root(documents, next)
      own   == {documents[next].uri, root.base}
      known == [ Graph EXCEPT !.aliases =
                   [ uri \in own \cup DOMAIN aliases |->
                       IF uri \in own THEN root ELSE aliases[uri] ] ]
      graph == IF Taken(documents, Graph, root.base, root)
                  \/ documents[next].uri \in BuiltIn \cup DOMAIN aliases
               THEN NoGraph ELSE Index(documents, known, <<>>, root)
  IN /\ outcome = "indexing" /\ next <= Len(documents)
     /\ IF graph = NoGraph
        THEN outcome' = "identity-taken" /\ UNCHANGED <<aliases, anchors, indexed>>
        ELSE /\ aliases' = graph.aliases /\ anchors' = graph.anchors
             /\ indexed' = graph.indexed
             /\ UNCHANGED outcome
     /\ next' = next + 1
     /\ UNCHANGED <<input, documents, visited, stack>>

StartFollowing ==
  /\ outcome = "indexing" /\ next > Len(documents)
  /\ next' = 1
  /\ outcome' = "following"
  /\ UNCHANGED <<input, documents, aliases, anchors, indexed, visited, stack>>

(* A location is entered once: what it refers to is followed, then what is *)
(* below it.                                                               *)
Entered(docs, location, frames) ==
  IF location \in visited THEN frames
  ELSE << [ place |-> location,
            references |-> References(Node(docs, location.doc, location.at)),
            children |-> Children(docs, location.doc, location.at, SchemaKeywords) ] >>
         \o frames

Enter(docs, location, frames) ==
  /\ visited' = visited \cup {location}
  /\ stack' = Entered(docs, location, frames)

FollowDocument ==
  /\ outcome = "following" /\ stack = <<>> /\ next <= Len(documents)
  /\ Enter(documents, Root(documents, next), <<>>)
  /\ next' = next + 1
  /\ UNCHANGED <<input, documents, aliases, anchors, indexed, outcome>>

(* Mutant: the pointer is taken within the whole document.                 *)
RewrittenFromDocument(target, graph) == [to |-> target.base, pointer |-> target.at]

(* A reference that crossed into another resource is rewritten to name it. *)
Rewritten(target, graph) ==
  [ to |-> target.base,
    pointer |-> SubSeq(target.at, Len(graph.aliases[target.base].at) + 1, Len(target.at)) ]

(* The reference in a schema at place leads, as it is written, to raw; it  *)
(* is resolved in graph, where raw is indexed.                             *)
FollowTo(place, keyword, rest, raw, graph, target) ==
  LET refuse(reason) ==
        outcome' = reason
          /\ UNCHANGED <<documents, aliases, anchors, indexed, visited, stack>>
  IN IF graph = NoGraph THEN refuse("identity-taken")
     ELSE IF target = NoLocation THEN refuse("graph")
     ELSE IF SwitchesDialect(documents, target.doc, target.at)
     THEN refuse("nested-dialect")
     ELSE /\ aliases' = graph.aliases /\ anchors' = graph.anchors
          /\ indexed' = graph.indexed
          /\ documents' =
               IF keyword = "ref" /\ target.base # raw.base
               THEN [ documents EXCEPT ![place.doc].nodes[place.at].ref =
                        Rewritten(target, graph) ]
               ELSE documents
          /\ Enter(documents, target, rest)
          /\ UNCHANGED outcome

FollowReference ==
  LET frame     == Head(stack)
      place     == frame.place
      keyword   == IF "ref" \in frame.references THEN "ref" ELSE "dynamicRef"
      reference == Node(documents, place.doc, place.at)[keyword]
      rest      == << [frame EXCEPT !.references = @ \ {keyword}] >> \o Tail(stack)
      follow(raw, graph) ==
        FollowTo(place, keyword, rest, raw, graph,
                 IF graph = NoGraph THEN NoLocation
                 ELSE Resolve(documents, graph, place.base, reference))
      lead(raw) ==
        IF raw # NoLocation THEN follow(raw, IndexTarget(documents, Graph, raw))
        ELSE /\ IF BuiltInReferenceResolves(place.base, reference)
                THEN stack' = rest /\ UNCHANGED outcome
                ELSE outcome' = "unresolved" /\ UNCHANGED stack
             /\ UNCHANGED <<documents, aliases, anchors, indexed, visited>>
  IN /\ outcome = "following" /\ stack # <<>> /\ frame.references # {}
     /\ lead(ResolveRaw(documents, Graph, place.base, reference))
     /\ UNCHANGED <<input, next>>

(* Siblings are followed in the order of their keywords; here in any.      *)
FollowChild ==
  LET frame == Head(stack)
      place == frame.place
  IN /\ outcome = "following" /\ stack # <<>>
     /\ frame.references = {}
     /\ \E child \in frame.children :
          LET schema == Node(documents, place.doc, child)
              base   == BaseIn(schema, place.base)
          IN IF SwitchesDialect(documents, place.doc, child)
             THEN outcome' = "nested-dialect" /\ UNCHANGED <<visited, stack>>
             ELSE /\ Enter(documents, [doc |-> place.doc, at |-> child, base |-> base],
                           << [frame EXCEPT !.children = @ \ {child}] >> \o Tail(stack))
                  /\ UNCHANGED outcome
     /\ UNCHANGED <<input, documents, aliases, anchors, indexed, next>>

Leave ==
  /\ outcome = "following" /\ stack # <<>>
  /\ Head(stack).references = {} /\ Head(stack).children = {}
  /\ stack' = Tail(stack)
  /\ UNCHANGED <<input, documents, aliases, anchors, indexed, visited, next, outcome>>

Prepare ==
  /\ outcome = "following" /\ stack = <<>> /\ next > Len(documents)
  /\ outcome' = IF Cardinality(visited) > MaxTraversal THEN "limit" ELSE "prepared"
  /\ UNCHANGED <<input, documents, aliases, anchors, indexed, visited, stack, next>>

ResourcesNext ==
  \/ Admit \/ IndexDocument \/ StartFollowing \/ FollowDocument
  \/ FollowReference \/ FollowChild \/ Leave \/ Prepare

ResourcesSpec == ResourcesInit /\ [][ResourcesNext]_resourceVars
-----------------------------------------------------------------------------
(* Every schema is known in one resource: the one its own identity and     *)
(* those above it in the document name, wherever it was reached from and   *)
(* in whichever order (index_schema, index_reference_target).              *)
LexicalBase(doc, at) ==
  BaseAlong(input.documents, doc, at, 0, Len(at), input.documents[doc].uri)

BasesAreLexical ==
  /\ \A uri \in DOMAIN aliases :
       aliases[uri].base = LexicalBase(aliases[uri].doc, aliases[uri].at)
  /\ \A location \in visited \cup { anchors[k] : k \in DOMAIN anchors } :
       location.base = LexicalBase(location.doc, location.at)

(* Once the graph is prepared, every reference in it resolves, to the      *)
(* schema it named before anything was rewritten, and what it leads to was *)
(* followed as well: projection resolves references without a way to fail  *)
(* (qualify_schema_references, resolve_reference).                         *)
Identifies(uri, doc, at) ==
  IF at = <<>> THEN uri \in {input.documents[doc].uri, LexicalBase(doc, at)}
  ELSE Has(Node(input.documents, doc, at), "id") /\ LexicalBase(doc, at) = uri

Written(place, keyword, doc, at) ==
  LET reference == Node(input.documents, place.doc, place.at)[keyword]
      uri       == ResolveUri(LexicalBase(place.doc, place.at), reference.to)
      schema    == Node(input.documents, doc, at)
  IN \E i \in 0..Len(at) :
       /\ Identifies(uri, doc, SubSeq(at, 1, i))
       /\ IF Has(reference, "anchor")
          THEN /\ Has(schema, "anchors") /\ reference.anchor \in schema.anchors
               /\ LexicalBase(doc, at) = LexicalBase(doc, SubSeq(at, 1, i))
          ELSE SubSeq(at, i + 1, Len(at)) = reference.pointer

Following == {"admitting", "indexing", "following"}

ReferencesLeadWhereWritten ==
  outcome = "prepared" =>
    \A place \in visited :
      \A keyword \in References(Node(documents, place.doc, place.at)) :
        LET reference == Node(documents, place.doc, place.at)[keyword]
            target    == Resolve(documents, Graph, place.base, reference)
        IN \/ BuiltInReferenceResolves(place.base, reference)
           \/ /\ target # NoLocation
              /\ Written(place, keyword, target.doc, target.at)
              /\ target \in visited
=============================================================================
