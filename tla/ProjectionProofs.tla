-------------------------- MODULE ProjectionProofs --------------------------
(***************************************************************************)
(* Proofs about Projection, and about what it needs of Resources, for all  *)
(* documents and limits.                                                   *)
(*                                                                         *)
(* Resources: whatever was followed in a prepared graph, everything below  *)
(* it was followed as well (CoverageInv), so that a subschema or a target  *)
(* is always one of finitely many followed schemas.                        *)
(*                                                                         *)
(* Shapes: kinds, choices, seeds and bounds are worked out of all schemas  *)
(* at a binding; each of these computations keeps exactly the values all   *)
(* of them admit.                                                          *)
(*                                                                         *)
(* Projection: what was expanded was expanded with everything references   *)
(* and allOf lead to, or that is pending (Expansion, ExpandingInv); what   *)
(* is placed is made of schemas without which nothing applies (NodeInv).   *)
(* Objects that are open and lists whose template is underway carry what   *)
(* is needed to place them (FrameInv, SubjectInv).  What an object asks    *)
(* for is placed, owed by an open object, or the subject (Placement).      *)
(***************************************************************************)
EXTENDS Projection, CompilationProofs, FiniteSetTheorems
-----------------------------------------------------------------------------
(* A schema below one that was followed, still to be entered.              *)
Underway(frames, place, below) ==
  \E i \in DOMAIN frames : frames[i].place = place /\ below \in frames[i].children

(* Documents are indexed, and then followed, one after the other.          *)
StageInv ==
  /\ outcome = "admitting" => next = 1
  /\ outcome = "indexing" =>
       \A d \in DOMAIN input.documents :
         d < next => Covered(input.documents, Graph, d, <<>>)
  /\ outcome = "following" =>
       \A d \in DOMAIN input.documents :
         /\ Covered(input.documents, Graph, d, <<>>)
         /\ d < next => PlaceAt(input.documents, d, <<>>) \in visited
  /\ outcome = "prepared" =>
       \A d \in DOMAIN input.documents : PlaceAt(input.documents, d, <<>>) \in visited

(* Whatever was followed is known with all below it, which was followed as *)
(* well or will be.                                                        *)
CoverageInv ==
  /\ input \in Input
  /\ Spread(input.documents, Graph)
  /\ \A l \in visited : Covered(input.documents, Graph, l.doc, l.at)
  /\ \A l \in visited :
       \A below \in Children(input.documents, l.doc, l.at, SchemaKeywords) :
         PlaceAt(input.documents, l.doc, below) \in visited \/ Underway(stack, l, below)
  /\ StageInv

LEMMA CoverageInvIsKept ==
  ASSUME ResourcesInv, CoverageInv, input' = input,
         Spread(input.documents, Graph'), Extends(Graph, Graph'), visited \subseteq visited',
         \A l \in visited' \ visited :
           /\ Covered(input.documents, Graph', l.doc, l.at)
           /\ \A below \in Children(input.documents, l.doc, l.at, SchemaKeywords) :
                Underway(stack', l, below),
         \A l \in visited :
           \A below \in Children(input.documents, l.doc, l.at, SchemaKeywords) :
             Underway(stack, l, below) =>
               PlaceAt(input.documents, l.doc, below) \in visited' \/ Underway(stack', l, below),
         StageInv'
  PROVE  CoverageInv'
<1>1. \A l \in visited' : Covered(input.documents, Graph', l.doc, l.at)
  BY CoveredIsKept DEF CoverageInv
<1>2. \A l \in visited' :
        \A below \in Children(input.documents, l.doc, l.at, SchemaKeywords) :
          PlaceAt(input.documents, l.doc, below) \in visited' \/ Underway(stack', l, below)
  BY DEF CoverageInv
<1> QED
  BY <1>1, <1>2 DEF CoverageInv

LEMMA CoverageInit ==
  ASSUME ResourcesInit
  PROVE  CoverageInv
<1>1. /\ visited = {} /\ outcome = "admitting" /\ next = 1
      /\ DOMAIN aliases = {}
  <2>1. \A f : f = << >> => DOMAIN f = {}
    OBVIOUS
  <2> QED
    BY <2>1 DEF ResourcesInit
<1>2. input \in Input
  BY DEF ResourcesInit
<1> QED
  BY <1>1, <1>2 DEF CoverageInv, StageInv, Spread, Graph

(* A step that enters nothing.                                             *)
LEMMA NothingEntered ==
  ASSUME ResourcesInv, CoverageInv, UNCHANGED <<input, visited, stack>>,
         Spread(input.documents, Graph'), Extends(Graph, Graph'), StageInv'
  PROVE  CoverageInv'
BY CoverageInvIsKept

LEMMA GraphCovers ==
  ASSUME CoverageInv, UNCHANGED <<input, aliases, anchors, indexed>>
  PROVE  Spread(input.documents, Graph') /\ Extends(Graph, Graph')
<1>1. Graph' = Graph
  BY DEF Graph
<1> QED
  BY <1>1, ExtendsItself DEF CoverageInv

LEMMA AdmitCovers == ASSUME ResourcesInv, CoverageInv, Admit PROVE CoverageInv'
<1>1. /\ next = 1 /\ next' = 1 /\ outcome = "admitting"
      /\ UNCHANGED <<input, visited, stack, aliases, anchors, indexed>>
      /\ outcome' \in {"indexing"} \cup Refusals(documents)
  BY DEF Admit, CoverageInv, StageInv
<1>2. outcome' \notin {"admitting", "following", "prepared"}
  BY <1>1 DEF Refusals
<1>3. DOMAIN input.documents = 1..Len(input.documents)
  BY DocumentsAreNumbered DEF ResourcesInv
<1>4. StageInv'
  BY <1>1, <1>2, <1>3 DEF StageInv
<1> QED
  BY <1>1, <1>4, GraphCovers, NothingEntered

LEMMA StartFollowingCovers ==
  ASSUME ResourcesInv, CoverageInv, StartFollowing PROVE CoverageInv'
<1>1. /\ next > Len(documents) /\ next' = 1 /\ outcome = "indexing" /\ outcome' = "following"
      /\ UNCHANGED <<input, documents, visited, stack, aliases, anchors, indexed>>
  BY DEF StartFollowing
<1>2. /\ DOMAIN input.documents = 1..Len(input.documents) /\ Len(input.documents) \in Nat
      /\ DOMAIN documents = DOMAIN input.documents /\ documents \in Seq(Range(documents))
      /\ next \in Nat
  BY DocumentsAreNumbered DEF ResourcesInv, Agrees
<1>3. Len(documents) = Len(input.documents)
  BY <1>2, LenProperties
<1>4. \A d \in DOMAIN input.documents : d < next /\ ~(d < 1)
  BY <1>1, <1>2, <1>3
<1>5. Graph' = Graph
  BY <1>1 DEF Graph
<1>6. StageInv'
  BY <1>1, <1>4, <1>5 DEF CoverageInv, StageInv
<1> QED
  BY <1>1, <1>6, GraphCovers, NothingEntered

LEMMA PrepareCovers == ASSUME ResourcesInv, CoverageInv, Prepare PROVE CoverageInv'
<1>1. /\ next > Len(documents) /\ outcome = "following" /\ outcome' \in {"limit", "prepared"}
      /\ UNCHANGED <<input, documents, visited, stack, next, aliases, anchors, indexed>>
  BY DEF Prepare
<1>2. /\ DOMAIN input.documents = 1..Len(input.documents) /\ Len(input.documents) \in Nat
      /\ DOMAIN documents = DOMAIN input.documents /\ documents \in Seq(Range(documents))
      /\ next \in Nat
  BY DocumentsAreNumbered DEF ResourcesInv, Agrees
<1>3. Len(documents) = Len(input.documents)
  BY <1>2, LenProperties
<1>4. \A d \in DOMAIN input.documents : d < next
  BY <1>1, <1>2, <1>3
<1>5. \A d \in DOMAIN input.documents : PlaceAt(input.documents, d, <<>>) \in visited
  BY <1>1, <1>4 DEF CoverageInv, StageInv
<1>6. StageInv'
  BY <1>1, <1>5 DEF StageInv
<1> QED
  BY <1>1, <1>6, GraphCovers, NothingEntered

LEMMA IndexDocumentCovers ==
  ASSUME ResourcesInv, CoverageInv, IndexDocument PROVE CoverageInv'
<1> DEFINE docs == input.documents
<1>1. /\ next <= Len(documents) /\ next' = next + 1
      /\ UNCHANGED <<input, documents, visited, stack>>
      /\ \/ outcome' = "identity-taken" /\ UNCHANGED <<aliases, anchors, indexed>>
         \/ \E known, root : DocumentIndexed(known, root)
  BY IndexingDocument DEF IndexDocument
<1>2. CASE outcome' = "identity-taken" /\ UNCHANGED <<aliases, anchors, indexed>>
  <2>1. StageInv'
    BY <1>2 DEF StageInv
  <2> QED
    BY <1>1, <1>2, <2>1, GraphCovers, NothingEntered
<1>3. ASSUME NEW known, NEW root, DocumentIndexed(known, root) PROVE CoverageInv'
  <2>1. WellFormed(docs) /\ Agrees(docs, documents) /\ GraphInv(docs, Graph) /\ next \in Nat
    BY DEF ResourcesInv
  <2>2. /\ GraphInv(docs, known) /\ Extends(Graph, known)
        /\ root = PlaceAt(docs, next, <<>>)
        /\ root.base \in DOMAIN known.aliases /\ known.aliases[root.base] = root
        /\ Indexable(docs, <<>>, root) /\ Index(documents, known, <<>>, root) # NoGraph
        /\ Graph' = Index(documents, known, <<>>, root) /\ UNCHANGED outcome
        /\ \A uri \in DOMAIN known.aliases :
             \/ uri \in DOMAIN Graph.aliases /\ known.aliases[uri] = Graph.aliases[uri]
             \/ known.aliases[uri] = root /\ uri \notin BuiltIn
    BY <1>3 DEF DocumentIndexed
  <2>3. root.doc = next
    BY <2>2 DEF PlaceAt
  <2>4. \A uri \in DOMAIN known.aliases :
          /\ uri \notin BuiltIn
          /\ \/ Covered(docs, known, known.aliases[uri].doc, known.aliases[uri].at)
             \/ known.aliases[uri] = PlaceAt(docs, root.doc, <<>>)
    <3> TAKE uri \in DOMAIN known.aliases
    <3>1. CASE uri \in DOMAIN Graph.aliases /\ known.aliases[uri] = Graph.aliases[uri]
      BY <2>2, <3>1, CoveredIsKept DEF CoverageInv, Spread
    <3>2. CASE known.aliases[uri] = root /\ uri \notin BuiltIn
      BY <2>2, <2>3, <3>2
    <3> QED
      BY <2>2, <3>1, <3>2
  <2>5. Spread(docs, Graph')
    BY <2>1, <2>2, <2>4, IndexSpreads
  <2>6. Covered(docs, Graph', next, <<>>)
    BY <2>1, <2>2, <2>3, <2>4, IndexSpreads
  <2>7. Extends(Graph, Graph')
    <3>1. Extends(known, Graph')
      BY <2>1, <2>2, IndexKeeps
    <3> QED
      BY <2>2, <3>1, ExtendsIsTransitive
  <2>8. outcome = "indexing" /\ outcome' = "indexing"
    BY <2>2 DEF IndexDocument
  <2>9. \A d \in DOMAIN docs : d < next' => Covered(docs, Graph', d, <<>>)
    <3> TAKE d \in DOMAIN docs
    <3> HAVE d < next'
    <3>1. d \in Nat
      BY <2>1, DocumentsAreNumbered
    <3>2. d = next \/ d < next
      BY <1>1, <2>1, <3>1
    <3>3. d < next => Covered(docs, Graph, d, <<>>)
      BY <2>8 DEF CoverageInv, StageInv
    <3> QED
      BY <2>6, <2>7, <3>2, <3>3, CoveredIsKept
  <2>10. StageInv'
    BY <1>1, <2>8, <2>9 DEF StageInv
  <2> QED
    BY <1>1, <2>5, <2>7, <2>10, NothingEntered
<1> QED
  BY <1>1, <1>2, <1>3
-----------------------------------------------------------------------------
(* Frames are put on the stack, and replaced by what is left of them.      *)
LEMMA EnteringKeepsUnderway ==
  ASSUME NEW docs, NEW now, Agrees(docs, now), NEW location, IsLocated(docs, location),
         NEW frames, frames \in Seq(Range(frames))
  PROVE  LET entered == Entered(now, location, frames)
         IN /\ \A p, b : Underway(frames, p, b) => Underway(entered, p, b)
            /\ location \notin visited =>
                 \A b \in Children(docs, location.doc, location.at, SchemaKeywords) :
                   Underway(entered, location, b)
<1> DEFINE entered == Entered(now, location, frames)
           f == [ place |-> location,
                  references |-> References(Node(now, location.doc, location.at)),
                  children |-> Children(now, location.doc, location.at, SchemaKeywords) ]
<1>1. CASE location \in visited
  <2>1. entered = frames
    BY <1>1 DEF Entered
  <2> QED
    BY <1>1, <2>1
<1>2. CASE location \notin visited
  <2>1. entered = <<f>> \o frames
    BY <1>2 DEF Entered
  <2>2. f.place = location /\ f.children = Children(docs, location.doc, location.at, SchemaKeywords)
    BY AgreeingNode DEF IsLocated, Children
  <2> HIDE DEF f, entered
  <2>3. /\ DOMAIN frames = 1..Len(frames) /\ Len(frames) \in Nat
        /\ DOMAIN entered = 1..Len(frames) + 1 /\ entered[1] = f
    BY <2>1, Pushed
  <2>4. \A i \in 1..Len(frames) : i + 1 \in DOMAIN entered /\ entered[i + 1] = frames[i]
    BY <2>1, Pushed
  <2>5. 1 \in DOMAIN entered
    BY <2>3
  <2> QED
    BY <2>2, <2>3, <2>4, <2>5 DEF Underway, entered
<1> QED
  BY <1>1, <1>2

LEMMA ReplacingKeepsUnderway ==
  ASSUME NEW frames, frames \in Seq(Range(frames)), frames # <<>>,
         NEW f, f.place = Head(frames).place
  PROVE  /\ \A p, b : Underway(frames, p, b) =>
                \/ Underway(<<f>> \o Tail(frames), p, b)
                \/ p = f.place /\ b \in Head(frames).children \ f.children
         /\ \A p, b : Underway(frames, p, b) =>
                Underway(Tail(frames), p, b) \/ b \in Head(frames).children
         /\ <<f>> \o Tail(frames) \in Seq(Range(<<f>> \o Tail(frames)))
<1> DEFINE rest == Tail(frames)
           more == <<f>> \o rest
<1>1. /\ rest \in Seq(Range(rest)) /\ Len(frames) \in Nat \ {0}
      /\ DOMAIN frames = 1..Len(frames) /\ Head(frames) = frames[1]
      /\ DOMAIN rest = 1..Len(frames) - 1 /\ Len(rest) = Len(frames) - 1
      /\ \A i \in 1..Len(frames) - 1 : i + 1 \in DOMAIN frames /\ rest[i] = frames[i + 1]
  BY Popped
<1> HIDE DEF rest
<1>2. /\ DOMAIN more = 1..Len(rest) + 1 /\ more[1] = f /\ more \in Seq(Range(more))
      /\ \A i \in 1..Len(rest) : i + 1 \in DOMAIN more /\ more[i + 1] = rest[i]
  <2>1. DOMAIN more = 1..Len(rest) + 1
    BY <1>1, Pushed
  <2>2. more[1] = f
    BY <1>1, Pushed
  <2>3. more \in Seq(Range(more))
    BY <1>1, Pushed
  <2>4. \A i \in 1..Len(rest) : i + 1 \in DOMAIN more /\ more[i + 1] = rest[i]
    BY <1>1, Pushed
  <2> QED
    BY <2>1, <2>2, <2>3, <2>4
<1> HIDE DEF more
<1>3. ASSUME NEW i \in DOMAIN frames, i # 1
      PROVE  i - 1 \in DOMAIN rest /\ rest[i - 1] = frames[i] /\ i \in DOMAIN more /\ more[i] = frames[i]
  <2>1. i - 1 \in 1..Len(rest) /\ i - 1 + 1 = i
    BY <1>1, <1>3
  <2> QED
    BY <1>1, <1>2, <2>1
<1>4. 1 \in DOMAIN more
  BY <1>1, <1>2
<1>5. ASSUME NEW p, NEW b, Underway(frames, p, b)
      PROVE  /\ Underway(more, p, b) \/ (p = f.place /\ b \in Head(frames).children \ f.children)
             /\ Underway(rest, p, b) \/ b \in Head(frames).children
  <2>1. PICK i \in DOMAIN frames : frames[i].place = p /\ b \in frames[i].children
    BY <1>5 DEF Underway
  <2>2. CASE i = 1
    BY <1>1, <1>2, <1>4, <2>1, <2>2 DEF Underway
  <2>3. CASE i # 1
    BY <1>3, <2>1, <2>3 DEF Underway
  <2> QED
    BY <2>2, <2>3
<1> QED
  BY <1>2, <1>5 DEF more, rest

LEMMA ChildIsBelow ==
  ASSUME NEW docs, WellFormed(docs), NEW d \in DOMAIN docs, NEW at \in DOMAIN docs[d].nodes,
         NEW below \in Children(docs, d, at, SchemaKeywords)
  PROVE  below \in Descendants(docs, d, at)
<1>1. /\ below \in DOMAIN docs[d].nodes /\ Len(below) = Len(at) + 1 /\ IsPrefix(at, below)
      /\ Last(below)[1] \in SchemaKeywords
  BY DEF Children
<1>2. Len(at) \in Nat
  BY PointersAre
<1>3. \A i \in Len(at) + 1..Len(below) : below[i] = Last(below)
  BY <1>1, <1>2 DEF Last
<1> QED
  BY <1>1, <1>3 DEF Descendants

(* A step that enters a schema, with frames for what is left around it.    *)
LEMMA EnteringCovers ==
  ASSUME ResourcesInv, CoverageInv, input' = input,
         NEW location, IsLocated(input.documents, location),
         NEW frames, frames \in Seq(Range(frames)), Enter(documents, location, frames),
         Spread(input.documents, Graph'), Extends(Graph, Graph'),
         Covered(input.documents, Graph', location.doc, location.at),
         \A p, b : Underway(stack, p, b) =>
           \/ Underway(frames, p, b)
           \/ PlaceAt(input.documents, p.doc, b) = location,
         StageInv'
  PROVE  CoverageInv'
<1> DEFINE docs == input.documents
<1>1. visited' = visited \cup {location} /\ stack' = Entered(documents, location, frames)
  BY DEF Enter
<1>2. Agrees(docs, documents)
  BY DEF ResourcesInv
<1>3. /\ \A p, b : Underway(frames, p, b) => Underway(stack', p, b)
      /\ location \notin visited =>
           \A b \in Children(docs, location.doc, location.at, SchemaKeywords) :
             Underway(stack', location, b)
  BY <1>1, <1>2, EnteringKeepsUnderway
<1>4. \A l \in visited' \ visited :
        /\ Covered(docs, Graph', l.doc, l.at)
        /\ \A below \in Children(docs, l.doc, l.at, SchemaKeywords) : Underway(stack', l, below)
  BY <1>1, <1>3
<1>5. \A l \in visited :
        \A below \in Children(docs, l.doc, l.at, SchemaKeywords) :
          Underway(stack, l, below) =>
            PlaceAt(docs, l.doc, below) \in visited' \/ Underway(stack', l, below)
  BY <1>1, <1>3
<1> QED
  BY <1>1, <1>4, <1>5, CoverageInvIsKept

(* What a step of following keeps of how far it came.                      *)
LEMMA StillFollowing ==
  ASSUME CoverageInv, UNCHANGED <<input, next>>, outcome = "following", outcome' = "following",
         Extends(Graph, Graph'), visited \subseteq visited'
  PROVE  StageInv'
BY CoveredIsKept DEF CoverageInv, StageInv

LEMMA FollowDocumentCovers ==
  ASSUME ResourcesInv, CoverageInv, FollowDocument PROVE CoverageInv'
<1> DEFINE docs == input.documents
<1>1. /\ stack = <<>> /\ next <= Len(documents) /\ next' = next + 1
      /\ Enter(documents, Root(documents, next), <<>>)
      /\ UNCHANGED <<input, documents, aliases, anchors, indexed>>
      /\ outcome = "following" /\ outcome' = "following"
  BY DEF FollowDocument
<1>2. /\ next \in DOMAIN docs /\ WellFormed(docs) /\ Agrees(docs, documents) /\ next \in Nat
      /\ stack \in Seq(Range(stack))
  BY <1>1, NextDocument DEF ResourcesInv, Frames
<1>3. /\ Root(documents, next) = PlaceAt(docs, next, <<>>)
      /\ IsLocated(docs, Root(documents, next))
  BY <1>2, RootIs
<1>4. Spread(docs, Graph') /\ Extends(Graph, Graph') /\ Graph' = Graph
  BY <1>1, GraphCovers DEF Graph
<1>5. PlaceAt(docs, next, <<>>).doc = next /\ PlaceAt(docs, next, <<>>).at = <<>>
  BY DEF PlaceAt
<1>6. Covered(docs, Graph', Root(documents, next).doc, Root(documents, next).at)
  BY <1>1, <1>2, <1>3, <1>4, <1>5 DEF CoverageInv, StageInv
<1>7. visited' = visited \cup {PlaceAt(docs, next, <<>>)}
  BY <1>1, <1>3 DEF Enter
<1>8. \A d \in DOMAIN docs : d < next' => d = next \/ d < next
  BY <1>1, <1>2, DocumentsAreNumbered
<1>9. StageInv'
  BY <1>1, <1>4, <1>7, <1>8 DEF CoverageInv, StageInv
<1>10. Enter(documents, Root(documents, next), stack)
  BY <1>1
<1> QED
  BY <1>1, <1>2, <1>3, <1>4, <1>6, <1>9, <1>10, EnteringCovers

LEMMA LeaveCovers == ASSUME ResourcesInv, CoverageInv, Leave PROVE CoverageInv'
<1>1. /\ stack # <<>> /\ Head(stack).children = {} /\ stack' = Tail(stack)
      /\ UNCHANGED <<input, documents, aliases, anchors, indexed, visited, next>>
      /\ outcome = "following" /\ outcome' = "following"
  BY DEF Leave
<1>2. stack \in Seq(Range(stack))
  BY DEF ResourcesInv, Frames
<1>3. \A p, b : Underway(stack, p, b) => Underway(stack', p, b)
  BY <1>1, <1>2, ReplacingKeepsUnderway
<1>4. Spread(input.documents, Graph') /\ Extends(Graph, Graph')
  BY <1>1, GraphCovers
<1>5. StageInv'
  BY <1>1, <1>4, StillFollowing
<1> QED
  BY <1>1, <1>3, <1>4, <1>5, CoverageInvIsKept

LEMMA FollowChildCovers == ASSUME ResourcesInv, CoverageInv, FollowChild PROVE CoverageInv'
<1> DEFINE docs == input.documents
           frame == Head(stack)
           place == frame.place
<1>1. /\ stack # <<>> /\ outcome = "following"
      /\ UNCHANGED <<input, documents, aliases, anchors, indexed, next>>
  BY DEF FollowChild
<1>2. PICK child \in frame.children :
        LET schema == Node(documents, place.doc, child)
            base   == BaseIn(schema, place.base)
        IN IF SwitchesDialect(documents, place.doc, child)
           THEN outcome' = "nested-dialect" /\ UNCHANGED <<visited, stack>>
           ELSE /\ Enter(documents, [doc |-> place.doc, at |-> child, base |-> base],
                         << [frame EXCEPT !.children = @ \ {child}] >> \o Tail(stack))
                /\ UNCHANGED outcome
  BY DEF FollowChild
<1>3. /\ WellFormed(docs) /\ Agrees(docs, documents) /\ stack \in Seq(Range(stack))
  BY DEF ResourcesInv, Frames
<1>4. IsFrame(docs, visited, frame) /\ IsLocated(docs, place) /\ place \in visited
  BY <1>1, FrameOf DEF IsFrame
<1>5. Spread(docs, Graph') /\ Extends(Graph, Graph') /\ Graph' = Graph
  BY <1>1, GraphCovers DEF Graph
<1>6. CASE SwitchesDialect(documents, place.doc, child)
  <2>1. outcome' = "nested-dialect" /\ UNCHANGED <<visited, stack>>
    BY <1>2, <1>6
  <2>2. StageInv'
    BY <2>1 DEF StageInv
  <2> QED
    BY <1>1, <1>5, <2>1, <2>2, NothingEntered
<1>7. CASE ~SwitchesDialect(documents, place.doc, child)
  <2> DEFINE location == [ doc |-> place.doc, at |-> child,
                           base |-> BaseIn(Node(documents, place.doc, child), place.base) ]
             f == [frame EXCEPT !.children = @ \ {child}]
             rest == <<f>> \o Tail(stack)
  <2>1. Enter(documents, location, rest) /\ outcome' = "following"
    BY <1>1, <1>2, <1>7
  <2>2. child \in Children(docs, place.doc, place.at, SchemaKeywords)
    BY <1>4 DEF IsFrame
  <2>3. IsLocated(docs, location)
    BY <1>3, <1>4, <2>2, ChildIsLocated
  <2>4. location.doc = place.doc /\ location.at = child
    OBVIOUS
  <2>5. f.place = place /\ f.children = frame.children \ {child}
    <3>1. f = [ place |-> place, references |-> frame.references,
                children |-> frame.children \ {child} ]
      BY <1>4 DEF IsFrame
    <3> QED
      BY <3>1
  <2> HIDE DEF f, location
  <2>6. /\ \A p, b : Underway(stack, p, b) =>
             \/ Underway(rest, p, b)
             \/ p = f.place /\ b \in frame.children \ f.children
        /\ rest \in Seq(Range(rest))
    BY <1>1, <1>3, <2>5, ReplacingKeepsUnderway
  <2>7. PlaceAt(docs, place.doc, child) = location
    BY <2>3, <2>4 DEF IsLocated
  <2> HIDE DEF rest, frame
  <2>8. \A p, b : Underway(stack, p, b) =>
          Underway(rest, p, b) \/ PlaceAt(docs, p.doc, b) = location
    BY <2>5, <2>6, <2>7
  <2>9. Covered(docs, Graph', location.doc, location.at)
    <3>1. Covered(docs, Graph', place.doc, place.at)
      BY <1>4, <1>5 DEF CoverageInv
    <3>2. place.doc \in DOMAIN docs /\ place.at \in DOMAIN docs[place.doc].nodes
      BY <1>4 DEF IsLocated
    <3>3. child \in Descendants(docs, place.doc, place.at)
      BY <1>3, <2>2, <3>2, ChildIsBelow
    <3>4. Descendants(docs, place.doc, child) \subseteq Descendants(docs, place.doc, place.at)
      BY <1>3, <3>2, <3>3, DescendantsGoOn
    <3> QED
      BY <2>4, <3>1, <3>4 DEF Covered
  <2>10. visited \subseteq visited'
    BY <2>1 DEF Enter
  <2>11. StageInv'
    BY <1>1, <1>5, <2>1, <2>10, StillFollowing
  <2> QED
    BY <1>1, <1>5, <2>1, <2>3, <2>6, <2>8, <2>9, <2>11, EnteringCovers
<1> QED
  BY <1>6, <1>7

LEMMA FollowReferenceCovers ==
  ASSUME ResourcesInv, CoverageInv, FollowReference PROVE CoverageInv'
<1> DEFINE docs == input.documents
           place == Head(stack).place
<1>1. outcome = "following" /\ stack # <<>> /\ UNCHANGED <<input, next>>
  BY FollowingReference
<1>2. PICK keyword \in Head(stack).references : \E f :
        /\ Without(Head(stack), keyword, f)
        /\ \/ ReferenceRefused
           \/ ReferenceLeft(place, keyword, <<f>> \o Tail(stack))
           \/ \E raw, graph, target :
                ReferenceEntered(place, keyword, <<f>> \o Tail(stack), raw, graph, target)
  BY FollowingReference
<1>3. PICK f :
        /\ Without(Head(stack), keyword, f)
        /\ \/ ReferenceRefused
           \/ ReferenceLeft(place, keyword, <<f>> \o Tail(stack))
           \/ \E raw, graph, target :
                ReferenceEntered(place, keyword, <<f>> \o Tail(stack), raw, graph, target)
  BY <1>2
<1> DEFINE rest == <<f>> \o Tail(stack)
<1>4. /\ WellFormed(docs) /\ Agrees(docs, documents) /\ stack \in Seq(Range(stack))
  BY DEF ResourcesInv, Frames
<1>5. f.place = Head(stack).place /\ f.children = Head(stack).children
  BY <1>3 DEF Without
<1>6. /\ \A p, b : Underway(stack, p, b) => Underway(rest, p, b)
      /\ rest \in Seq(Range(rest))
  BY <1>1, <1>4, <1>5, ReplacingKeepsUnderway
<1>7. CASE ReferenceRefused
  <2>1. /\ UNCHANGED <<input, visited, stack, aliases, anchors, indexed>>
        /\ outcome' \notin {"admitting", "indexing", "following", "prepared"}
    BY <1>1, <1>7 DEF ReferenceRefused
  <2>2. StageInv'
    BY <2>1 DEF StageInv
  <2> QED
    BY <2>1, <2>2, GraphCovers, NothingEntered
<1>8. CASE ReferenceLeft(place, keyword, rest)
  <2>1. /\ UNCHANGED <<input, visited, next, aliases, anchors, indexed>>
        /\ outcome' = "following" /\ stack' = rest
    BY <1>1, <1>8 DEF ReferenceLeft
  <2>2. Spread(docs, Graph') /\ Extends(Graph, Graph')
    BY <2>1, GraphCovers
  <2>3. StageInv'
    BY <1>1, <2>1, <2>2, StillFollowing
  <2> HIDE DEF rest
  <2> QED
    BY <1>6, <2>1, <2>2, <2>3, CoverageInvIsKept
<1>9. ASSUME NEW raw, NEW graph, NEW target,
             ReferenceEntered(place, keyword, rest, raw, graph, target)
      PROVE  CoverageInv'
  <2>1. /\ Follows(place, keyword, raw, graph, target)
        /\ Indexing(graph) /\ outcome' = "following"
        /\ Enter(documents, target, rest)
    BY <1>1, <1>9 DEF ReferenceEntered
  <2>2. IsLocated(docs, place) /\ keyword \in References(Node(docs, place.doc, place.at))
    BY <1>1, FrameOf DEF IsFrame
  <2>3. Spread(docs, Graph)
    BY DEF CoverageInv
  <2>4. IsLocated(docs, target)
    BY <2>1, <2>2, FollowedToPlace
  <2>5. Extends(Graph, graph)
    BY <2>1, <2>2, FollowedToPlace
  <2>6. Spread(docs, graph) /\ Covered(docs, graph, target.doc, target.at)
    BY <2>1, <2>2, <2>3, FollowedToPlace
  <2>7. Graph'.aliases = graph.aliases /\ Graph'.anchors = graph.anchors
    BY <2>1 DEF Graph, Indexing
  <2>8. Spread(docs, Graph') /\ Covered(docs, Graph', target.doc, target.at)
    BY <2>6, <2>7 DEF Spread, Covered, Aliased
  <2>9. Extends(Graph, Graph')
    BY <2>5, <2>7 DEF Extends
  <2>10. visited \subseteq visited'
    BY <2>1 DEF Enter
  <2>11. StageInv'
    BY <1>1, <2>1, <2>9, <2>10, StillFollowing
  <2> HIDE DEF rest
  <2> QED
    BY <1>1, <1>6, <2>1, <2>4, <2>8, <2>9, <2>11, EnteringCovers
<1> QED
  BY <1>3, <1>7, <1>8, <1>9

LEMMA CoverageStep ==
  ResourcesInv /\ CoverageInv /\ [ResourcesNext]_resourceVars => CoverageInv'
<1> SUFFICES ASSUME ResourcesInv, CoverageInv, [ResourcesNext]_resourceVars PROVE CoverageInv'
  OBVIOUS
<1>1. CASE UNCHANGED resourceVars
  <2>1. UNCHANGED <<input, documents, aliases, anchors, indexed, visited, stack, next, outcome>>
    BY <1>1 DEF resourceVars
  <2>2. Graph' = Graph
    BY <2>1 DEF Graph
  <2> QED
    BY <2>1, <2>2 DEF CoverageInv, StageInv
<1> QED
  BY <1>1, AdmitCovers, IndexDocumentCovers, StartFollowingCovers, FollowDocumentCovers,
     FollowReferenceCovers, FollowChildCovers, LeaveCovers, PrepareCovers DEF ResourcesNext

THEOREM Coverage == ResourcesSpec => []CoverageInv
<1>1. ResourcesInit => CoverageInv
  BY CoverageInit
<1> QED
  BY <1>1, CoverageStep, ResourcesSound, PTL DEF ResourcesSpec
-----------------------------------------------------------------------------
(* There are only so many schemas in the documents.                        *)
LEMMA VisitedIsFinite ==
  ASSUME ResourcesInv
  PROVE  IsFiniteSet(visited)
<1> DEFINE docs == input.documents
           at(d) == { PlaceAt(docs, d, p) : p \in DOMAIN docs[d].nodes }
           all == { at(d) : d \in DOMAIN docs }
<1>1. WellFormed(docs) /\ \A l \in visited : IsLocated(docs, l)
  BY DEF ResourcesInv
<1>2. ASSUME NEW d \in DOMAIN docs PROVE IsFiniteSet(at(d))
  <2>1. IsFiniteSet(DOMAIN docs[d].nodes)
    BY <1>1 DEF WellFormed, IsDocument
  <2> DEFINE f == [p \in DOMAIN docs[d].nodes |-> PlaceAt(docs, d, p)]
  <2>2. f \in Surjection(DOMAIN docs[d].nodes, at(d))
    BY DEF Surjection
  <2> QED
    BY <2>1, <2>2, FS_Surjection DEF ExistsSurjection
<1>3. IsFiniteSet(DOMAIN docs)
  <2>1. DOMAIN docs = 1..Len(docs) /\ Len(docs) \in Int
    BY <1>1, DocumentsAreNumbered
  <2>2. IsFiniteSet(1..Len(docs))
    BY <2>1, FS_Interval
  <2> QED
    BY <2>1, <2>2
<1>4. IsFiniteSet(all)
  <2> DEFINE f == [d \in DOMAIN docs |-> at(d)]
  <2> HIDE DEF at
  <2>1. f \in Surjection(DOMAIN docs, all)
    BY DEF Surjection
  <2> QED
    BY <1>3, <2>1, FS_Surjection DEF ExistsSurjection
<1>5. IsFiniteSet(UNION all)
  <2>1. \A T \in all : IsFiniteSet(T)
    BY <1>2
  <2> HIDE DEF all
  <2> QED
    BY <1>4, <2>1, FS_UNION
<1>6. visited \subseteq UNION all
  BY <1>1 DEF IsLocated
<1> HIDE DEF all
<1> QED
  BY <1>5, <1>6, FS_Subset

(* Below a schema that was followed, every schema with an identity is known*)
(* by it: its location is the one its place gives it.                      *)
LEMMA SubIsPlace ==
  ASSUME ResourcesInv, CoverageInv, NEW l \in visited,
         NEW at \in Children(documents, l.doc, l.at, SchemaKeywords)
  PROVE  /\ Sub(l, at) = PlaceAt(input.documents, l.doc, at)
         /\ at \in Children(input.documents, l.doc, l.at, SchemaKeywords)
<1> DEFINE docs == input.documents
           schema == Node(documents, l.doc, at)
           place == PlaceAt(docs, l.doc, at)
           location == [doc |-> l.doc, at |-> at, base |-> l.base]
<1>1. /\ WellFormed(docs) /\ Agrees(docs, documents) /\ GraphInv(docs, Graph)
      /\ IsLocated(docs, l) /\ Covered(docs, Graph, l.doc, l.at)
  BY DEF ResourcesInv, CoverageInv
<1>2. l.doc \in DOMAIN docs /\ l.at \in DOMAIN docs[l.doc].nodes
  BY <1>1 DEF IsLocated
<1>3. at \in Children(docs, l.doc, l.at, SchemaKeywords)
  <2>1. DOMAIN documents[l.doc].nodes = DOMAIN docs[l.doc].nodes
    BY <1>1, <1>2 DEF Agrees
  <2> QED
    BY <2>1 DEF Children
<1>4. /\ place.base = BaseIn(schema, l.base) /\ place.doc = l.doc /\ place.at = at
      /\ at \in DOMAIN docs[l.doc].nodes
  <2> DEFINE child == [doc |-> l.doc, at |-> at, base |-> BaseIn(schema, l.base)]
  <2>1. IsLocated(docs, child)
    BY <1>1, <1>3, ChildIsLocated
  <2>2. child = PlaceAt(docs, l.doc, at)
    BY <2>1 DEF IsLocated
  <2> QED
    BY <1>3, <2>2 DEF Children
<1>5. DOMAIN schema = DOMAIN Node(docs, l.doc, at)
  BY <1>1, <1>2, <1>4 DEF Agrees, Node
<1>6. at # <<>>
  <2>1. Len(l.at) \in Nat /\ Len(at) = Len(l.at) + 1
    BY <1>1, <1>2, <1>3, PointersAre DEF Children
  <2> QED
    BY <2>1
<1>7. at \in Descendants(docs, l.doc, l.at)
  BY <1>1, <1>2, <1>3, ChildIsBelow
<1> DEFINE known(uri) == uri \in DOMAIN Graph.aliases
           placed(root) == root.doc = l.doc /\ root.at = at
<1>8. Sub(l, at) =
        IF \/ known(l.base) /\ placed(Graph.aliases[l.base])
           \/ ~Has(schema, "id")
        THEN location
        ELSE IF known(ResolveUri(l.base, schema.id)) /\ placed(Graph.aliases[ResolveUri(l.base, schema.id)])
             THEN [location EXCEPT !.base = Graph.aliases[ResolveUri(l.base, schema.id)].base]
             ELSE NoLocation
  BY DEF Sub, Normalize
<1>9. place = [doc |-> l.doc, at |-> at, base |-> place.base]
  BY DEF PlaceAt
<1> HIDE DEF place, schema
<1>10. CASE known(l.base) /\ placed(Graph.aliases[l.base])
  <2>1. IsResource(docs, Graph, l.base, Graph.aliases[l.base])
    BY <1>1, <1>10 DEF GraphInv
  <2>2. Lexical(docs, l.doc, at) = l.base
    BY <1>6, <1>10, <2>1 DEF IsResource, IsIdentity
  <2>3. place.base = l.base
    BY <2>2 DEF place, PlaceAt
  <2> QED
    BY <1>3, <1>8, <1>9, <1>10, <2>3 DEF place
<1>11. CASE ~Has(schema, "id")
  <2>1. place.base = l.base
    BY <1>4, <1>11 DEF BaseIn
  <2> QED
    BY <1>3, <1>8, <1>9, <1>11, <2>1 DEF place
<1>12. CASE Has(schema, "id") /\ ~(known(l.base) /\ placed(Graph.aliases[l.base]))
  <2>1. Identified(docs, l.doc, at)
    BY <1>5, <1>12 DEF Has, Identified
  <2>2. Aliased(docs, Graph, l.doc, at)
    BY <1>1, <1>6, <1>7, <2>1 DEF Covered
  <2>3. place.base = ResolveUri(l.base, schema.id)
    BY <1>4, <1>12 DEF BaseIn
  <2>4. known(place.base) /\ Graph.aliases[place.base] = place
    BY <2>2 DEF Aliased, place, PlaceAt
  <2>5. Sub(l, at) = [location EXCEPT !.base = place.base]
    BY <1>4, <1>8, <1>12, <2>3, <2>4
  <2> QED
    BY <1>3, <1>9, <2>5 DEF place
<1> QED
  BY <1>10, <1>11, <1>12

LEMMA SubsAreFollowed ==
  ASSUME ResourcesInv, CoverageInv, outcome = "prepared", NEW l \in visited,
         NEW at \in Children(documents, l.doc, l.at, SchemaKeywords)
  PROVE  Sub(l, at) \in visited
<1>1. stack = <<>>
  BY DEF ResourcesInv
<1>2. ~Underway(stack, l, at)
  BY <1>1 DEF Underway
<1> QED
  BY <1>2, SubIsPlace DEF CoverageInv

LEMMA SubschemasFollowed == ResourcesInv /\ CoverageInv => SubschemasAreFollowed
BY SubsAreFollowed DEF SubschemasAreFollowed, Subschemas

(* Whatever was followed when the graph is prepared, the subschemas below  *)
(* it were followed as well: projection normalizes their locations without *)
(* a way to fail (located_subschema).                                      *)
THEOREM SubschemasFollow == ResourcesSpec => []SubschemasAreFollowed
BY ResourcesSound, Coverage, SubschemasFollowed, PTL

(* A reference leads to a schema that was followed, or to one of the       *)
(* dialect, which is not in the graph.                                     *)
LEMMA TargetsAreFollowed ==
  ASSUME ResourcesInv, CoverageInv, outcome = "prepared", NEW l \in visited,
         NEW keyword \in References(SchemaOf(l))
  PROVE  Target(l, keyword) = NoLocation \/ Target(l, keyword) \in visited
<1>1. SchemaOf(l) = Node(documents, l.doc, l.at)
  BY DEF SchemaOf
<1> DEFINE reference == Node(documents, l.doc, l.at)[keyword]
           uri == ResolveUri(l.base, reference.to)
<1>2. \/ uri \in BuiltIn
      \/ Resolve(documents, Graph, l.base, reference) \in visited
  BY <1>1, LeadingWhereWritten DEF ReferencesLeadWhereWritten, BuiltInReferenceResolves
<1>3. CASE uri \in BuiltIn
  <2>1. uri \notin DOMAIN Graph.aliases
    BY <1>3 DEF CoverageInv, Spread
  <2>2. ResolveRaw(documents, Graph, l.base, reference) = NoLocation
    BY <2>1 DEF ResolveRaw
  <2> QED
    BY <1>1, <2>2 DEF Target, Resolve
<1> QED
  BY <1>1, <1>2, <1>3 DEF Target
-----------------------------------------------------------------------------
(* The rounds of a closure, each among what can be reached.                *)
Rounds(U) == [reached : SUBSET U, new : SUBSET U]

LEMMA FurtherIs ==
  ASSUME NEW round, NEW steps
  PROVE  /\ Further(round, steps).reached = round.reached \cup Further(round, steps).new
         /\ \A x : x \in Further(round, steps).new <=>
                    x \notin round.reached /\ \E l \in round.new : x \in steps[l]
<1> DEFINE new == (UNION { steps[l] : l \in round.new }) \ round.reached
<1>1. Further(round, steps) = [reached |-> round.reached \cup new, new |-> new]
  BY Zenon DEF Further
<1> DEFINE all == { steps[l] : l \in round.new }
<1>2. \A x : (\E T \in all : x \in T) <=> \E l \in round.new : x \in steps[l]
  BY Zenon
<1>4. new = (UNION all) \ round.reached
  BY Zenon
<1> HIDE DEF all, new
<1>3. \A x : x \in new <=> x \notin round.reached /\ \E T \in all : x \in T
  BY <1>4
<1> QED
  BY <1>1, <1>2, <1>3

LEMMA ClosureRounds ==
  ASSUME NEW U, NEW steps, NEW from \in SUBSET U,
         \A l \in U : steps[l] \subseteq U
  PROVE  \E rounds \in [Nat -> Rounds(U)] :
           /\ rounds[0] = [reached |-> from, new |-> from]
           /\ \A n \in Nat : rounds[n + 1] = Further(rounds[n], steps)
           /\ Closure(from, steps) = rounds[Cardinality(DOMAIN steps)].reached
<1> DEFINE base == [reached |-> from, new |-> from]
           step == [p \in Nat \X Rounds(U) |-> Further(p[2], steps)]
           Value(f, n) == IF n = 0 THEN base ELSE Further(f[n - 1], steps)
<1>1. ASSUME NEW r \in Rounds(U) PROVE Further(r, steps) \in Rounds(U)
  <2>1. r.new \subseteq U /\ r.reached \subseteq U
    BY DEF Rounds
  <2>2. UNION { steps[l] : l \in r.new } \subseteq U
    BY <2>1
  <2> QED
    BY <2>1, <2>2 DEF Further, Rounds
<1>2. step \in [Nat \X Rounds(U) -> Rounds(U)]
  BY <1>1
<1>3. base \in Rounds(U)
  BY DEF Rounds
<1> HIDE DEF base, step
<1>4. PICK g : Iterates(g, Rounds(U), base, step)
  BY <1>2, <1>3, Recursion
<1>5. /\ g \in [Nat -> Rounds(U)] /\ g[0] = base
      /\ \A n \in Nat : g[n + 1] = Further(g[n], steps)
  <2>1. /\ g \in [Nat -> Rounds(U)] /\ g[0] = base
        /\ \A n \in Nat : g[n + 1] = step[<<n + 1, g[n]>>]
    BY <1>4 DEF Iterates
  <2>2. ASSUME NEW n \in Nat PROVE g[n + 1] = Further(g[n], steps)
    <3>1. <<n + 1, g[n]>> \in Nat \X Rounds(U) /\ <<n + 1, g[n]>>[2] = g[n]
      BY <2>1
    <3> QED
      BY <2>1, <3>1 DEF step
  <2> QED
    BY <2>1, <2>2
<1>6. ASSUME NEW n \in Nat PROVE g[n] = Value(g, n)
  <2>1. CASE n = 0
    BY <1>5, <2>1
  <2>2. CASE n # 0
    <3>1. n - 1 \in Nat /\ n - 1 + 1 = n
      BY <2>2
    <3> QED
      BY <1>5, <2>2, <3>1
  <2> QED
    BY <2>1, <2>2
<1>7. g = [n \in Nat |-> Value(g, n)]
  BY <1>5, <1>6
<1> DEFINE all == CHOOSE f : f = [n \in Nat |-> Value(f, n)]
<1>8. all = [n \in Nat |-> Value(all, n)]
  <2> HIDE DEF Value
  <2> QED
    BY <1>7
<1>9. Closure(from, steps) = all[Cardinality(DOMAIN steps)].reached
  BY DEF Closure, base
<1> HIDE DEF all
<1>10. /\ all[0] = base
       /\ \A n \in Nat : all[n + 1] = Further(all[n], steps)
  <2>1. all[0] = base
    BY <1>8
  <2>2. ASSUME NEW n \in Nat PROVE all[n + 1] = Further(all[n], steps)
    <3>1. n + 1 \in Nat /\ n + 1 # 0 /\ n + 1 - 1 = n
      OBVIOUS
    <3> QED
      BY <1>8, <3>1
  <2> QED
    BY <2>1, <2>2
<1>11. \A n \in Nat : all[n] \in Rounds(U)
  <2> SUFFICES ASSUME NEW bad, bad = {n \in Nat : all[n] \notin Rounds(U)}, bad # {}
               PROVE  FALSE
    OBVIOUS
  <2>1. PICK n \in bad : \A k \in bad : n <= k
    BY LeastElement
  <2>2. n # 0
    BY <1>3, <1>10
  <2>3. n - 1 \in Nat /\ n - 1 \notin bad /\ n - 1 + 1 = n
    BY <2>1, <2>2
  <2> QED
    BY <1>1, <1>10, <2>1, <2>3
<1>12. all \in [Nat -> Rounds(U)]
  BY <1>8, <1>11
<1> QED
  BY <1>9, <1>10, <1>12 DEF base

(* What is reached already stays as it is.                                 *)
LEMMA ClosedAlready ==
  ASSUME NEW from, NEW steps, \A l \in from : steps[l] \subseteq from,
         IsFiniteSet(DOMAIN steps)
  PROVE  Closure(from, steps) = from
<1>1. PICK g \in [Nat -> Rounds(from)] :
        /\ g[0] = [reached |-> from, new |-> from]
        /\ \A n \in Nat : g[n + 1] = Further(g[n], steps)
        /\ Closure(from, steps) = g[Cardinality(DOMAIN steps)].reached
  <2>1. ASSUME NEW U, U = from
        PROVE  \E g \in [Nat -> Rounds(U)] :
                 /\ g[0] = [reached |-> from, new |-> from]
                 /\ \A n \in Nat : g[n + 1] = Further(g[n], steps)
                 /\ Closure(from, steps) = g[Cardinality(DOMAIN steps)].reached
    <3>1. from \in SUBSET U /\ \A l \in U : steps[l] \subseteq U
      BY <2>1
    <3> QED
      BY <3>1, ClosureRounds
  <2> QED
    BY <2>1
<1> DEFINE Same(n) == g[n].reached = from
<1>2. ASSUME NEW n \in Nat PROVE g[n].reached \subseteq g[n + 1].reached
  BY <1>1, FurtherIs
<1>3. ASSUME NEW n \in Nat PROVE g[n].reached \subseteq from
  BY DEF Rounds
<1> HIDE DEF Same
<1>4. \A n \in Nat : Same(n)
  <2> SUFFICES ASSUME NEW bad, bad = {n \in Nat : ~Same(n)}, bad # {}
               PROVE  FALSE
    OBVIOUS
  <2>1. PICK n \in bad : \A k \in bad : n <= k
    BY LeastElement
  <2>2. n # 0
    BY <1>1, <2>1 DEF Same
  <2>3. n - 1 \in Nat /\ n - 1 \notin bad /\ n - 1 + 1 = n /\ n \in Nat
    BY <2>1, <2>2
  <2>4. g[n - 1].reached \subseteq g[n].reached /\ g[n].reached \subseteq from
    BY <1>2, <1>3, <2>3
  <2>5. Same(n - 1)
    BY <2>3
  <2>6. Same(n)
    BY <2>4, <2>5 DEF Same
  <2> QED
    BY <2>1, <2>6
<1>5. Cardinality(DOMAIN steps) \in Nat
  BY FS_CardinalityType
<1> QED
  BY <1>1, <1>4, <1>5 DEF Same

(* As many rounds as there are schemas reach what can be reached, and      *)
(* nothing else.                                                           *)
LEMMA ClosureIs ==
  ASSUME NEW steps, IsFiniteSet(DOMAIN steps), NEW U \in SUBSET DOMAIN steps,
         \A l \in U : steps[l] \subseteq U, NEW from \in SUBSET U
  PROVE  /\ from \subseteq Closure(from, steps)
         /\ Closure(from, steps) \subseteq U
         /\ \A l \in Closure(from, steps) : steps[l] \subseteq Closure(from, steps)
         /\ \A C \in SUBSET U : from \subseteq C /\ (\A l \in C : steps[l] \subseteq C)
                                  => Closure(from, steps) \subseteq C
<1> DEFINE N == Cardinality(DOMAIN steps)
<1>1. PICK g \in [Nat -> Rounds(U)] :
        /\ g[0] = [reached |-> from, new |-> from]
        /\ \A n \in Nat : g[n + 1] = Further(g[n], steps)
        /\ Closure(from, steps) = g[N].reached
  BY ClosureRounds
<1>2. N \in Nat
  BY FS_CardinalityType
<1>3. IsFiniteSet(U)
  BY FS_Subset
<1> DEFINE Good(n) ==
             /\ from \subseteq g[n].reached /\ g[n].new \subseteq g[n].reached
             /\ \A l \in g[n].reached \ g[n].new : steps[l] \subseteq g[n].reached
             /\ g[n].new = {} \/ Cardinality(g[n].reached) > n
<1>4. ASSUME NEW n \in Nat PROVE g[n].reached \subseteq U /\ g[n].new \subseteq U
  BY DEF Rounds
<1>5. \A n \in Nat : Good(n)
  <2> SUFFICES ASSUME NEW bad, bad = {n \in Nat : ~Good(n)}, bad # {}
               PROVE  FALSE
    OBVIOUS
  <2>1. PICK n \in bad : \A k \in bad : n <= k
    BY LeastElement
  <2>2. n # 0
    <3>1. IsFiniteSet(from)
      BY <1>3, FS_Subset
    <3>2. Cardinality(from) \in Nat /\ (Cardinality(from) = 0 <=> from = {})
      BY <3>1, FS_EmptySet, FS_CardinalityType
    <3>3. Good(0)
      BY <1>1, <3>2
    <3> QED
      BY <2>1, <3>3
  <2>3. n - 1 \in Nat /\ n - 1 \notin bad /\ n - 1 + 1 = n
    BY <2>1, <2>2
  <2> DEFINE old == g[n - 1]
             new == g[n].new
  <2>4. /\ Good(n - 1)
        /\ g[n].reached = old.reached \cup new
        /\ \A x \in new : \E l \in old.new : x \in steps[l]
        /\ \A l \in old.new : steps[l] \subseteq old.reached \cup new
        /\ new \cap old.reached = {}
    <3>1. Good(n - 1) /\ g[n] = Further(old, steps)
      BY <1>1, <2>3
    <3> HIDE DEF Good
    <3> QED
      BY <3>1, FurtherIs
  <2>5. \A l \in g[n].reached \ g[n].new : steps[l] \subseteq g[n].reached
    BY <2>4
  <2>6. g[n].new = {} \/ Cardinality(g[n].reached) > n
    <3> SUFFICES ASSUME new # {} PROVE Cardinality(g[n].reached) > n
      BY <2>4
    <3>1. old.new # {}
      BY <2>4
    <3>2. Cardinality(old.reached) > n - 1
      BY <2>4, <3>1
    <3>3. PICK x : x \in new
      OBVIOUS
    <3>4. old.reached \cup {x} \subseteq g[n].reached /\ x \notin old.reached
      BY <2>4, <3>3
    <3>5. IsFiniteSet(old.reached) /\ IsFiniteSet(g[n].reached)
      BY <1>3, <1>4, <2>1, <2>3, FS_Subset
    <3> HIDE DEF old, new
    <3>6. /\ Cardinality(old.reached \cup {x}) = Cardinality(old.reached) + 1
          /\ Cardinality(old.reached \cup {x}) <= Cardinality(g[n].reached)
      BY <3>4, <3>5, FS_AddElement, FS_Subset
    <3>7. Cardinality(old.reached) \in Nat /\ Cardinality(g[n].reached) \in Nat
      BY <3>5, FS_CardinalityType
    <3> QED
      BY <2>1, <3>2, <3>6, <3>7
  <2> QED
    BY <2>1, <2>4, <2>5, <2>6
<1>6. g[N].new = {}
  <2> SUFFICES ASSUME Cardinality(g[N].reached) > N PROVE FALSE
    BY <1>2, <1>5
  <2>1. g[N].reached \in SUBSET DOMAIN steps
    BY <1>2, <1>4
  <2>2. IsFiniteSet(g[N].reached) /\ Cardinality(g[N].reached) <= N
    BY <2>1, FS_Subset
  <2>3. Cardinality(g[N].reached) \in Nat
    BY <2>2, FS_CardinalityType
  <2> QED
    BY <1>2, <2>2, <2>3
<1>7. ASSUME NEW C \in SUBSET U, from \subseteq C, \A l \in C : steps[l] \subseteq C
      PROVE  g[N].reached \subseteq C
  <2> DEFINE In(n) == g[n].reached \subseteq C /\ g[n].new \subseteq C
  <2>1. In(0)
    BY <1>1, <1>7
  <2>2. ASSUME NEW n \in Nat, In(n) PROVE In(n + 1)
    <3>0. g[n + 1] = Further(g[n], steps)
      BY <1>1
    <3>1. /\ g[n + 1].reached = g[n].reached \cup g[n + 1].new
          /\ \A x \in g[n + 1].new : \E l \in g[n].new : x \in steps[l]
      BY <3>0, FurtherIs
    <3> QED
      BY <1>7, <2>2, <3>1
  <2>3. \A n \in Nat : In(n)
    <3> HIDE DEF In
    <3> SUFFICES ASSUME NEW bad, bad = {n \in Nat : ~In(n)}, bad # {}
                 PROVE  FALSE
      OBVIOUS
    <3>1. PICK n \in bad : \A k \in bad : n <= k
      BY LeastElement
    <3>2. n # 0
      BY <2>1, <3>1
    <3>3. n - 1 \in Nat /\ n - 1 \notin bad /\ n - 1 + 1 = n
      BY <3>1, <3>2
    <3> QED
      BY <2>2, <3>1, <3>3
  <2> QED
    BY <1>2, <2>3
<1>8. Good(N)
  BY <1>2, <1>5
<1> QED
  BY <1>1, <1>2, <1>4, <1>6, <1>7, <1>8
-----------------------------------------------------------------------------
(* What is read of the graph stays as it is while the graph does.          *)
LEMMA Frozen ==
  ASSUME UNCHANGED resourceVars
  PROVE  /\ UNCHANGED <<input, documents, visited, outcome, Graph>>
         /\ \A l : SchemaOf(l)' = SchemaOf(l)
         /\ \A l, k : Target(l, k)' = Target(l, k)
         /\ \A l, at : Sub(l, at)' = Sub(l, at)
         /\ \A l, k : Below(l, k)' = Below(l, k)
         /\ \A l, k : Uses(l, k)' = Uses(l, k)
<1>1. UNCHANGED <<input, documents, aliases, anchors, indexed, visited, stack, next, outcome>>
  BY DEF resourceVars
<1>2. Graph' = Graph
  BY <1>1 DEF Graph
<1>3. ASSUME NEW l PROVE SchemaOf(l)' = SchemaOf(l)
  BY <1>1 DEF SchemaOf
<1>4. ASSUME NEW l, NEW k PROVE Target(l, k)' = Target(l, k)
  BY <1>1, <1>2, <1>3 DEF Target
<1>5. ASSUME NEW l, NEW at PROVE Sub(l, at)' = Sub(l, at)
  BY <1>1, <1>2 DEF Sub
<1>6. ASSUME NEW l, NEW k PROVE Below(l, k)' = Below(l, k)
  BY <1>1 DEF Below
<1>7. ASSUME NEW l, NEW k PROVE Uses(l, k)' = Uses(l, k)
  BY <1>3, <1>6 DEF Uses
<1> QED
  BY <1>1, <1>2, <1>3, <1>4, <1>5, <1>6, <1>7

LEMMA FrozenSubschemas ==
  ASSUME UNCHANGED resourceVars
  PROVE  \A l, keywords : Subschemas(l, keywords)' = Subschemas(l, keywords)
<1> SUFFICES ASSUME NEW l, NEW keywords
             PROVE  Subschemas(l, keywords)' = Subschemas(l, keywords)
  OBVIOUS
<1>1. documents' = documents /\ \A at : Sub(l, at)' = Sub(l, at)
  BY Frozen
<1> QED
  BY <1>1 DEF Subschemas

LEMMA FrozenOnward ==
  ASSUME UNCHANGED resourceVars
  PROVE  \A l, keywords, barred : Onward(l, keywords, barred)' = Onward(l, keywords, barred)
<1> SUFFICES ASSUME NEW l, NEW keywords, NEW barred
             PROVE  Onward(l, keywords, barred)' = Onward(l, keywords, barred)
  OBVIOUS
<1>1. /\ SchemaOf(l)' = SchemaOf(l) /\ \A k : Target(l, k)' = Target(l, k)
      /\ Uses(l, "if")' = Uses(l, "if")
      /\ \A ks : Subschemas(l, ks)' = Subschemas(l, ks)
  BY Frozen, FrozenSubschemas
<1> DEFINE branches == IF Uses(l, "if") \/ "if" \in keywords THEN {} ELSE {"then", "else"}
<1>2. branches' = branches
  BY <1>1
<1>3. { Target(l, k) : k \in keywords \cap References(SchemaOf(l)) }' =
        { Target(l, k) : k \in keywords \cap References(SchemaOf(l)) }
  BY <1>1
<1> DEFINE targets == { Target(l, k) : k \in keywords \cap References(SchemaOf(l)) }
<1> HIDE DEF branches, targets
<1>4. Onward(l, keywords, barred) =
        Subschemas(l, (keywords \cap SchemaKeywords) \ branches)
          \cup { t \in targets : Place(t) \notin barred }
  BY DEF Onward, branches, targets
<1> QED
  BY <1>1, <1>2, <1>3 DEF Onward, branches, targets
-----------------------------------------------------------------------------
(* The schemas an instance may be validated against: what they refer to    *)
(* and what is below them is among them.                                   *)
StepsFrom(l) == { Target(l, k) : k \in Answered(l) } \cup Subschemas(l, ApplicableKeywords)

Validating == Validated({Root(documents, 1)})

Answering == \A l \in Validating : Answered(l) = References(SchemaOf(l))

LEMMA FrozenValidating ==
  ASSUME UNCHANGED resourceVars
  PROVE  UNCHANGED <<Validating, Answering>>
<1>1. UNCHANGED <<documents, visited>> /\ \A l : SchemaOf(l)' = SchemaOf(l)
  BY Frozen
<1>2. ASSUME NEW l PROVE Answered(l)' = Answered(l)
  <2>1. SchemaOf(l)' = SchemaOf(l) /\ \A k : Target(l, k)' = Target(l, k)
    BY Frozen
  <2> QED
    BY <2>1 DEF Answered
<1>3. ASSUME NEW l PROVE StepsFrom(l)' = StepsFrom(l)
  <2>1. /\ Answered(l)' = Answered(l) /\ \A k : Target(l, k)' = Target(l, k)
        /\ Subschemas(l, ApplicableKeywords)' = Subschemas(l, ApplicableKeywords)
    BY <1>2, Frozen, FrozenSubschemas
  <2> QED
    BY <2>1 DEF StepsFrom
<1>4. [l \in visited |-> StepsFrom(l)]' = [l \in visited |-> StepsFrom(l)]
  BY <1>1, <1>3
<1>5. Validating = Closure({Root(documents, 1)}, [l \in visited |-> StepsFrom(l)])
  BY Zenon DEF Validating, Validated, StepsFrom
<1>6. Validating' = Closure({Root(documents', 1)}, [l \in visited' |-> StepsFrom(l)'])
  BY Zenon DEF Validating, Validated, StepsFrom
<1>7. Validating' = Validating
  BY <1>1, <1>4, <1>5, <1>6
<1>8. Answering' = Answering
  BY <1>1, <1>2, <1>7 DEF Answering
<1> QED
  BY <1>7, <1>8

LEMMA ValidatingIs ==
  ASSUME ResourcesInv, CoverageInv, outcome = "prepared"
  PROVE  /\ Root(documents, 1) \in Validating /\ Validating \subseteq visited
         /\ \A l \in Validating :
              /\ \A k \in Answered(l) : Target(l, k) \in Validating
              /\ Subschemas(l, ApplicableKeywords) \subseteq Validating
<1> DEFINE steps == [l \in visited |-> StepsFrom(l)]
           root == Root(documents, 1)
<1>1. ASSUME NEW l \in visited PROVE StepsFrom(l) \subseteq visited
  <2>1. \A k \in Answered(l) : Target(l, k) \in visited
    BY TargetsAreFollowed DEF Answered
  <2>2. Subschemas(l, ApplicableKeywords) \subseteq Subschemas(l, SchemaKeywords)
    BY DEF Subschemas, Children, SchemaKeywords
  <2>3. Subschemas(l, SchemaKeywords) \subseteq visited
    BY SubschemasFollowed DEF SubschemasAreFollowed
  <2> QED
    BY <2>1, <2>2, <2>3 DEF StepsFrom
<1>2. root \in visited
  <2>1. WellFormed(input.documents) /\ Agrees(input.documents, documents)
    BY DEF ResourcesInv
  <2>2. 1 \in DOMAIN input.documents
    <3>1. input.documents # <<>>
      BY ResourcesAssumption DEF CoverageInv
    <3>2. Len(input.documents) # 0
      BY <2>1, <3>1, EmptySeq DEF WellFormed
    <3> QED
      BY <2>1, <3>2, DocumentsAreNumbered
  <2> QED
    BY <2>1, <2>2, RootIs DEF CoverageInv, StageInv
<1>3. IsFiniteSet(visited)
  BY VisitedIsFinite
<1>4. DOMAIN steps = visited /\ \A l \in visited : steps[l] = StepsFrom(l)
  OBVIOUS
<1>5. Validating = Closure({root}, steps)
  BY Zenon DEF Validating, Validated, StepsFrom
<1> HIDE DEF steps
<1>6. /\ visited \in SUBSET DOMAIN steps /\ {root} \in SUBSET visited
      /\ IsFiniteSet(DOMAIN steps) /\ \A l \in visited : steps[l] \subseteq visited
  BY <1>1, <1>2, <1>3, <1>4
<1>7. /\ {root} \subseteq Closure({root}, steps)
      /\ Closure({root}, steps) \subseteq visited
      /\ \A l \in Closure({root}, steps) : steps[l] \subseteq Closure({root}, steps)
  BY <1>6, ClosureIs
<1>8. \A l \in Validating : StepsFrom(l) \subseteq Validating
  BY <1>4, <1>5, <1>7
<1> QED
  BY <1>5, <1>7, <1>8 DEF StepsFrom
-----------------------------------------------------------------------------
(* Where what can be projected is found.                                   *)
Prepared ==
  ResourcesInv /\ CoverageInv /\ outcome = "prepared" /\ Answering

LEMMA BareIs ==
  ASSUME ResourcesInv, NEW l \in visited
  PROVE  /\ Bare(l) = l /\ NoLocation \notin visited
         /\ IsLocated(input.documents, l)
<1>1. IsLocated(input.documents, l) /\ WellFormed(input.documents)
  BY DEF ResourcesInv
<1>2. l = [doc |-> l.doc, at |-> l.at, base |-> l.base]
  BY <1>1 DEF IsLocated, PlaceAt
<1>3. NoLocation \notin visited
  <2>1. ~IsLocated(input.documents, NoLocation)
    BY <1>1, DocumentsAreNumbered DEF IsLocated, NoLocation
  <2> QED
    BY <2>1 DEF ResourcesInv
<1> QED
  BY <1>1, <1>2, <1>3 DEF Bare

(* The pointers below a schema.                                            *)
LEMMA NodesAre ==
  ASSUME ResourcesInv, NEW l \in visited
  PROVE  /\ l.doc \in DOMAIN input.documents /\ l.at \in DOMAIN input.documents[l.doc].nodes
         /\ DOMAIN documents[l.doc].nodes = DOMAIN input.documents[l.doc].nodes
         /\ l.at \in Seq(Steps(input.documents)) /\ Len(l.at) \in Nat
         /\ IsDocument(input.documents[l.doc])
<1>1. /\ WellFormed(input.documents) /\ Agrees(input.documents, documents)
      /\ IsLocated(input.documents, l)
  BY DEF ResourcesInv
<1>2. l.doc \in DOMAIN input.documents /\ l.at \in DOMAIN input.documents[l.doc].nodes
  BY <1>1 DEF IsLocated
<1> QED
  BY <1>1, <1>2, PointersAre DEF Agrees, WellFormed

LEMMA ChildSteps ==
  ASSUME ResourcesInv, NEW l \in visited, NEW keywords,
         NEW below \in Children(documents, l.doc, l.at, keywords)
  PROVE  /\ below = Append(l.at, Last(below)) /\ Last(below)[1] \in keywords
         /\ IsStep(Last(below))
<1> DEFINE docs == input.documents
<1>1. /\ below \in DOMAIN docs[l.doc].nodes /\ Len(below) = Len(l.at) + 1
      /\ IsPrefix(l.at, below) /\ Last(below)[1] \in keywords
  BY NodesAre DEF Children
<1>2. WellFormed(docs) /\ l.doc \in DOMAIN docs /\ l.at \in Seq(Steps(docs)) /\ Len(l.at) \in Nat
  BY NodesAre DEF ResourcesInv
<1>3. below \in Seq(Steps(docs))
  BY <1>1, <1>2, PointersAre
<1>4. l.at = SubSeq(below, 1, Len(l.at))
  BY <1>1, <1>2, <1>3, LongerPrefix
<1>5. Last(below) = below[Len(below)] /\ Len(below) \in DOMAIN below
  BY <1>1, <1>2, <1>3, LenProperties DEF Last
<1>6. IsStep(Last(below))
  BY <1>1, <1>2, <1>5 DEF WellFormed, IsDocument
<1>7. below = Append(l.at, Last(below))
  <2>1. /\ Len(Append(l.at, Last(below))) = Len(l.at) + 1
        /\ Append(l.at, Last(below))[Len(l.at) + 1] = Last(below)
        /\ \A i \in 1..Len(l.at) : Append(l.at, Last(below))[i] = l.at[i]
        /\ Append(l.at, Last(below)) \in Seq(Steps(docs))
    <3>1. Last(below) \in Steps(docs)
      BY <1>3, <1>5, ElementOfSeq, LenProperties
    <3> QED
      BY <1>2, <3>1, AppendProperties
  <2>2. \A i \in 1..Len(l.at) : below[i] = l.at[i]
    BY <1>1, <1>2, <1>3, <1>4, SubSeqProperties
  <2>3. \A i \in 1..Len(l.at) + 1 : below[i] = Append(l.at, Last(below))[i]
    BY <1>1, <1>2, <1>5, <2>1, <2>2
  <2> QED
    BY <1>1, <1>3, <2>1, <2>3, SeqEqual
<1> QED
  BY <1>1, <1>6, <1>7

(* The branches of an allOf are numbered.                                  *)
LEMMA BranchesAre ==
  ASSUME ResourcesInv, NEW l \in visited
  PROVE  Below(l, "allOf") =
           { Append(l.at, <<"allOf", ToString(i)>>) : i \in 1..Cardinality(Below(l, "allOf")) }
<1> DEFINE document == input.documents[l.doc]
           branches == Children(<<document>>, 1, l.at, {"allOf"})
<1>1. /\ l.at \in DOMAIN document.nodes /\ IsDocument(document)
      /\ DOMAIN documents[l.doc].nodes = DOMAIN document.nodes
  BY NodesAre
<1>2. branches = { Append(l.at, <<"allOf", ToString(i)>>) : i \in 1..Cardinality(branches) }
  BY <1>1, Zenon DEF IsDocument
<1>3. Below(l, "allOf") = branches
  <2>1. {"allOf"} \cap SchemaKeywords = {"allOf"}
    BY DEF SchemaKeywords, ApplicableKeywords
  <2>2. <<document>>[1] = document
    OBVIOUS
  <2> QED
    BY <1>1, <2>1, <2>2 DEF Below, Children
<1> QED
  BY <1>2, <1>3

LEMMA BranchIsBelow ==
  ASSUME ResourcesInv, NEW l \in visited
  PROVE  Subschemas(l, {"allOf"}) = { Branches(l)[i] : i \in DOMAIN Branches(l) }
<1> DEFINE n == Cardinality(Below(l, "allOf"))
<1>1. /\ DOMAIN Branches(l) = 1..n
      /\ \A i \in 1..n : Branches(l)[i] = Sub(l, Append(l.at, <<"allOf", ToString(i)>>))
  BY DEF Branches
<1>2. Below(l, "allOf") = Children(documents, l.doc, l.at, {"allOf"})
  <2>1. {"allOf"} \cap SchemaKeywords = {"allOf"}
    BY DEF SchemaKeywords, ApplicableKeywords
  <2> QED
    BY <2>1 DEF Below
<1>3. Subschemas(l, {"allOf"}) = { Sub(l, at) : at \in Below(l, "allOf") }
  BY <1>2 DEF Subschemas
<1>4. Below(l, "allOf") = { Append(l.at, <<"allOf", ToString(i)>>) : i \in 1..n }
  BY BranchesAre
<1> HIDE DEF n
<1> QED
  BY <1>1, <1>3, <1>4

(* What applies along with a schema.                                       *)
OnwardFrom(l) == Onward(Bare(l), {"ref", "allOf"}, {})

LEMMA OnwardIs ==
  ASSUME Prepared, NEW l, Bare(l) \in Validating
  PROVE  /\ OnwardFrom(l) =
              { Target(l, k) : k \in {"ref"} \cap DOMAIN SchemaOf(l) }
                \cup { Branches(l)[i] : i \in DOMAIN Branches(l) }
         /\ OnwardFrom(l) \subseteq Validating
<1> DEFINE b == Bare(l)
<1>1. b \in visited /\ b.doc = l.doc /\ b.at = l.at /\ b.base = l.base
  BY ValidatingIs DEF Prepared, Bare
<1>2. SchemaOf(b) = SchemaOf(l)
  BY <1>1 DEF SchemaOf
<1>3. \A k : Target(b, k) = Target(l, k)
  BY <1>1, <1>2 DEF Target
<1>4. \A at : Sub(b, at) = Sub(l, at)
  BY <1>1 DEF Sub
<1>5. Branches(b) = Branches(l)
  <2>1. Below(b, "allOf") = Below(l, "allOf")
    BY <1>1 DEF Below
  <2> QED
    BY <1>1, <1>4, <2>1 DEF Branches
<1> DEFINE branches == IF Uses(b, "if") \/ "if" \in {"ref", "allOf"} THEN {} ELSE {"then", "else"}
           targets == { Target(b, k) : k \in {"ref", "allOf"} \cap References(SchemaOf(b)) }
<1>6. Onward(b, {"ref", "allOf"}, {}) =
        Subschemas(b, ({"ref", "allOf"} \cap SchemaKeywords) \ branches)
          \cup { t \in targets : Place(t) \notin {} }
  BY Zenon DEF Onward
<1>7. ({"ref", "allOf"} \cap SchemaKeywords) \ branches = {"allOf"}
  BY DEF SchemaKeywords, ApplicableKeywords
<1>8. {"ref", "allOf"} \cap References(SchemaOf(b)) = {"ref"} \cap DOMAIN SchemaOf(l)
  BY <1>2 DEF References, ReferenceKeywords
<1>9. targets = { Target(l, k) : k \in {"ref"} \cap DOMAIN SchemaOf(l) }
  BY <1>3, <1>8
<1>10. Subschemas(b, {"allOf"}) = { Branches(l)[i] : i \in DOMAIN Branches(l) }
  BY <1>1, <1>5, BranchIsBelow DEF Prepared
<1>11. Subschemas(b, {"allOf"}) \subseteq Validating
  <2>1. Subschemas(b, ApplicableKeywords) \subseteq Validating
    BY ValidatingIs DEF Prepared
  <2>2. Subschemas(b, {"allOf"}) \subseteq Subschemas(b, ApplicableKeywords)
    BY DEF Subschemas, Children, ApplicableKeywords
  <2> QED
    BY <2>1, <2>2
<1>12. targets \subseteq Validating
  <2>1. \A k \in References(SchemaOf(b)) : Target(b, k) \in Validating
    BY ValidatingIs DEF Prepared, Answering
  <2> QED
    BY <2>1
<1> HIDE DEF targets, branches
<1>13. OnwardFrom(l) = Subschemas(b, {"allOf"}) \cup targets
  <2>1. { t \in targets : Place(t) \notin {} } = targets
    OBVIOUS
  <2> QED
    BY <1>6, <1>7, <2>1 DEF OnwardFrom
<1> QED
  BY <1>9, <1>10, <1>11, <1>12, <1>13
-----------------------------------------------------------------------------
(* The schemas that apply at a binding, without how they were reached.     *)
Bares(schemas) == { Bare(l) : l \in schemas }

Known(schemas) == IsFiniteSet(schemas) /\ Bares(schemas) \subseteq Validating

(* Whatever applies along with one of them is among them.                  *)
Complete(schemas) ==
  Known(schemas) /\ \A l \in schemas : OnwardFrom(l) \subseteq Bares(schemas)

(* A control or a list takes what its schemas admit.                       *)
Admitted(n, v) ==
  \A l \in Bares(n.schemas) :
    Admits(l, v) /\ (n.choices # {} => SchemaOf(l) # [boolean |-> FALSE])

TakesAdmitted(n) == \A v \in input.literals : Takes(n, v) <=> Admitted(n, v)

SeedAdmitted(n) ==
  /\ n.seed # NoSeed => Admitted(n, n.seed)
  /\ Last(n.binding) = Item => n.seed # NoSeed

LengthsAdmitted(n) ==
  \A length \in 0..MaxIndex - 1 :
    TakesLength(n, length) <=> \A l \in Bares(n.schemas) : AdmitsLength(l, length)

NodeInv(n) ==
  /\ n.what \in {"control", "array"} => Complete(n.schemas)
  /\ n.what = "control" => TakesAdmitted(n) /\ SeedAdmitted(n)
  /\ n.what = "array" => LengthsAdmitted(n)

(* How far the expansion came: what applies along with a schema that was   *)
(* expanded was expanded as well, or is pending.                           *)
Expansion(toExpand, keys, found, cyclic) ==
  /\ toExpand \in Seq(Range(toExpand)) /\ Bares(Range(toExpand)) \subseteq Validating
  /\ \A l \in Range(toExpand) : DOMAIN l = {"doc", "at", "base", "memberships", "path"}
  /\ Known(found)
  /\ \A key \in keys : key[1] \in Bares(found)
  /\ cyclic = {} =>
       \A l \in found : OnwardFrom(l) \subseteq Bares(found) \cup Bares(Range(toExpand))

IsBinding(binding) == binding \in Seq(Range(binding))

SubjectInv(about) ==
  /\ Complete(about.list) /\ IsBinding(about.binding)
  /\ about.of = "property" => Last(about.binding) # Item

FrameInv(frame) ==
  /\ DOMAIN frame = {"binding", "schemas", "left", "active", "template", "list"}
  /\ Known(frame.schemas) /\ frame.left \subseteq PropertyNames(frame.schemas)
  /\ Complete(frame.list) /\ IsBinding(frame.binding)

AgendaInv(frames) ==
  frames \in Seq(Range(frames)) /\ \A i \in DOMAIN frames : FrameInv(frames[i])

ProjectionInv ==
  /\ stage = "waiting" =>
       /\ pending = <<>> /\ expanded = {} /\ seen = {} /\ agenda = <<>>
       /\ subject = [of |-> "root", binding |-> <<>>, list |-> {}] /\ projected = {}
  /\ stage # "waiting" => outcome = "prepared"
  /\ stage \notin {"waiting", "unsupported-reference"} => Answering
  /\ Expansion(pending, seen, expanded, cycles) /\ SubjectInv(subject) /\ AgendaInv(agenda)
  /\ \A n \in projected : NodeInv(n)
-----------------------------------------------------------------------------
LEMMA FrozenAdmitted ==
  ASSUME UNCHANGED resourceVars
  PROVE  \A n, v : Admitted(n, v)' = Admitted(n, v)
<1>1. ASSUME NEW l, NEW v PROVE Admits(l, v)' = Admits(l, v)
  <2>1. /\ SchemaOf(l)' = SchemaOf(l) /\ \A k : Below(l, k)' = Below(l, k)
        /\ documents' = documents
    BY Frozen
  <2> DEFINE matching(keyword) ==
        { at \in Below(l, keyword) :
            LET branch == Node(documents, l.doc, at)
            IN /\ JsonEqual(branch.const, v)
               /\ Has(branch, "type") => MatchesDeclaration(v, branch.type) }
  <2>2. matching("oneOf")' = matching("oneOf") /\ matching("anyOf")' = matching("anyOf")
    BY <2>1
  <2> QED
    BY <2>1, <2>2 DEF Admits
<1>2. ASSUME NEW n, NEW v PROVE Admitted(n, v)' = Admitted(n, v)
  <2>1. \A l : SchemaOf(l)' = SchemaOf(l)
    BY Frozen
  <2> QED
    BY <1>1, <2>1 DEF Admitted
<1> QED
  BY <1>2

LEMMA FrozenComplete ==
  ASSUME UNCHANGED resourceVars
  PROVE  \A S : Known(S)' = Known(S) /\ Complete(S)' = Complete(S)
<1>1. ASSUME NEW S PROVE Known(S)' = Known(S)
  BY FrozenValidating DEF Known
<1>2. ASSUME NEW l PROVE OnwardFrom(l)' = OnwardFrom(l)
  BY FrozenOnward DEF OnwardFrom
<1>3. ASSUME NEW S PROVE Complete(S)' = Complete(S)
  BY <1>1, <1>2 DEF Complete
<1> QED
  BY <1>1, <1>3

LEMMA FrozenNode ==
  ASSUME UNCHANGED resourceVars
  PROVE  \A n : NodeInv(n)' = NodeInv(n)
<1>1. input' = input /\ \A l : SchemaOf(l)' = SchemaOf(l)
  BY Frozen
<1>2. ASSUME NEW l, NEW length PROVE AdmitsLength(l, length)' = AdmitsLength(l, length)
  BY <1>1 DEF AdmitsLength
<1>3. ASSUME NEW n PROVE LengthsAdmitted(n)' = LengthsAdmitted(n)
  BY <1>2 DEF LengthsAdmitted
<1>4. ASSUME NEW n PROVE TakesAdmitted(n)' = TakesAdmitted(n) /\ SeedAdmitted(n)' = SeedAdmitted(n)
  BY <1>1, FrozenAdmitted DEF TakesAdmitted, SeedAdmitted
<1> QED
  BY <1>3, <1>4, FrozenComplete DEF NodeInv

LEMMA FrozenExpansion ==
  ASSUME UNCHANGED resourceVars
  PROVE  /\ \A p, k, f, c : Expansion(p, k, f, c)' = Expansion(p, k, f, c)
         /\ \A s : SubjectInv(s)' = SubjectInv(s)
         /\ \A s : AgendaInv(s)' = AgendaInv(s)
<1>1. Validating' = Validating /\ \A l, k : Below(l, k)' = Below(l, k)
  BY Frozen, FrozenValidating
<1>2. ASSUME NEW l PROVE OnwardFrom(l)' = OnwardFrom(l)
  BY FrozenOnward DEF OnwardFrom
<1>3. ASSUME NEW S PROVE PropertyNames(S)' = PropertyNames(S)
  BY <1>1 DEF PropertyNames
<1>4. ASSUME NEW p, NEW k, NEW f, NEW c PROVE Expansion(p, k, f, c)' = Expansion(p, k, f, c)
  BY <1>1, <1>2, FrozenComplete DEF Expansion
<1>5. ASSUME NEW s PROVE SubjectInv(s)' = SubjectInv(s)
  BY FrozenComplete DEF SubjectInv
<1>6. ASSUME NEW s PROVE FrameInv(s)' = FrameInv(s)
  BY <1>3, FrozenComplete DEF FrameInv
<1>7. ASSUME NEW s PROVE AgendaInv(s)' = AgendaInv(s)
  BY <1>6 DEF AgendaInv
<1> QED
  BY <1>4, <1>5, <1>7

(* A step that leaves the graph alone.                                     *)
LEMMA ProjectionInvAfter ==
  ASSUME UNCHANGED resourceVars, outcome = "prepared", stage' # "waiting",
         stage' # "unsupported-reference" => Answering,
         Expansion(pending', seen', expanded', cycles'), SubjectInv(subject'),
         AgendaInv(agenda'), \A n \in projected' : NodeInv(n)
  PROVE  ProjectionInv'
<1>1. outcome' = "prepared" /\ Answering' = Answering
  BY Frozen, FrozenValidating
<1>2. Expansion(pending, seen, expanded, cycles)'
  BY FrozenExpansion
<1>3. SubjectInv(subject)'
  BY FrozenExpansion
<1>4. AgendaInv(agenda)'
  BY FrozenExpansion
<1>5. \A n \in projected' : NodeInv(n)'
  BY FrozenNode
<1> QED
  BY <1>1, <1>2, <1>3, <1>4, <1>5 DEF ProjectionInv
-----------------------------------------------------------------------------
(* Values that are equal as JSON values have the same types.               *)
LEMMA EqualValues ==
  /\ \A v : JsonEqual(v, v)
  /\ \A v, w : JsonEqual(v, w) => JsonEqual(w, v)
  /\ \A u, v, w : JsonEqual(u, v) /\ JsonEqual(v, w) => JsonEqual(u, w)
  /\ \A v, w : JsonEqual(v, w) =>
       /\ v.kind = w.kind /\ \A kind : HasType(v, kind) <=> HasType(w, kind)
       /\ \A kinds : MatchesDeclaration(v, kinds) <=> MatchesDeclaration(w, kinds)
       /\ \A values : Among(v, values) <=> Among(w, values)
<1>1. \A v : JsonEqual(v, v)
  BY DEF JsonEqual
<1>2. \A v, w : JsonEqual(v, w) => JsonEqual(w, v)
  BY DEF JsonEqual, NumbersEqual
<1>3. \A u, v, w : JsonEqual(u, v) /\ JsonEqual(v, w) => JsonEqual(u, w)
  BY DEF JsonEqual, NumbersEqual
<1>4. ASSUME NEW v, NEW w, JsonEqual(v, w)
      PROVE  /\ v.kind = w.kind /\ \A kind : HasType(v, kind) <=> HasType(w, kind)
             /\ \A kinds : MatchesDeclaration(v, kinds) <=> MatchesDeclaration(w, kinds)
             /\ \A values : Among(v, values) <=> Among(w, values)
  <2>1. v.kind = w.kind
    BY <1>4 DEF JsonEqual
  <2>2. \A kind : HasType(v, kind) <=> HasType(w, kind)
    BY <1>4 DEF JsonEqual, NumbersEqual, HasType, NumberIsInteger
  <2>3. \A kinds : MatchesDeclaration(v, kinds) <=> MatchesDeclaration(w, kinds)
    BY <2>2 DEF MatchesDeclaration
  <2>4. \A values : Among(v, values) <=> Among(w, values)
    BY <1>2, <1>3, <1>4 DEF Among
  <2> QED
    BY <2>1, <2>2, <2>3, <2>4
<1> QED
  BY <1>1, <1>2, <1>3, <1>4

LEMMA DistinctIs ==
  ASSUME NEW values
  PROVE  /\ Distinct(values) \subseteq values
         /\ \A v : Among(v, Distinct(values)) <=> Among(v, values)
<1> DEFINE alike(v) == { w \in values : JsonEqual(v, w) }
<1>1. Distinct(values) = { v \in values : v = First(alike(v)) }
  BY DEF Distinct
<1>2. ASSUME NEW v, NEW w \in values, JsonEqual(v, w)
      PROVE  Among(v, Distinct(values))
  <2>1. w \in alike(w)
    BY EqualValues
  <2>2. First(alike(w)) \in alike(w)
    BY <2>1 DEF First
  <2>3. PICK x : x = First(alike(w))
    OBVIOUS
  <2>4. x \in values /\ JsonEqual(w, x)
    BY <2>2, <2>3
  <2>5. alike(x) = alike(w)
    BY <2>4, EqualValues
  <2>6. x = First(alike(x))
    BY <2>3, <2>5
  <2>7. JsonEqual(v, x)
    BY <1>2, <2>4, EqualValues
  <2> QED
    BY <1>1, <2>4, <2>6, <2>7 DEF Among
<1>3. Distinct(values) \subseteq values
  BY <1>1
<1> QED
  BY <1>2, <1>3 DEF Among
-----------------------------------------------------------------------------
(* Schemas that keep to their dialect.                                     *)
Typed(schemas, v) ==
  \A l \in schemas : Has(SchemaOf(l), "type") => MatchesDeclaration(v, SchemaOf(l).type)

LEMMA UsesHere ==
  ASSUME NEW schemas, NEW keyword, keyword \notin SchemaKeywords
  PROVE  Using(schemas, keyword) = { l \in schemas : Has(SchemaOf(l), keyword) }
<1>1. {keyword} \cap SchemaKeywords = {}
  OBVIOUS
<1>2. \A l : Below(l, keyword) = {}
  BY <1>1 DEF Below, Children
<1> QED
  BY <1>2 DEF Using, Uses

(* What all declared types leave tells which values have them.             *)
Left(schemas) == { k \in Kinds : \A l \in Using(schemas, "type") : k \in DeclaredKinds(l) }

LEMMA LeftAre ==
  ASSUME NEW schemas, NEW v, IsValue(v),
         \A l \in schemas : Has(SchemaOf(l), "type") => SchemaOf(l).type \subseteq Kinds
  PROVE  /\ v.kind # "number" => (Typed(schemas, v) <=> v.kind \in Left(schemas))
         /\ v.kind = "number" /\ NumberIsInteger(v.number) =>
              (Typed(schemas, v) <=> "integer" \in Left(schemas))
         /\ v.kind = "number" /\ ~NumberIsInteger(v.number) =>
              (Typed(schemas, v) <=> "number" \in Left(schemas))
<1>1. Using(schemas, "type") = { l \in schemas : Has(SchemaOf(l), "type") }
  <2>1. "type" \notin SchemaKeywords
    BY DEF SchemaKeywords, ApplicableKeywords
  <2> QED
    BY <2>1, UsesHere
<1>2. v.kind \in Kinds /\ v.kind # "integer"
  BY DEF IsValue
<1>3. ASSUME NEW l \in Using(schemas, "type")
      PROVE  /\ v.kind # "number" =>
                  (MatchesDeclaration(v, SchemaOf(l).type) <=> v.kind \in DeclaredKinds(l))
             /\ v.kind = "number" /\ NumberIsInteger(v.number) =>
                  (MatchesDeclaration(v, SchemaOf(l).type) <=> "integer" \in DeclaredKinds(l))
             /\ v.kind = "number" /\ ~NumberIsInteger(v.number) =>
                  (MatchesDeclaration(v, SchemaOf(l).type) <=> "number" \in DeclaredKinds(l))
  <2> DEFINE type == SchemaOf(l).type
  <2>1. type \subseteq Kinds
    BY <1>1
  <2>2. DeclaredKinds(l) = IF "number" \in type THEN type \cup {"integer"} ELSE type
    BY DEF DeclaredKinds
  <2>3. MatchesDeclaration(v, type) <=> \E k \in type : HasType(v, k)
    BY DEF MatchesDeclaration
  <2> HIDE DEF type
  <2>4. CASE v.kind # "number"
    <3>1. \A k : HasType(v, k) <=> k # "integer" /\ v.kind = k
      BY <2>4 DEF HasType
    <3> QED
      BY <1>2, <2>2, <2>3, <2>4, <3>1 DEF type
  <2>5. CASE v.kind = "number" /\ NumberIsInteger(v.number)
    <3>1. \A k : HasType(v, k) <=> k \in {"integer", "number"}
      BY <2>5 DEF HasType
    <3> QED
      BY <2>2, <2>3, <2>5, <3>1 DEF type
  <2>6. CASE v.kind = "number" /\ ~NumberIsInteger(v.number)
    <3>1. \A k : HasType(v, k) <=> k = "number"
      BY <2>6 DEF HasType
    <3> QED
      BY <2>2, <2>3, <2>6, <3>1 DEF type
  <2> QED
    BY <2>4, <2>5, <2>6
<1>4. "integer" \in Kinds /\ "number" \in Kinds
  BY DEF Kinds
<1>5. Typed(schemas, v) <=>
        \A l \in Using(schemas, "type") : MatchesDeclaration(v, SchemaOf(l).type)
  BY <1>1 DEF Typed
<1> QED
  BY <1>2, <1>3, <1>4, <1>5 DEF Left

LEMMA InferredKind ==
  ASSUME NEW schemas
  PROVE  /\ "number" \in Left(schemas) => "integer" \in Left(schemas)
         /\ InferKind(schemas) = "null" =>
              /\ Using(schemas, "type") # {} /\ Left(schemas) = {"null"}
         /\ InferKind(schemas) \in Scalars =>
              /\ Using(schemas, "type") # {}
              /\ Left(schemas) \ {"null"} =
                   IF InferKind(schemas) = "number" THEN {"number", "integer"}
                   ELSE {InferKind(schemas)}
         /\ InferKind(schemas) \in Kinds \cup {NoKind}
<1> DEFINE kinds == Left(schemas)
           rest == kinds \ {"null"}
           declared == Using(schemas, "type")
<1>1. "number" \in kinds => "integer" \in kinds
  BY DEF Left, DeclaredKinds, Kinds
<1>2. InferKind(schemas) =
        CASE declared = {} -> NoKind
          [] declared # {} /\ rest = {} -> IF "null" \in kinds THEN "null" ELSE NoKind
          [] declared # {} /\ rest # {} ->
               IF "null" \in kinds /\ rest \cap {"object", "array"} # {} THEN NoKind
               ELSE IF rest = {"number", "integer"} THEN "number"
               ELSE IF Cardinality(rest) = 1 THEN First(rest) ELSE NoKind
  BY Zenon DEF InferKind, Left
<1>3. kinds \subseteq Kinds
  BY DEF Left
<1>4. ASSUME Cardinality(rest) = 1 PROVE \E k \in rest : rest = {k} /\ First(rest) = k
  <2>1. IsFiniteSet(Kinds)
    <3>1. IsFiniteSet({})
      BY FS_EmptySet
    <3>2. \A S, x : IsFiniteSet(S) => IsFiniteSet(S \cup {x})
      BY FS_AddElement
    <3>3. Kinds = {} \cup {"string"} \cup {"number"} \cup {"integer"} \cup {"boolean"}
                    \cup {"null"} \cup {"object"} \cup {"array"}
      BY DEF Kinds
    <3> QED
      BY <3>1, <3>2, <3>3
  <2>2. IsFiniteSet(rest)
    BY <1>3, <2>1, FS_Subset
  <2>3. PICK k : rest = {k}
    BY <1>4, <2>2, FS_Singleton
  <2> QED
    BY <2>3 DEF First
<1> HIDE DEF kinds
<1>5. CASE declared = {}
  <2>1. InferKind(schemas) = NoKind
    BY <1>2, <1>5
  <2> QED
    BY <1>1, <2>1 DEF NoKind, Scalars, kinds
<1>6. CASE declared # {} /\ rest = {}
  <2>1. InferKind(schemas) = IF "null" \in kinds THEN "null" ELSE NoKind
    BY <1>2, <1>6
  <2> QED
    BY <1>1, <1>6, <2>1 DEF NoKind, Scalars, Kinds, kinds
<1>7. CASE declared # {} /\ rest # {}
  <2> DEFINE single == IF Cardinality(rest) = 1 THEN First(rest) ELSE NoKind
  <2>1. InferKind(schemas) =
          IF "null" \in kinds /\ rest \cap {"object", "array"} # {} THEN NoKind
          ELSE IF rest = {"number", "integer"} THEN "number" ELSE single
    BY <1>2, <1>7
  <2>2. single = NoKind \/ (single \in rest /\ rest = {single})
    BY <1>4
  <2> HIDE DEF single
  <2> QED
    BY <1>1, <1>3, <1>7, <2>1, <2>2 DEF NoKind, Scalars, Kinds, kinds
<1> QED
  BY <1>5, <1>6, <1>7

(* A value has the inferred kind, or is null where it may be, if and only  *)
(* if it has the types all schemas declare.                                *)
LEMMA KindIsTyped ==
  ASSUME NEW schemas, NEW v, IsValue(v),
         \A l \in schemas : Has(SchemaOf(l), "type") => SchemaOf(l).type \subseteq Kinds
  PROVE  /\ InferKind(schemas) \in Scalars =>
              (Typed(schemas, v) <=>
                 HasType(v, InferKind(schemas)) \/ (IsNull(v) /\ AcceptsNull(schemas)))
         /\ InferKind(schemas) = "null" => (Typed(schemas, v) <=> v = NullValue)
<1> DEFINE kind == InferKind(schemas)
           left == Left(schemas)
<1>1. /\ v.kind # "number" => (Typed(schemas, v) <=> v.kind \in left)
      /\ v.kind = "number" /\ NumberIsInteger(v.number) =>
           (Typed(schemas, v) <=> "integer" \in left)
      /\ v.kind = "number" /\ ~NumberIsInteger(v.number) =>
           (Typed(schemas, v) <=> "number" \in left)
  BY LeftAre
<1>2. v.kind \in Kinds /\ v.kind # "integer" /\ (v.kind = "null" <=> v = NullValue)
  BY DEF IsValue, NullValue
<1>3. CASE kind = "null"
  <2>1. left = {"null"}
    BY <1>3, InferredKind
  <2> QED
    BY <1>1, <1>2, <1>3, <2>1 DEF Scalars
<1>4. CASE kind \in Scalars
  <2>1. /\ Using(schemas, "type") # {}
        /\ left \ {"null"} = IF kind = "number" THEN {"number", "integer"} ELSE {kind}
    BY <1>4, InferredKind
  <2>2. AcceptsNull(schemas) <=> "null" \in left
    <3>1. \A l : "null" \in DeclaredKinds(l) <=> "null" \in SchemaOf(l).type
      BY DEF DeclaredKinds
    <3> QED
      BY <2>1, <3>1 DEF AcceptsNull, Left, Kinds
  <2>3. IsNull(v) <=> v.kind = "null"
    BY DEF IsNull
  <2> HIDE DEF left, kind
  <2>4. CASE v.kind # "number"
    <3>1. HasType(v, kind) <=> kind # "integer" /\ v.kind = kind
      BY <2>4 DEF HasType
    <3> QED
      BY <1>1, <1>2, <1>4, <2>1, <2>2, <2>3, <2>4, <3>1 DEF Scalars, kind
  <2>5. CASE v.kind = "number" /\ NumberIsInteger(v.number)
    <3>1. HasType(v, kind) <=> kind \in {"integer", "number"}
      BY <2>5 DEF HasType
    <3> QED
      BY <1>1, <1>2, <1>4, <2>1, <2>2, <2>3, <2>5, <3>1 DEF Scalars, kind
  <2>6. CASE v.kind = "number" /\ ~NumberIsInteger(v.number)
    <3>1. HasType(v, kind) <=> kind = "number"
      BY <2>6 DEF HasType
    <3> QED
      BY <1>1, <1>2, <1>4, <2>1, <2>2, <2>3, <2>6, <3>1 DEF Scalars, kind
  <2> QED
    BY <2>4, <2>5, <2>6
<1> QED
  BY <1>3, <1>4
-----------------------------------------------------------------------------
(* The branches of a oneOf or an anyOf a value matches, when they are      *)
(* constants.                                                              *)
Matching(l, keyword, v) ==
  { at \in Below(l, keyword) :
      LET branch == Node(documents, l.doc, at)
      IN /\ JsonEqual(branch.const, v)
         /\ Has(branch, "type") => MatchesDeclaration(v, branch.type) }

LEMMA AdmitsIs ==
  ASSUME NEW l, NEW v
  PROVE  Admits(l, v) <=>
           /\ Has(SchemaOf(l), "type")  => MatchesDeclaration(v, SchemaOf(l).type)
           /\ Has(SchemaOf(l), "enum")  => Among(v, ToSet(SchemaOf(l).enum))
           /\ Has(SchemaOf(l), "const") => JsonEqual(SchemaOf(l).const, v)
           /\ Below(l, "oneOf") # {} => Cardinality(Matching(l, "oneOf", v)) = 1
           /\ Below(l, "anyOf") # {} => Matching(l, "anyOf", v) # {}
BY Zenon DEF Admits, Matching

LEMMA MatchingIs ==
  ASSUME NEW l, NEW keyword, IsConstantChoice(l, keyword), NEW v
  PROVE  /\ Among(v, ConstantChoices(l, keyword)) <=> Matching(l, keyword, v) # {}
         /\ keyword = "oneOf" =>
              (Matching(l, keyword, v) # {} <=> Cardinality(Matching(l, keyword, v)) = 1)
<1> DEFINE at(a) == Node(documents, l.doc, a)
           below == Below(l, keyword)
           choices == ConstantChoices(l, keyword)
           matching == Matching(l, keyword, v)
<1>1. \A x : x \in choices <=>
        \E a \in below : x = at(a).const /\ (Has(at(a), "type") => MatchesDeclaration(x, at(a).type))
  BY DEF ConstantChoices, BranchSchemas
<1>2. \A a : a \in matching <=>
        /\ a \in below /\ JsonEqual(at(a).const, v)
        /\ Has(at(a), "type") => MatchesDeclaration(v, at(a).type)
  BY DEF Matching
<1>3. keyword = "oneOf" => \A a, b \in below : a # b => ~JsonEqual(at(a).const, at(b).const)
  BY DEF IsConstantChoice
<1> HIDE DEF at, below, choices, matching
<1>4. ASSUME NEW a \in below, JsonEqual(at(a).const, v)
      PROVE  /\ JsonEqual(v, at(a).const)
             /\ MatchesDeclaration(v, at(a).type) <=> MatchesDeclaration(at(a).const, at(a).type)
  BY <1>4, EqualValues
<1>5. Among(v, choices) <=> matching # {}
  <2>1. ASSUME Among(v, choices) PROVE matching # {}
    <3>1. PICK w \in choices : JsonEqual(v, w)
      BY <2>1 DEF Among
    <3>2. PICK a \in below :
            w = at(a).const /\ (Has(at(a), "type") => MatchesDeclaration(w, at(a).type))
      BY <1>1, <3>1
    <3>3. JsonEqual(at(a).const, v)
      BY <3>1, <3>2, EqualValues
    <3> QED
      BY <1>2, <1>4, <3>2, <3>3
  <2>2. ASSUME NEW a \in matching PROVE Among(v, choices)
    <3>1. /\ a \in below /\ JsonEqual(at(a).const, v)
          /\ Has(at(a), "type") => MatchesDeclaration(v, at(a).type)
      BY <1>2
    <3>2. at(a).const \in choices /\ JsonEqual(v, at(a).const)
      BY <1>1, <1>4, <3>1
    <3> QED
      BY <3>2 DEF Among
  <2> QED
    BY <2>1, <2>2
<1>6. ASSUME keyword = "oneOf", NEW a \in matching PROVE matching = {a}
  <2>1. ASSUME NEW b \in matching, b # a PROVE FALSE
    <3>1. a \in below /\ b \in below /\ JsonEqual(at(a).const, v) /\ JsonEqual(at(b).const, v)
      BY <1>2
    <3>2. JsonEqual(at(a).const, at(b).const)
      BY <3>1, EqualValues
    <3> QED
      BY <1>3, <1>6, <2>1, <3>1, <3>2
  <2> QED
    BY <2>1
<1>7. keyword = "oneOf" => (matching # {} <=> Cardinality(matching) = 1)
  <2>1. ASSUME keyword = "oneOf", matching # {} PROVE Cardinality(matching) = 1
    <3>1. PICK a \in matching : TRUE
      BY <2>1
    <3>2. matching = {a}
      BY <1>6, <2>1, <3>1
    <3> QED
      BY <3>2, FS_Singleton
  <2>2. ASSUME matching = {} PROVE Cardinality(matching) # 1
    BY <2>2, FS_EmptySet
  <2> QED
    BY <2>1, <2>2
<1> QED
  BY <1>5, <1>7 DEF choices, matching
-----------------------------------------------------------------------------
(* What ChoicesAmong makes of its sources.                                 *)
SourcesOf(schemas) ==
  { c.values : c \in RecognizedChoices(schemas) }
    \cup { ToSet(SchemaOf(l).enum) : l \in Using(schemas, "enum") }
    \cup { {SchemaOf(l).const} : l \in Using(schemas, "const") }

SeedOf(schemas) ==
  IF RecognizedChoices(schemas) # {} THEN First(RecognizedChoices(schemas)).values
  ELSE IF Using(schemas, "enum") # {} THEN ToSet(SchemaOf(First(Using(schemas, "enum"))).enum)
  ELSE IF Using(schemas, "const") # {} THEN {SchemaOf(First(Using(schemas, "const"))).const}
  ELSE {NullValue}

NotFalse(schemas) == \A l \in schemas : SchemaOf(l) # [boolean |-> FALSE]

Meets(schemas, v) == \A values \in SourcesOf(schemas) : Among(v, values)

AllowedBy(schemas, v) == Meets(schemas, v) /\ NotFalse(schemas) /\ Typed(schemas, v)

LEMMA RecognizedAre ==
  ASSUME NEW schemas
  PROVE  /\ \A c \in RecognizedChoices(schemas) :
              \E l \in schemas : \E keyword \in {"oneOf", "anyOf"} :
                IsConstantChoice(l, keyword) /\ c.values = ConstantChoices(l, keyword)
         /\ \A l \in schemas : \A keyword \in {"oneOf", "anyOf"} :
              IsConstantChoice(l, keyword) =>
                \E c \in RecognizedChoices(schemas) : c.values = ConstantChoices(l, keyword)
<1> DEFINE choice(l, keyword) ==
             [ at |-> Append(Place(l), keyword), values |-> ConstantChoices(l, keyword) ]
           with(keyword) == { choice(l, keyword) : l \in { m \in schemas : IsConstantChoice(m, keyword) } }
<1>1. RecognizedChoices(schemas) = UNION { with(keyword) : keyword \in {"anyOf", "oneOf"} }
  BY Zenon DEF RecognizedChoices
<1>2. \A c, keyword : c \in with(keyword) <=>
        \E l \in schemas : IsConstantChoice(l, keyword) /\ c = choice(l, keyword)
  OBVIOUS
<1>3. \A l, keyword : choice(l, keyword).values = ConstantChoices(l, keyword)
  OBVIOUS
<1> HIDE DEF choice, with
<1>4. \A c : c \in RecognizedChoices(schemas) <=>
        \E keyword \in {"oneOf", "anyOf"} : c \in with(keyword)
  BY <1>1
<1> QED
  BY <1>2, <1>3, <1>4

(* Without a oneOf or an anyOf whose branches are no constants, what is    *)
(* allowed is what every schema admits.                                    *)
LEMMA AllowedIs ==
  ASSUME NEW schemas, NEW v,
         \A l \in schemas : \A keyword \in {"oneOf", "anyOf"} :
           Below(l, keyword) # {} => IsConstantChoice(l, keyword)
  PROVE  Meets(schemas, v) /\ Typed(schemas, v) <=> \A l \in schemas : Admits(l, v)
<1>1. /\ Using(schemas, "enum") = { l \in schemas : Has(SchemaOf(l), "enum") }
      /\ Using(schemas, "const") = { l \in schemas : Has(SchemaOf(l), "const") }
  <2>1. "enum" \notin SchemaKeywords /\ "const" \notin SchemaKeywords
    BY DEF SchemaKeywords, ApplicableKeywords
  <2> QED
    BY <2>1, UsesHere
<1> DEFINE recognized == { c.values : c \in RecognizedChoices(schemas) }
<1>2. \A values : values \in recognized <=>
        \E l \in schemas : \E keyword \in {"oneOf", "anyOf"} :
          IsConstantChoice(l, keyword) /\ values = ConstantChoices(l, keyword)
  BY RecognizedAre
<1> HIDE DEF recognized
<1>3. (\A values \in SourcesOf(schemas) : Among(v, values)) <=>
        /\ \A values \in recognized : Among(v, values)
        /\ \A l \in schemas : Has(SchemaOf(l), "enum") => Among(v, ToSet(SchemaOf(l).enum))
        /\ \A l \in schemas : Has(SchemaOf(l), "const") => Among(v, {SchemaOf(l).const})
  BY <1>1 DEF SourcesOf, recognized
<1>4. (\A values \in recognized : Among(v, values)) <=>
        \A l \in schemas : \A keyword \in {"oneOf", "anyOf"} :
          IsConstantChoice(l, keyword) => Among(v, ConstantChoices(l, keyword))
  BY <1>2
<1>5. \A l, keyword : IsConstantChoice(l, keyword) => Below(l, keyword) # {}
  BY DEF IsConstantChoice
<1>6. \A l \in schemas :
        /\ IsConstantChoice(l, "oneOf") =>
             (Among(v, ConstantChoices(l, "oneOf")) <=> Cardinality(Matching(l, "oneOf", v)) = 1)
        /\ IsConstantChoice(l, "anyOf") =>
             (Among(v, ConstantChoices(l, "anyOf")) <=> Matching(l, "anyOf", v) # {})
  BY MatchingIs
<1>7. \A x : Among(v, {x}) <=> JsonEqual(x, v)
  BY EqualValues DEF Among
<1>8. ASSUME NEW l \in schemas
      PROVE  Admits(l, v) <=>
               /\ Has(SchemaOf(l), "type")  => MatchesDeclaration(v, SchemaOf(l).type)
               /\ Has(SchemaOf(l), "enum")  => Among(v, ToSet(SchemaOf(l).enum))
               /\ Has(SchemaOf(l), "const") => Among(v, {SchemaOf(l).const})
               /\ IsConstantChoice(l, "oneOf") => Among(v, ConstantChoices(l, "oneOf"))
               /\ IsConstantChoice(l, "anyOf") => Among(v, ConstantChoices(l, "anyOf"))
  BY <1>5, <1>6, <1>7, AdmitsIs
<1> QED
  BY <1>3, <1>4, <1>8 DEF Meets, Typed

(* The choices are one of every run of equal values that are allowed.      *)
LEMMA ChoicesAre ==
  ASSUME NEW schemas, NEW kind,
         ScalarChoices(schemas, kind).findings = {}, ~ScalarChoices(schemas, kind).panics
  PROVE  \/ /\ ScalarChoices(schemas, kind) = NoChoices
            /\ SourcesOf(schemas) = {} /\ kind # "null"
         \/ LET values == { v \in SeedOf(schemas) : AllowedBy(schemas, v) }
            IN /\ values # {}
               /\ ScalarChoices(schemas, kind).values = Distinct(values)
               /\ ScalarChoices(schemas, kind).nullOnly = (SourcesOf(schemas) = {})
               /\ SourcesOf(schemas) = {} => kind = "null"
<1> DEFINE c == ScalarChoices(schemas, kind)
           enums == Using(schemas, "enum")
           constants == Using(schemas, "const")
           recognized == RecognizedChoices(schemas)
           sources == SourcesOf(schemas)
           values == { v \in SeedOf(schemas) : AllowedBy(schemas, v) }
           refused(findings) == [NoChoices EXCEPT !.findings = findings]
           structuredConstants == { l \in constants : Structured(SchemaOf(l).const) }
           conflicting == { l \in constants : ~JsonEqual(SchemaOf(l).const,
                                                         SchemaOf(First(constants)).const) }
           from(enumCode, constCode) ==
             IF enums # {} THEN FirstFinding(schemas, "enum", enumCode)
             ELSE FirstFinding(schemas, "const", constCode)
           allowed == [ NoChoices EXCEPT
                        !.values = Distinct(values),
                        !.selectable = (enums # {} \/ recognized # {}) /\ constants = {},
                        !.nullOnly = sources = {} ]
<1>1. values = { v \in SeedOf(schemas) :
                   /\ \A w \in sources : Among(v, w)
                   /\ \A l \in schemas :
                        /\ SchemaOf(l) # [boolean |-> FALSE]
                        /\ Has(SchemaOf(l), "type") => MatchesDeclaration(v, SchemaOf(l).type) }
  <2>1. \A v : AllowedBy(schemas, v) <=>
                   /\ \A w \in sources : Among(v, w)
                   /\ \A l \in schemas :
                        /\ SchemaOf(l) # [boolean |-> FALSE]
                        /\ Has(SchemaOf(l), "type") => MatchesDeclaration(v, SchemaOf(l).type)
    BY Zenon DEF AllowedBy, Meets, NotFalse, Typed
  <2> QED
    BY <2>1
<1>2. c = IF sources = {} /\ kind # "null" THEN NoChoices
          ELSE IF structuredConstants # {}
          THEN refused(FirstFinding(structuredConstants, "const", "validation.const.structured"))
          ELSE IF conflicting # {}
          THEN refused(FirstFinding(conflicting, "const", "validation.const.conflicting"))
          ELSE IF \E v \in values : Structured(v)
          THEN refused(from("validation.enum.structured", "validation.const.structured"))
          ELSE IF values = {} /\ recognized # {}
          THEN refused({Finding("applicator.constant-choices.incompatible",
                                First(recognized).at)})
          ELSE IF values = {} /\ sources = {} THEN [NoChoices EXCEPT !.panics = TRUE]
          ELSE IF values = {}
          THEN refused(from("validation.enum.incompatible", "validation.const.incompatible"))
          ELSE allowed
  BY <1>1, Zenon DEF ScalarChoices, ChoicesAmong, SourcesOf, SeedOf
<1>3. \A F : refused(F).findings = F
  BY DEF NoChoices
<1>4. [NoChoices EXCEPT !.panics = TRUE].panics
  BY DEF NoChoices
<1>5. /\ allowed.values = Distinct(values) /\ allowed.nullOnly = (sources = {})
  BY DEF NoChoices
<1>6. \A S, keyword, code : Using(S, keyword) # {} => FirstFinding(S, keyword, code) # {}
  BY DEF FirstFinding
<1>7. /\ structuredConstants # {} => Using(structuredConstants, "const") # {}
      /\ conflicting # {} => Using(conflicting, "const") # {}
  <2>1. \A S : Using(S, "const") = { l \in S : Uses(l, "const") }
    BY DEF Using
  <2> QED
    BY <2>1
<1>8. recognized = {} /\ enums = {} /\ constants = {} <=> sources = {}
  BY DEF SourcesOf
<1>9. \A e, f : enums # {} \/ constants # {} => from(e, f) # {}
  BY <1>6
<1>10. (\E v \in values : Structured(v)) /\ enums = {} /\ constants = {} => FALSE
  <2> SUFFICES ASSUME NEW v \in values, Structured(v), enums = {}, constants = {} PROVE FALSE
    OBVIOUS
  <2>1. CASE recognized = {}
    <3>1. v = NullValue
      BY <2>1 DEF SeedOf
    <3> QED
      BY <3>1 DEF NullValue, Structured
  <2>2. CASE recognized # {}
    <3>1. v \in First(recognized).values /\ First(recognized) \in recognized
      BY <2>2 DEF SeedOf, First
    <3>2. PICK l \in schemas : \E keyword \in {"oneOf", "anyOf"} :
            /\ IsConstantChoice(l, keyword)
            /\ First(recognized).values = ConstantChoices(l, keyword)
      BY <3>1, RecognizedAre
    <3>3. PICK keyword : IsConstantChoice(l, keyword) /\ v \in ConstantChoices(l, keyword)
      BY <3>1, <3>2
    <3>4. PICK at \in Below(l, keyword) : v = Node(documents, l.doc, at).const
      BY <3>3 DEF ConstantChoices, BranchSchemas
    <3> QED
      BY <3>3, <3>4 DEF IsConstantChoice
  <2> QED
    BY <2>1, <2>2
<1> HIDE DEF c, enums, constants, recognized, sources, values, refused, structuredConstants,
             conflicting, from, allowed
<1>11. c.findings = {} /\ ~c.panics
  BY DEF c
<1>12. CASE sources = {} /\ kind # "null"
  BY <1>2, <1>12 DEF c, sources
<1>13. CASE ~(sources = {} /\ kind # "null")
  <2>1. structuredConstants = {}
    BY <1>2, <1>3, <1>6, <1>7, <1>11, <1>13
  <2>2. conflicting = {}
    BY <1>2, <1>3, <1>6, <1>7, <1>11, <1>13, <2>1
  <2>3. ~\E v \in values : Structured(v)
    BY <1>2, <1>3, <1>9, <1>10, <1>11, <1>13, <2>1, <2>2
  <2>4. ~(values = {} /\ recognized # {})
    BY <1>2, <1>3, <1>11, <1>13, <2>1, <2>2, <2>3
  <2>5. ~(values = {} /\ sources = {})
    BY <1>2, <1>4, <1>11, <1>13, <2>1, <2>2, <2>3, <2>4
  <2>6. values # {}
    BY <1>2, <1>3, <1>8, <1>9, <1>11, <1>13, <2>1, <2>2, <2>3, <2>4, <2>5
  <2>7. c = allowed
    BY <1>2, <1>13, <2>1, <2>2, <2>3, <2>4, <2>6
  <2> QED
    BY <1>5, <1>13, <2>6, <2>7 DEF c, sources, values
<1> QED
  BY <1>12, <1>13
-----------------------------------------------------------------------------
(* What schemas have that are known.                                       *)
WellShaped(schemas) ==
  \A l \in schemas :
    /\ IsSchema(SchemaOf(l))
    /\ \A keyword \in {"oneOf", "anyOf"} : \A at \in Below(l, keyword) :
         IsSchema(Node(documents, l.doc, at))

LEMMA NodeIsSchema ==
  ASSUME ResourcesInv, CoverageInv, NEW d \in DOMAIN input.documents,
         NEW at \in DOMAIN input.documents[d].nodes
  PROVE  IsSchema(Node(documents, d, at))
<1> DEFINE now == Node(documents, d, at)
           was == Node(input.documents, d, at)
<1>1. Agrees(input.documents, documents)
  BY DEF ResourcesInv
<1>2. DOMAIN now = DOMAIN was /\ \A keyword \in DOMAIN was \ {"ref"} : now[keyword] = was[keyword]
  BY <1>1 DEF Agrees, Node
<1>3. IsSchema(was)
  BY ShapesAssumption DEF Node, CoverageInv
<1> HIDE DEF now, was
<1>4. \A keyword : Has(now, keyword) <=> Has(was, keyword)
  BY <1>2 DEF Has
<1>5. Has(now, "type") => now.type \subseteq Kinds
  BY <1>2, <1>3 DEF IsSchema, Has
<1>6. Has(now, "enum") => \A i \in DOMAIN now.enum : IsValue(now.enum[i])
  BY <1>2, <1>3 DEF IsSchema, Has
<1>7. \A keyword \in {"const", "default"} \cap DOMAIN now : IsValue(now[keyword])
  BY <1>2, <1>3 DEF IsSchema
<1>8. \A keyword \in {"minItems", "maxItems"} \cap DOMAIN now : IsLength(now[keyword])
  BY <1>2, <1>3 DEF IsSchema
<1>9. IsSchema(now)
  BY <1>5, <1>6, <1>7, <1>8 DEF IsSchema
<1> QED
  BY <1>9 DEF now

LEMMA KnownIsWellShaped ==
  ASSUME Prepared, NEW schemas, Known(schemas)
  PROVE  WellShaped(schemas)
<1> SUFFICES ASSUME NEW l \in schemas
             PROVE  /\ IsSchema(SchemaOf(l))
                    /\ \A keyword : \A at \in Below(l, keyword) : IsSchema(Node(documents, l.doc, at))
  BY DEF WellShaped
<1>1. Bare(l) \in visited /\ Bare(l).doc = l.doc /\ Bare(l).at = l.at
  BY ValidatingIs DEF Prepared, Known, Bares, Bare
<1>2. /\ l.doc \in DOMAIN input.documents /\ l.at \in DOMAIN input.documents[l.doc].nodes
      /\ DOMAIN documents[l.doc].nodes = DOMAIN input.documents[l.doc].nodes
  BY <1>1, NodesAre DEF Prepared
<1>3. \A keyword : Below(l, keyword) \subseteq DOMAIN input.documents[l.doc].nodes
  BY <1>2 DEF Below, Children
<1> QED
  BY <1>2, <1>3, NodeIsSchema DEF Prepared, SchemaOf

LEMMA BareAdmits ==
  ASSUME NEW l
  PROVE  /\ SchemaOf(Bare(l)) = SchemaOf(l) /\ \A v : Admits(Bare(l), v) <=> Admits(l, v)
<1>1. SchemaOf(Bare(l)) = SchemaOf(l) /\ \A keyword : Below(Bare(l), keyword) = Below(l, keyword)
  BY DEF SchemaOf, Below, Bare
<1>2. \A keyword, v : Matching(Bare(l), keyword, v) = Matching(l, keyword, v)
  BY <1>1 DEF Matching, Bare
<1> QED
  BY <1>1, <1>2, AdmitsIs

LEMMA AdmittedIs ==
  ASSUME NEW n, NEW v
  PROVE  Admitted(n, v) <=>
           /\ \A l \in n.schemas : Admits(l, v)
           /\ n.choices # {} => NotFalse(n.schemas)
BY BareAdmits DEF Admitted, Bares, NotFalse
-----------------------------------------------------------------------------
(* A shape without findings.                                               *)
Shapely(schemas, shape) ==
  shape = Shape(schemas) /\ shape.findings = {} /\ ~shape.choices.panics

LEMMA ShapeIs ==
  ASSUME NEW schemas, NEW shape, Shapely(schemas, shape)
  PROVE  /\ shape.kind = InferKind(schemas)
         /\ shape.choices = ScalarChoices(schemas, InferKind(schemas))
         /\ shape.choices.findings = {} /\ ~shape.choices.panics /\ cycles = {}
         /\ \A l \in schemas : \A keyword \in {"oneOf", "anyOf"} :
              Below(l, keyword) # {} => IsConstantChoice(l, keyword)
<1> DEFINE kind == InferKind(schemas)
           choices == ScalarChoices(schemas, kind)
           deferred == DeferredShapeFindings(schemas, kind, choices.values # {})
           rest == IF kind = "object" THEN DynamicMapFindings(schemas) ELSE {}
<1>1. shape = [ kind |-> kind, choices |-> choices,
                findings |-> RecursiveFindings \cup choices.findings \cup deferred \cup rest ]
  BY Zenon DEF Shapely, Shape, ShapeWith
<1>2. /\ BranchApplicatorFindings(schemas, "oneOf", "applicator.one-of") \subseteq deferred
      /\ BranchApplicatorFindings(schemas, "anyOf", "applicator.any-of") \subseteq deferred
  BY Zenon DEF DeferredShapeFindings
<1> HIDE DEF kind, choices, deferred, rest
<1>3. /\ shape.kind = kind /\ shape.choices = choices
      /\ RecursiveFindings = {} /\ choices.findings = {} /\ deferred = {}
  BY <1>1 DEF Shapely
<1>4. cycles = {}
  BY <1>3 DEF RecursiveFindings
<1>5. \A l \in schemas : \A keyword \in {"oneOf", "anyOf"} :
        Below(l, keyword) # {} => IsConstantChoice(l, keyword)
  BY <1>2, <1>3 DEF BranchApplicatorFindings, Using, Uses
<1> QED
  BY <1>3, <1>4, <1>5 DEF Shapely, kind, choices

(* The values there are to choose from.                                    *)
LEMMA SeedsAreValues ==
  ASSUME NEW schemas, WellShaped(schemas)
  PROVE  /\ \A v \in SeedOf(schemas) : IsValue(v)
         /\ SourcesOf(schemas) # {} => SeedOf(schemas) \in SourcesOf(schemas)
         /\ SourcesOf(schemas) = {} => SeedOf(schemas) = {NullValue}
<1> DEFINE recognized == RecognizedChoices(schemas)
           enums == Using(schemas, "enum")
           constants == Using(schemas, "const")
<1>1. /\ enums = { l \in schemas : Has(SchemaOf(l), "enum") }
      /\ constants = { l \in schemas : Has(SchemaOf(l), "const") }
  <2>1. "enum" \notin SchemaKeywords /\ "const" \notin SchemaKeywords
    BY DEF SchemaKeywords, ApplicableKeywords
  <2> QED
    BY <2>1, UsesHere
<1>2. recognized = {} /\ enums = {} /\ constants = {} <=> SourcesOf(schemas) = {}
  BY DEF SourcesOf
<1>3. CASE recognized # {}
  <2>1. First(recognized) \in recognized /\ SeedOf(schemas) = First(recognized).values
    BY <1>3 DEF SeedOf, First
  <2>2. PICK l \in schemas, keyword \in {"oneOf", "anyOf"} :
          IsConstantChoice(l, keyword) /\ SeedOf(schemas) = ConstantChoices(l, keyword)
    BY <2>1, RecognizedAre
  <2>3. ASSUME NEW v \in SeedOf(schemas) PROVE IsValue(v)
    <3>1. PICK at \in Below(l, keyword) : v = Node(documents, l.doc, at).const
      BY <2>2 DEF ConstantChoices, BranchSchemas
    <3>2. Has(Node(documents, l.doc, at), "const") /\ IsSchema(Node(documents, l.doc, at))
      BY <2>2, <3>1 DEF IsConstantChoice, WellShaped
    <3> QED
      BY <3>1, <3>2 DEF IsSchema, Has
  <2> QED
    BY <1>2, <1>3, <2>1, <2>3 DEF SourcesOf
<1>4. CASE recognized = {} /\ enums # {}
  <2>1. First(enums) \in enums /\ SeedOf(schemas) = ToSet(SchemaOf(First(enums)).enum)
    BY <1>4 DEF SeedOf, First
  <2>2. \A v \in SeedOf(schemas) : IsValue(v)
    BY <1>1, <2>1 DEF WellShaped, IsSchema, ToSet
  <2> QED
    BY <1>2, <1>4, <2>1, <2>2 DEF SourcesOf
<1>5. CASE recognized = {} /\ enums = {} /\ constants # {}
  <2>1. First(constants) \in constants /\ SeedOf(schemas) = {SchemaOf(First(constants)).const}
    BY <1>5 DEF SeedOf, First
  <2>2. \A v \in SeedOf(schemas) : IsValue(v)
    BY <1>1, <2>1 DEF WellShaped, IsSchema, Has
  <2> QED
    BY <1>2, <1>5, <2>1, <2>2 DEF SourcesOf
<1>6. CASE recognized = {} /\ enums = {} /\ constants = {}
  BY <1>2, <1>6 DEF SeedOf, IsValue, NullValue, Kinds
<1> QED
  BY <1>3, <1>4, <1>5, <1>6
-----------------------------------------------------------------------------
(* A control of a shape: what can be typed or chosen at it.                *)
IsControl(n, schemas, shape) ==
  /\ Shapely(schemas, shape)
  /\ shape.choices.values # {} \/ shape.kind \in Scalars
  /\ n.schemas = schemas /\ n.choices = shape.choices.values
  /\ n.kind = ControlKind(shape.kind, shape.choices)
  /\ n.nullable = IF n.choices # {} THEN \E v \in n.choices : IsNull(v)
                  ELSE n.kind \in Scalars /\ AcceptsNull(schemas)

Chosen(schemas) == { v \in SeedOf(schemas) : AllowedBy(schemas, v) }

LEMMA ControlIs ==
  ASSUME NEW schemas, NEW shape, NEW n, IsControl(n, schemas, shape)
  PROVE  \/ /\ n.choices = {} /\ SourcesOf(schemas) = {}
            /\ n.kind = InferKind(schemas) /\ n.kind \in Scalars
            /\ n.nullable = AcceptsNull(schemas)
         \/ /\ n.choices # {} /\ n.choices = Distinct(Chosen(schemas))
            /\ n.kind \notin Scalars /\ n.kind # "integer"
            /\ n.kind = "null" <=> SourcesOf(schemas) = {}
            /\ SourcesOf(schemas) = {} => InferKind(schemas) = "null"
<1> DEFINE kind == InferKind(schemas)
           choices == ScalarChoices(schemas, kind)
<1>1. /\ shape.kind = kind /\ shape.choices = choices
      /\ choices.findings = {} /\ ~choices.panics
  BY ShapeIs DEF IsControl
<1>2. \/ choices = NoChoices /\ SourcesOf(schemas) = {} /\ kind # "null"
      \/ /\ Chosen(schemas) # {} /\ choices.values = Distinct(Chosen(schemas))
         /\ choices.nullOnly = (SourcesOf(schemas) = {})
         /\ SourcesOf(schemas) = {} => kind = "null"
  BY <1>1, ChoicesAre DEF Chosen
<1>3. Chosen(schemas) # {} => Distinct(Chosen(schemas)) # {}
  BY DistinctIs, EqualValues DEF Among
<1>4. NoChoices.values = {}
  BY DEF NoChoices
<1> HIDE DEF kind, choices
<1>5. n.kind = ControlKind(kind, choices) /\ n.choices = choices.values
      /\ (choices.values # {} \/ kind \in Scalars)
      /\ n.nullable = IF n.choices # {} THEN \E v \in n.choices : IsNull(v)
                      ELSE n.kind \in Scalars /\ AcceptsNull(schemas)
  BY <1>1 DEF IsControl
<1>6. CASE choices.values = {}
  <2>1. n.kind = kind
    BY <1>5, <1>6 DEF ControlKind
  <2>2. AcceptsNull(schemas) \in BOOLEAN
    BY DEF AcceptsNull
  <2> QED
    BY <1>2, <1>3, <1>5, <1>6, <2>1, <2>2 DEF kind
<1>7. CASE choices.values # {}
  <2>1. n.kind = IF choices.nullOnly THEN "null" ELSE IF choices.selectable THEN "choice" ELSE "constant"
    BY <1>5, <1>7 DEF ControlKind
  <2> QED
    BY <1>2, <1>4, <1>5, <1>7, <2>1 DEF kind, Scalars
<1> QED
  BY <1>6, <1>7

(* What is chosen is what is allowed.                                      *)
LEMMA ChosenIs ==
  ASSUME NEW schemas, WellShaped(schemas), NEW v, IsValue(v),
         SourcesOf(schemas) = {} => InferKind(schemas) = "null"
  PROVE  Among(v, Chosen(schemas)) <=> AllowedBy(schemas, v)
<1>1. ASSUME NEW w, JsonEqual(v, w), AllowedBy(schemas, w) PROVE AllowedBy(schemas, v)
  BY <1>1, EqualValues DEF AllowedBy, Meets, Typed
<1>2. ASSUME AllowedBy(schemas, v) PROVE Among(v, SeedOf(schemas))
  <2>1. CASE SourcesOf(schemas) # {}
    BY <1>2, <2>1, SeedsAreValues DEF AllowedBy, Meets
  <2>2. CASE SourcesOf(schemas) = {}
    <3>1. InferKind(schemas) = "null" /\ Typed(schemas, v) /\ SeedOf(schemas) = {NullValue}
      BY <1>2, <2>2, SeedsAreValues DEF AllowedBy
    <3>2. \A l \in schemas : Has(SchemaOf(l), "type") => SchemaOf(l).type \subseteq Kinds
      BY DEF WellShaped, IsSchema
    <3>3. v = NullValue
      BY <3>1, <3>2, KindIsTyped
    <3> QED
      BY <3>1, <3>3, EqualValues DEF Among
  <2> QED
    BY <2>1, <2>2
<1>3. ASSUME NEW w, JsonEqual(v, w), AllowedBy(schemas, v) PROVE AllowedBy(schemas, w)
  BY <1>3, EqualValues DEF AllowedBy, Meets, Typed
<1>4. Among(v, Chosen(schemas)) => AllowedBy(schemas, v)
  BY <1>1 DEF Among, Chosen
<1>5. AllowedBy(schemas, v) => Among(v, Chosen(schemas))
  BY <1>2, <1>3 DEF Among, Chosen
<1> QED
  BY <1>4, <1>5

(* A control takes what all its schemas admit.                             *)
LEMMA ControlTakes ==
  ASSUME NEW schemas, NEW shape, NEW n, IsControl(n, schemas, shape), WellShaped(schemas),
         NEW v, IsValue(v)
  PROVE  Takes(n, v) <=> Admitted(n, v)
<1>1. \A l \in schemas : \A keyword \in {"oneOf", "anyOf"} :
        Below(l, keyword) # {} => IsConstantChoice(l, keyword)
  BY ShapeIs DEF IsControl
<1>2. Meets(schemas, v) /\ Typed(schemas, v) <=> \A l \in schemas : Admits(l, v)
  BY <1>1, AllowedIs
<1>3. Admitted(n, v) <=>
        Meets(schemas, v) /\ Typed(schemas, v) /\ (n.choices # {} => NotFalse(schemas))
  BY <1>2, AdmittedIs DEF IsControl
<1>4. \A l \in schemas : Has(SchemaOf(l), "type") => SchemaOf(l).type \subseteq Kinds
  BY DEF WellShaped, IsSchema
<1>5. CASE /\ n.choices = {} /\ SourcesOf(schemas) = {}
           /\ n.kind = InferKind(schemas) /\ n.kind \in Scalars
           /\ n.nullable = AcceptsNull(schemas)
  <2>1. Takes(n, v) <=> HasType(v, n.kind) \/ (IsNull(v) /\ AcceptsNull(schemas))
    BY <1>5 DEF Takes
  <2>2. Takes(n, v) <=> Typed(schemas, v)
    BY <1>4, <1>5, <2>1, KindIsTyped
  <2>3. Meets(schemas, v)
    BY <1>5 DEF Meets
  <2> QED
    BY <1>3, <1>5, <2>2, <2>3
<1>6. CASE /\ n.choices # {} /\ n.choices = Distinct(Chosen(schemas))
           /\ n.kind \notin Scalars
           /\ SourcesOf(schemas) = {} => InferKind(schemas) = "null"
  <2>1. Takes(n, v) <=> Among(v, Chosen(schemas))
    BY <1>6, DistinctIs DEF Takes
  <2>2. Takes(n, v) <=> AllowedBy(schemas, v)
    BY <1>6, <2>1, ChosenIs
  <2> QED
    BY <1>3, <1>6, <2>2 DEF AllowedBy
<1> QED
  BY <1>5, <1>6, ControlIs
-----------------------------------------------------------------------------
(* What a control is created with.                                         *)
LEMMA TheOnlyIs ==
  ASSUME NEW values, NEW otherwise
  PROVE  TheOnly(values, otherwise) \in values \cup {otherwise}
<1>1. CASE Cardinality(values) = 1
  <2>1. values # {}
    BY <1>1, FS_EmptySet
  <2>2. First(values) \in values
    BY <2>1 DEF First
  <2> QED
    BY <1>1, <2>2 DEF TheOnly
<1>2. CASE Cardinality(values) # 1
  BY <1>2 DEF TheOnly
<1> QED
  BY <1>1, <1>2

LEMMA DefaultsAreValues ==
  ASSUME NEW schemas, WellShaped(schemas)
  PROVE  \A v \in Defaults(schemas) : IsValue(v)
<1>1. "default" \notin SchemaKeywords
  BY DEF SchemaKeywords, ApplicableKeywords
<1>2. Using(schemas, "default") = { l \in schemas : Has(SchemaOf(l), "default") }
  BY <1>1, UsesHere
<1>3. \A v \in { SchemaOf(l).default : l \in Using(schemas, "default") } : IsValue(v)
  BY <1>2 DEF WellShaped, IsSchema, Has
<1> QED
  BY <1>3, DistinctIs DEF Defaults

LEMMA EmptyIs ==
  ASSUME NEW kind \in Scalars
  PROVE  IsValue(EmptyOf(kind)) /\ HasType(EmptyOf(kind), kind)
<1> DEFINE zero == [negative |-> FALSE, whole |-> <<0>>, fraction |-> <<>>, exponent |-> 0]
<1>1. IsSpelling(zero) /\ NumberIsInteger(zero)
  <2>1. Digits(zero) = <<0>>
    BY DEF Digits
  <2>2. NonZero(<<0>>) = {}
    BY DEF NonZero
  <2>3. NumberIsInteger(zero)
    BY <2>1, <2>2 DEF NumberIsInteger, NormalForm, Zero
  <2> QED
    BY <2>3 DEF IsSpelling
<1> HIDE DEF zero
<1>2. CASE kind \in {"number", "integer"}
  <2>1. EmptyOf(kind) = [kind |-> "number", number |-> zero]
    BY <1>2 DEF EmptyOf, zero
  <2> QED
    BY <1>1, <1>2, <2>1 DEF IsValue, HasType, Kinds
<1>3. CASE kind = "string"
  <2>1. EmptyOf(kind) = [kind |-> "string", text |-> "empty"]
    BY <1>3 DEF EmptyOf
  <2> QED
    BY <1>3, <2>1 DEF IsValue, HasType, Kinds
<1>4. CASE kind = "boolean"
  <2>1. EmptyOf(kind) = [kind |-> "boolean", flag |-> FALSE]
    BY <1>4 DEF EmptyOf
  <2> QED
    BY <1>4, <2>1 DEF IsValue, HasType, Kinds
<1> QED
  BY <1>2, <1>3, <1>4 DEF Scalars

LEMMA ChoicesAreValues ==
  ASSUME NEW schemas, NEW shape, NEW n, IsControl(n, schemas, shape), WellShaped(schemas)
  PROVE  /\ \A v \in n.choices : IsValue(v) /\ Among(v, n.choices)
         /\ n.choices # {} /\ n.kind = "null" => n.choices = {NullValue}
<1>1. n.choices # {} => n.choices \subseteq SeedOf(schemas)
  BY ControlIs, DistinctIs DEF Chosen
<1>2. n.choices # {} /\ n.kind = "null" => SeedOf(schemas) = {NullValue}
  BY ControlIs, SeedsAreValues
<1>3. \A v \in n.choices : Among(v, n.choices)
  BY EqualValues DEF Among
<1> QED
  BY <1>1, <1>2, <1>3, SeedsAreValues

LEMMA MinimalIs ==
  ASSUME NEW schemas, NEW shape, NEW n, IsControl(n, schemas, shape), WellShaped(schemas)
  PROVE  IsValue(MinimalSeed(n.kind, n.choices)) /\ Takes(n, MinimalSeed(n.kind, n.choices))
<1>1. CASE n.kind \in Scalars
  <2>1. MinimalSeed(n.kind, n.choices) = EmptyOf(n.kind)
    BY <1>1 DEF MinimalSeed
  <2> QED
    BY <1>1, <2>1, EmptyIs DEF Takes
<1>2. CASE n.kind \notin Scalars
  <2>1. n.choices # {}
    BY <1>2, ControlIs
  <2>2. MinimalSeed(n.kind, n.choices) \in n.choices
    <3>1. CASE n.kind = "null"
      <4>1. MinimalSeed(n.kind, n.choices) = NullValue
        BY <1>2, <3>1 DEF MinimalSeed
      <4> QED
        BY <2>1, <3>1, <4>1, ChoicesAreValues
    <3>2. CASE n.kind # "null"
      <4> DEFINE solid == { v \in n.choices : ~IsNull(v) }
                 some == IF solid # {} THEN solid ELSE n.choices
      <4>1. MinimalSeed(n.kind, n.choices) = First(some)
        BY <1>2, <3>2, Zenon DEF MinimalSeed
      <4>2. some # {} /\ some \subseteq n.choices
        BY <2>1
      <4> HIDE DEF some
      <4>3. First(some) \in some
        BY <4>2 DEF First
      <4> QED
        BY <4>1, <4>2, <4>3
    <3> QED
      BY <3>1, <3>2
  <2> QED
    BY <1>2, <2>2, ChoicesAreValues DEF Takes
<1> QED
  BY <1>1, <1>2

LEMMA CompatibleIsTaken ==
  ASSUME NEW schemas, NEW shape, NEW n, IsControl(n, schemas, shape), WellShaped(schemas),
         NEW v, IsValue(v)
  PROVE  /\ ScalarIsCompatible(n.kind, n.choices, v) => Takes(n, v)
         /\ IsNull(v) /\ n.nullable => Takes(n, v)
<1>1. ScalarIsCompatible(n.kind, n.choices, v) => Takes(n, v)
  BY DEF ScalarIsCompatible, Takes
<1>2. ASSUME IsNull(v), n.nullable PROVE Takes(n, v)
  <2>1. CASE n.choices # {}
    <3>1. \E w \in n.choices : IsNull(w)
      BY <1>2, <2>1 DEF IsControl
    <3>2. v \in n.choices
      BY <1>2, <3>1, ChoicesAreValues DEF IsNull, IsValue
    <3>3. n.kind \notin Scalars
      BY <2>1, ControlIs
    <3> QED
      BY <3>2, <3>3, ChoicesAreValues DEF Takes
  <2>2. CASE n.choices = {}
    <3>1. n.kind \in Scalars
      BY <2>2, ControlIs
    <3> QED
      BY <1>2, <3>1 DEF Takes
  <2> QED
    BY <2>1, <2>2
<1> QED
  BY <1>1, <1>2

LEMMA ScalarSeedIs ==
  ASSUME NEW schemas, NEW shape, NEW n, IsControl(n, schemas, shape), WellShaped(schemas),
         NEW seed, seed = ScalarSeed(schemas, n.kind, n.choices)
  PROVE  seed = NoSeed \/ (IsValue(seed) /\ Takes(n, seed))
<1> DEFINE compatible == { v \in Defaults(schemas) :
                             ~IsNull(v) /\ ScalarIsCompatible(n.kind, n.choices, v) }
           otherwise == IF n.kind = "null" THEN NoSeed ELSE MinimalSeed(n.kind, n.choices)
<1>1. seed = TheOnly(compatible, otherwise)
  BY DEF ScalarSeed
<1>2. seed \in compatible \cup {otherwise}
  BY <1>1, TheOnlyIs
<1>3. \A v \in compatible : IsValue(v) /\ Takes(n, v)
  BY DefaultsAreValues, CompatibleIsTaken
<1>4. otherwise = NoSeed \/ (IsValue(otherwise) /\ Takes(n, otherwise))
  BY MinimalIs
<1> QED
  BY <1>2, <1>3, <1>4

LEMMA ItemSeedIs ==
  ASSUME NEW schemas, NEW shape, NEW n, IsControl(n, schemas, shape), WellShaped(schemas),
         NEW seed, seed = ItemSeed(schemas, n.kind, n.choices, n.nullable)
  PROVE  seed # NoSeed /\ IsValue(seed) /\ Takes(n, seed)
<1> DEFINE compatible == { v \in Defaults(schemas) :
                             \/ IsNull(v) /\ n.nullable
                             \/ ScalarIsCompatible(n.kind, n.choices, v) }
           otherwise == MinimalSeed(n.kind, n.choices)
<1>1. seed = TheOnly(compatible, otherwise)
  BY DEF ItemSeed
<1>2. seed \in compatible \cup {otherwise}
  BY <1>1, TheOnlyIs
<1>3. \A v \in compatible : IsValue(v) /\ Takes(n, v)
  BY DefaultsAreValues, CompatibleIsTaken
<1>4. IsValue(otherwise) /\ Takes(n, otherwise)
  BY MinimalIs
<1>5. IsValue(seed) /\ Takes(n, seed)
  BY <1>2, <1>3, <1>4
<1>6. seed # NoSeed
  BY <1>5 DEF IsValue, NoSeed, Kinds
<1> QED
  BY <1>5, <1>6

(* The controls that are placed at a property and in the items of a list.  *)
LEMMA PropertyControl ==
  ASSUME Prepared, NEW schemas, Known(schemas), NEW shape, Shapely(schemas, shape),
         shape.choices.values # {} \/ shape.kind \in Scalars, NEW binding,
         NEW n, n = Control(binding, schemas, shape.kind, shape.choices,
                            ScalarSeed(schemas, ControlKind(shape.kind, shape.choices),
                                       shape.choices.values))
  PROVE  /\ n.what = "control" /\ n.schemas = schemas /\ n.binding = binding
         /\ TakesAdmitted(n) /\ (n.seed # NoSeed => Admitted(n, n.seed))
<1>1. IsControl(n, schemas, shape)
  BY DEF IsControl, Control, ProjectedNode
<1>2. WellShaped(schemas)
  BY KnownIsWellShaped
<1>3. /\ n.what = "control" /\ n.schemas = schemas /\ n.binding = binding
      /\ n.seed = ScalarSeed(schemas, n.kind, n.choices)
  BY DEF Control, ProjectedNode
<1>4. \A v \in input.literals : IsValue(v)
  BY ShapesAssumption DEF Prepared, CoverageInv
<1>5. TakesAdmitted(n)
  BY <1>1, <1>2, <1>4, ControlTakes DEF TakesAdmitted
<1>6. n.seed # NoSeed => Admitted(n, n.seed)
  BY <1>1, <1>2, <1>3, ScalarSeedIs, ControlTakes
<1> QED
  BY <1>3, <1>5, <1>6

Seeded(item, schemas, shape) ==
  [ item EXCEPT !.seed = ItemSeed(schemas, ControlKind(shape.kind, shape.choices),
                                  shape.choices.values, item.nullable) ]

LEMMA ItemControl ==
  ASSUME Prepared, NEW schemas, Known(schemas), NEW shape, Shapely(schemas, shape),
         shape.choices.values # {} \/ shape.kind \in Scalars, NEW binding,
         NEW item, item = Control(binding, schemas, shape.kind, shape.choices, NoSeed),
         NEW n, n = Seeded(item, schemas, shape)
  PROVE  /\ n.what = "control" /\ n.schemas = schemas /\ n.binding = binding
         /\ TakesAdmitted(n) /\ n.seed # NoSeed /\ Admitted(n, n.seed)
<1>1. /\ n.what = item.what /\ n.schemas = item.schemas /\ n.binding = item.binding
      /\ n.kind = item.kind /\ n.choices = item.choices /\ n.nullable = item.nullable
      /\ n.seed = ItemSeed(schemas, ControlKind(shape.kind, shape.choices),
                           shape.choices.values, item.nullable)
  BY DEF Control, ProjectedNode, Seeded
<1>2. IsControl(item, schemas, shape)
  BY DEF IsControl, Control, ProjectedNode
<1>3. IsControl(n, schemas, shape)
  BY <1>1, <1>2 DEF IsControl
<1>4. WellShaped(schemas)
  BY KnownIsWellShaped
<1>5. /\ item.what = "control" /\ item.schemas = schemas /\ item.binding = binding
      /\ item.kind = ControlKind(shape.kind, shape.choices)
      /\ item.choices = shape.choices.values
  BY DEF Control, ProjectedNode
<1>6. \A v \in input.literals : IsValue(v)
  BY ShapesAssumption DEF Prepared, CoverageInv
<1>7. TakesAdmitted(n)
  BY <1>3, <1>4, <1>6, ControlTakes DEF TakesAdmitted
<1>8. n.seed = ItemSeed(schemas, n.kind, n.choices, n.nullable)
  BY <1>1, <1>5
<1>9. n.seed # NoSeed /\ Admitted(n, n.seed)
  BY <1>3, <1>4, <1>8, ItemSeedIs, ControlTakes
<1> QED
  BY <1>1, <1>5, <1>7, <1>9
-----------------------------------------------------------------------------
(* A length, and a number that bounds it.                                  *)
LEMMA OneNumeral ==
  ASSUME NEW c \in Nat
  PROVE  Natural(<<c>>) = c
<1> DEFINE spelled == CHOOSE f : f = [k \in 0..1 |-> IF k = 0 THEN 0 ELSE 10 * f[k - 1] + <<c>>[k]]
           g == [k \in 0..1 |-> IF k = 0 THEN 0 ELSE c]
<1>1. g = [k \in 0..1 |-> IF k = 0 THEN 0 ELSE 10 * g[k - 1] + <<c>>[k]]
  <2>1. \A k \in 0..1 : g[k] = IF k = 0 THEN 0 ELSE 10 * g[k - 1] + <<c>>[k]
    <3>1. g[0] = 0 /\ g[1] = c /\ <<c>>[1] = c
      OBVIOUS
    <3>2. ASSUME NEW k \in 0..1 PROVE k = 0 \/ k = 1
      OBVIOUS
    <3> HIDE DEF g
    <3> QED
      BY <3>1, <3>2
  <2> QED
    BY <2>1
<1>2. spelled = [k \in 0..1 |-> IF k = 0 THEN 0 ELSE 10 * spelled[k - 1] + <<c>>[k]]
  <2> HIDE DEF g
  <2> QED
    BY <1>1
<1>3. Len(<<c>>) = 1
  OBVIOUS
<1>4. Natural(<<c>>) = spelled[1]
  BY <1>3 DEF Natural, Leading
<1> HIDE DEF spelled
<1>5. spelled[0] = 0
  BY <1>2
<1>6. spelled[1] = 10 * spelled[0] + <<c>>[1]
  BY <1>2
<1> QED
  BY <1>4, <1>5, <1>6

LEMMA CountCompares ==
  ASSUME NEW c \in Nat, NEW m, IsLength(m)
  PROVE  /\ WholeOf(m) \in Nat
         /\ LessThan(Count(c), m) <=> c < WholeOf(m)
         /\ LessThan(m, Count(c)) <=> WholeOf(m) < c
<1> DEFINE n == Count(c)
           p == Places(m)
           q == TenTo(p)
           w == WholeOf(m)
           a == Numerator(m, p)
<1>1. IsSpelling(m) /\ a % q = 0 /\ w = a \div q /\ w >= 0
  BY DEF IsLength, IsWhole, WholeOf
<1>2. p \in Nat /\ q \in Nat \ {0} /\ a \in Int
  <2>1. p \in Nat /\ Shift(m) + p \in Nat
    BY <1>1, PlacesAre
  <2>2. a \in Int
    BY <1>1, <2>1, NumeratorsAre
  <2> QED
    BY <2>1, <2>2, PowersOfTen
<1>3. Places(n) = 0
  BY DEF Count, Places
<1>4. Max({Places(n), p}) = p /\ Max({p, Places(n)}) = p
  <2>1. \A x \in {0, p} : p >= x
    BY <1>2
  <2>2. {Places(n), p} = {0, p} /\ {p, Places(n)} = {0, p}
    BY <1>3
  <2>3. Max({0, p}) = CHOOSE x \in {0, p} : \A y \in {0, p} : x >= y
    BY DEF Max
  <2>4. \E x \in {0, p} : \A y \in {0, p} : x >= y
    BY <2>1
  <2>5. PICK x \in {0, p} : x = Max({0, p}) /\ \A y \in {0, p} : x >= y
    BY <2>3, <2>4
  <2>6. x = p
    BY <1>2, <2>5
  <2> QED
    BY <2>2, <2>5, <2>6
<1>5. Numerator(n, p) = c * q
  <2>1. Digits(n) = <<c>> /\ n.negative = FALSE /\ n.exponent - Len(n.fraction) + p = p
    BY <1>2 DEF Count, Digits
  <2>2. Numerator(n, p) = Signed(n.negative, Natural(Digits(n)) * TenTo(p))
    BY <2>1 DEF Numerator
  <2> QED
    BY <2>1, <2>2, OneNumeral DEF Signed
<1>6. LessThan(n, m) <=> Numerator(n, p) < a
  BY <1>4 DEF LessThan
<1>7. LessThan(m, n) <=> a < Numerator(n, p)
  BY <1>4 DEF LessThan
<1> HIDE DEF n, p, q, w, a
<1>8. a = w * q /\ w \in Nat
  <2>1. a = (a \div q) * q
    BY <1>1, <1>2, Multiple
  <2>2. a \div q \in Int
    BY <1>2
  <2> QED
    BY <1>1, <2>1, <2>2
<1>9. ASSUME NEW x \in Nat, NEW y \in Nat PROVE x * q < y * q <=> x < y
  <2>1. x < y => x * q < y * q
    BY <1>2
  <2>2. y <= x => y * q <= x * q
    BY <1>2
  <2> QED
    BY <1>2, <2>1, <2>2
<1>10. LessThan(n, m) <=> c < w
  BY <1>5, <1>6, <1>8, <1>9
<1>11. LessThan(m, n) <=> w < c
  BY <1>5, <1>7, <1>8, <1>9
<1> QED
  BY <1>8, <1>10, <1>11 DEF n, w

LEMMA LengthIs ==
  ASSUME NEW m, IsLength(m)
  PROVE  /\ Bound(m) # NoBound
         /\ \A length \in 0..MaxIndex - 1 :
              /\ Bound(m) <= length <=> WholeOf(m) <= length
              /\ length <= Bound(m) <=> length <= WholeOf(m)
<1>1. WholeOf(m) \in Nat
  BY CountCompares
<1>2. Bound(m) = Min({WholeOf(m), MaxIndex})
  BY <1>1, LengthBounds DEF IsLength, BoundAsMeant
<1>3. MaxIndex \in Nat
  BY JsonNumbersAssumption
<1>4. Bound(m) = IF WholeOf(m) <= MaxIndex THEN WholeOf(m) ELSE MaxIndex
  BY <1>1, <1>2, <1>3, LesserOf
<1> DEFINE w == WholeOf(m)
           b == Bound(m)
<1> HIDE DEF w, b
<1>5. b = (IF w <= MaxIndex THEN w ELSE MaxIndex) /\ w \in Nat
  BY <1>1, <1>4 DEF w, b
<1>6. /\ b # -1
      /\ \A length \in 0..MaxIndex - 1 :
              /\ b <= length <=> w <= length
              /\ length <= b <=> length <= w
  BY <1>3, <1>5
<1> QED
  BY <1>6 DEF w, b, NoBound

LEMMA ListLengths ==
  ASSUME Prepared, NEW schemas, Known(schemas), NEW binding,
         NEW n, n = Structure(binding, schemas, "array")
  PROVE  /\ n.what = "array" /\ n.schemas = schemas /\ n.binding = binding
         /\ LengthsAdmitted(n)
<1>1. /\ n.what = "array" /\ n.schemas = schemas /\ n.binding = binding
      /\ n.lengths.least = Bounds(schemas, "minItems")
      /\ n.lengths.most = Bounds(schemas, "maxItems")
  BY DEF Structure, ProjectedNode
<1>2. /\ Using(schemas, "minItems") = { l \in schemas : Has(SchemaOf(l), "minItems") }
      /\ Using(schemas, "maxItems") = { l \in schemas : Has(SchemaOf(l), "maxItems") }
  <2>1. "minItems" \notin SchemaKeywords /\ "maxItems" \notin SchemaKeywords
    BY DEF SchemaKeywords, ApplicableKeywords
  <2> QED
    BY <2>1, UsesHere
<1>3. \A l \in schemas :
        /\ Has(SchemaOf(l), "minItems") => IsLength(SchemaOf(l).minItems)
        /\ Has(SchemaOf(l), "maxItems") => IsLength(SchemaOf(l).maxItems)
  BY KnownIsWellShaped DEF WellShaped, IsSchema, Has
<1>4. /\ \A x : x \in Bounds(schemas, "minItems") <=>
           \E l \in schemas : Has(SchemaOf(l), "minItems") /\ x = Bound(SchemaOf(l).minItems)
      /\ \A x : x \in Bounds(schemas, "maxItems") <=>
           \E l \in schemas : Has(SchemaOf(l), "maxItems") /\ x = Bound(SchemaOf(l).maxItems)
  BY <1>2, <1>3, LengthIs DEF Bounds
<1>5. ASSUME NEW length \in 0..MaxIndex - 1
      PROVE  TakesLength(n, length) <=> \A l \in Bares(schemas) : AdmitsLength(l, length)
  <2>1. MaxIndex \in Nat /\ length \in Nat
    BY JsonNumbersAssumption
  <2>2. ASSUME NEW l \in schemas, Has(SchemaOf(l), "minItems")
        PROVE  Bound(SchemaOf(l).minItems) <= length <=>
                 ~LessThan(Count(length), SchemaOf(l).minItems)
    <3>1. IsLength(SchemaOf(l).minItems)
      BY <1>3, <2>2
    <3>2. /\ LessThan(Count(length), SchemaOf(l).minItems) <=> length < WholeOf(SchemaOf(l).minItems)
          /\ WholeOf(SchemaOf(l).minItems) \in Nat
      BY <2>1, <3>1, CountCompares
    <3>3. Bound(SchemaOf(l).minItems) <= length <=> WholeOf(SchemaOf(l).minItems) <= length
      BY <3>1, LengthIs
    <3> QED
      BY <2>1, <3>2, <3>3
  <2>3. ASSUME NEW l \in schemas, Has(SchemaOf(l), "maxItems")
        PROVE  length <= Bound(SchemaOf(l).maxItems) <=>
                 ~LessThan(SchemaOf(l).maxItems, Count(length))
    <3>1. IsLength(SchemaOf(l).maxItems)
      BY <1>3, <2>3
    <3>2. /\ LessThan(SchemaOf(l).maxItems, Count(length)) <=> WholeOf(SchemaOf(l).maxItems) < length
          /\ WholeOf(SchemaOf(l).maxItems) \in Nat
      BY <2>1, <3>1, CountCompares
    <3>3. length <= Bound(SchemaOf(l).maxItems) <=> length <= WholeOf(SchemaOf(l).maxItems)
      BY <3>1, LengthIs
    <3> QED
      BY <2>1, <3>2, <3>3
  <2>4. TakesLength(n, length) <=>
          /\ \A l \in schemas : Has(SchemaOf(l), "minItems") =>
               Bound(SchemaOf(l).minItems) <= length
          /\ \A l \in schemas : Has(SchemaOf(l), "maxItems") =>
               length <= Bound(SchemaOf(l).maxItems)
    BY <1>1, <1>4 DEF TakesLength
  <2>5. TakesLength(n, length) <=> \A l \in schemas : AdmitsLength(l, length)
    BY <2>2, <2>3, <2>4 DEF AdmitsLength
  <2>6. \A l : AdmitsLength(Bare(l), length) <=> AdmitsLength(l, length)
    BY BareAdmits DEF AdmitsLength
  <2> QED
    BY <2>5, <2>6 DEF Bares
<1>6. LengthsAdmitted(n)
  BY <1>1, <1>5 DEF LengthsAdmitted
<1> QED
  BY <1>1, <1>6
-----------------------------------------------------------------------------
(* Sequences and what is in them.                                          *)
LEMMA RangeOfFront ==
  ASSUME NEW s, s \in Seq(Range(s)), s # <<>>
  PROVE  /\ Last(s) \in Range(s) /\ Front(s) \in Seq(Range(Front(s)))
         /\ Range(s) = Range(Front(s)) \cup {Last(s)}
<1> DEFINE n == Len(s)
           f == Front(s)
<1>1. n \in Nat \ {0} /\ DOMAIN s = 1..n
  BY LenProperties, EmptySeq
<1>2. /\ f \in Seq(Range(s)) /\ Len(f) = n - 1 /\ \A i \in 1..n - 1 : f[i] = s[i]
  BY <1>1, SubSeqProperties DEF Front
<1>3. DOMAIN f = 1..n - 1 /\ n - 1 \in Nat
  BY <1>1, <1>2, LenProperties
<1> HIDE DEF f
<1>4. f \in [1..n - 1 -> Range(f)]
  <2>1. f = [i \in 1..n - 1 |-> f[i]]
    BY <1>2, <1>3, LenProperties
  <2> QED
    BY <1>3, <2>1 DEF Range
<1>5. f \in Seq(Range(f))
  BY <1>3, <1>4, FunctionIsSequence
<1>6. Last(s) = s[n] /\ n \in DOMAIN s
  BY <1>1 DEF Last
<1>7. \A i \in DOMAIN s : i = n \/ (i \in DOMAIN f /\ f[i] = s[i])
  BY <1>1, <1>2, <1>3
<1>8. \A i \in DOMAIN f : i \in DOMAIN s /\ f[i] = s[i]
  BY <1>1, <1>2, <1>3
<1> HIDE DEF n
<1>9. Range(s) = Range(f) \cup {Last(s)}
  BY <1>6, <1>7, <1>8 DEF Range
<1> QED
  BY <1>5, <1>9 DEF f

LEMMA RangeOfJoin ==
  ASSUME NEW s, s \in Seq(Range(s)), NEW t, t \in Seq(Range(t))
  PROVE  /\ s \o t \in Seq(Range(s \o t))
         /\ Range(s \o t) = Range(s) \cup Range(t)
<1> DEFINE S == Range(s) \cup Range(t)
           j == s \o t
<1>1. /\ Len(s) \in Nat /\ Len(t) \in Nat
      /\ DOMAIN s = 1..Len(s) /\ DOMAIN t = 1..Len(t)
      /\ s \in [1..Len(s) -> Range(s)] /\ t \in [1..Len(t) -> Range(t)]
  BY LenProperties
<1>2. s \in [1..Len(s) -> S] /\ t \in [1..Len(t) -> S]
  BY <1>1
<1>3. s \in Seq(S) /\ t \in Seq(S)
  <2> HIDE DEF S
  <2> QED
    BY <1>1, <1>2, FunctionIsSequence
<1>4. /\ j \in Seq(S) /\ Len(j) = Len(s) + Len(t)
      /\ \A i \in 1..Len(s) + Len(t) : j[i] = IF i <= Len(s) THEN s[i] ELSE t[i - Len(s)]
  <2> HIDE DEF S
  <2> QED
    BY <1>3, ConcatProperties
<1> HIDE DEF j, S
<1>5. DOMAIN j = 1..Len(s) + Len(t) /\ j = [i \in 1..Len(s) + Len(t) |-> j[i]]
  BY <1>4, LenProperties
<1>6. Len(s) + Len(t) \in Nat
  BY <1>1
<1>7. j \in Seq(Range(j))
  BY <1>5, <1>6, SequenceOfItsRange
<1>8. \A i \in DOMAIN s : i \in DOMAIN j /\ j[i] = s[i]
  BY <1>1, <1>4, <1>5
<1>9. \A i \in DOMAIN t : i + Len(s) \in DOMAIN j /\ j[i + Len(s)] = t[i]
  <2> TAKE i \in DOMAIN t
  <2>1. /\ i + Len(s) \in 1..Len(s) + Len(t) /\ ~(i + Len(s) <= Len(s))
        /\ i + Len(s) - Len(s) = i
    BY <1>1
  <2>2. j[i + Len(s)] = t[i + Len(s) - Len(s)]
    BY <1>4, <2>1
  <2> QED
    BY <1>5, <2>1, <2>2
<1>10. \A i \in DOMAIN j :
         \/ i \in DOMAIN s /\ j[i] = s[i]
         \/ i - Len(s) \in DOMAIN t /\ j[i] = t[i - Len(s)]
  BY <1>1, <1>4, <1>5
<1>11. \A x \in Range(s) \cup Range(t) : x \in Range(j)
  BY <1>8, <1>9 DEF Range
<1>12. \A x \in Range(j) : x \in Range(s) \cup Range(t)
  BY <1>10 DEF Range
<1> QED
  BY <1>7, <1>11, <1>12 DEF j

LEMMA SetToSeqIs ==
  ASSUME NEW S, IsFiniteSet(S)
  PROVE  SetToSeq(S) \in Seq(Range(SetToSeq(S))) /\ Range(SetToSeq(S)) \subseteq S
<1> DEFINE n == Cardinality(S)
           f == SetToSeq(S)
<1>1. n \in Nat /\ ExistsBijection(1..n, S)
  BY FS_CardinalityType
<1>2. \E g \in [1..n -> S] : IsInjective(g)
  <2>1. PICK g \in Bijection(1..n, S) : TRUE
    BY <1>1 DEF ExistsBijection
  <2> QED
    BY <2>1 DEF Bijection, Injection, IsInjective
<1>3. f \in [1..n -> S]
  BY <1>2 DEF SetToSeq
<1> HIDE DEF f
<1>4. f = [i \in 1..n |-> f[i]]
  BY <1>3
<1>5. f \in Seq(Range(f))
  BY <1>1, <1>4, SequenceOfItsRange
<1>6. Range(f) \subseteq S
  BY <1>3 DEF Range
<1> QED
  BY <1>5, <1>6 DEF f

LEMMA OneInSequence ==
  ASSUME NEW x
  PROVE  <<x>> \in Seq(Range(<<x>>)) /\ Range(<<x>>) = {x} /\ <<>> \in Seq(Range(<<>>))
         /\ Range(<<>>) = {}
<1>1. DOMAIN <<x>> = 1..1 /\ <<x>>[1] = x /\ Len(<<x>>) = 1 /\ <<x>> \in Seq({x})
  OBVIOUS
<1>2. Range(<<x>>) = {x}
  BY <1>1 DEF Range
<1>3. Range(<<>>) = {}
  BY DEF Range
<1> QED
  BY <1>1, <1>2, <1>3
-----------------------------------------------------------------------------
(* One schema is expanded: what it leads to is pending, unless the         *)
(* reference is cyclic.                                                    *)
Fields == {"doc", "at", "base", "memberships", "path"}

LEMMA EntryIs ==
  ASSUME NEW l, DOMAIN l = Fields
  PROVE  Bare(Entry(l)) = Bare(l) /\ DOMAIN Entry(l) = Fields
<1>1. \A m : /\ [l EXCEPT !.memberships = m].doc = l.doc
             /\ [l EXCEPT !.memberships = m].at = l.at
             /\ [l EXCEPT !.memberships = m].base = l.base
             /\ DOMAIN [l EXCEPT !.memberships = m] = Fields
  BY DEF Fields
<1>2. Entry(l) = l \/ \E m : Entry(l) = [l EXCEPT !.memberships = m]
  BY Zenon DEF Entry
<1> QED
  BY <1>1, <1>2 DEF Bare

LEMMA LocatedIs ==
  ASSUME NEW t, NEW memberships
  PROVE  /\ Bare(Located(t, memberships)) = Bare(t) /\ DOMAIN Located(t, memberships) = Fields
         /\ \A l : /\ Bare(Via(l, t, memberships)) = Bare(t)
                   /\ DOMAIN Via(l, t, memberships) = Fields
<1>1. Bare(Located(t, memberships)) = Bare(t) /\ DOMAIN Located(t, memberships) = Fields
  BY DEF Located, Bare, Fields
<1>2. ASSUME NEW l
      PROVE  Bare(Via(l, t, memberships)) = Bare(t) /\ DOMAIN Via(l, t, memberships) = Fields
  BY DEF Via, Located, Bare, Fields
<1> QED
  BY <1>1, <1>2

(* What a schema leads to.                                                 *)
LEMMA LedTo ==
  ASSUME Prepared, NEW l, Bare(l) \in Validating
  PROVE  /\ Followed(l) \in Seq(Range(Followed(l))) /\ Branching(l) \in Seq(Range(Branching(l)))
         /\ \A m \in Range(Followed(l)) \cup Range(Branching(l)) : DOMAIN m = Fields
         /\ Bares(Range(Followed(l))) \cup Bares(Range(Branching(l))) \subseteq OnwardFrom(l)
         /\ ~IsCyclic(l) =>
              OnwardFrom(l) = Bares(Range(Followed(l))) \cup Bares(Range(Branching(l)))
<1> DEFINE n == Cardinality(Below(l, "allOf"))
           target == Target(l, "ref")
           branches == { Branches(l)[i] : i \in DOMAIN Branches(l) }
<1>1. /\ OnwardFrom(l) = { Target(l, k) : k \in {"ref"} \cap DOMAIN SchemaOf(l) } \cup branches
      /\ OnwardFrom(l) \subseteq Validating
  BY OnwardIs
<1>2. \A m \in Validating : Bare(m) = m
  BY ValidatingIs, BareIs DEF Prepared
<1>3. n \in Nat
  <2>1. Bare(l) \in visited /\ Bare(l).doc = l.doc /\ Bare(l).at = l.at
    BY ValidatingIs DEF Prepared, Bare
  <2>2. IsFiniteSet(DOMAIN documents[l.doc].nodes)
    BY <2>1, NodesAre DEF Prepared, IsDocument
  <2>3. IsFiniteSet(Below(l, "allOf"))
    BY <2>2, FS_Subset DEF Below, Children
  <2> QED
    BY <2>3, FS_CardinalityType
<1>4. DOMAIN Branches(l) = 1..n
  BY DEF Branches
<1> HIDE DEF n
<1>5. /\ Branching(l) \in Seq(Range(Branching(l))) /\ DOMAIN Branching(l) = 1..n
      /\ \A i \in 1..n : /\ Bare(Branching(l)[i]) = Bare(Branches(l)[i])
                         /\ DOMAIN Branching(l)[i] = Fields
  <2> DEFINE b == Branching(l)
  <2>1. /\ DOMAIN b = 1..n /\ b = [i \in 1..n |-> b[i]]
        /\ \A i \in 1..n : b[i] = Via(l, Branches(l)[i], Joined(l.memberships, Membership(Place(l), i)))
    BY <1>4 DEF Branching
  <2> HIDE DEF b
  <2>2. b \in Seq(Range(b))
    BY <1>3, <2>1, SequenceOfItsRange
  <2>3. ASSUME NEW i \in 1..n PROVE Bare(b[i]) = Bare(Branches(l)[i]) /\ DOMAIN b[i] = Fields
    <3> DEFINE t == Branches(l)[i]
               m == Joined(l.memberships, Membership(Place(l), i))
    <3>1. b[i] = Via(l, t, m)
      BY <2>1
    <3> HIDE DEF t, m
    <3>2. Bare(Via(l, t, m)) = Bare(t) /\ DOMAIN Via(l, t, m) = Fields
      BY LocatedIs
    <3> QED
      BY <3>1, <3>2 DEF t
  <2> QED
    BY <2>1, <2>2, <2>3 DEF b
<1>6. Bares(Range(Branching(l))) = branches
  <2>1. \A i \in 1..n : Bare(Branches(l)[i]) = Branches(l)[i]
    BY <1>1, <1>2, <1>4
  <2> QED
    BY <1>4, <1>5, <2>1 DEF Bares, Range
<1>7. /\ Followed(l) \in Seq(Range(Followed(l)))
      /\ \A m \in Range(Followed(l)) : DOMAIN m = Fields
      /\ Has(SchemaOf(l), "ref") /\ ~IsCyclic(l) => Bares(Range(Followed(l))) = {target}
      /\ ~(Has(SchemaOf(l), "ref") /\ ~IsCyclic(l)) => Bares(Range(Followed(l))) = {}
  <2>1. CASE Has(SchemaOf(l), "ref") /\ ~IsCyclic(l)
    <3> DEFINE v == Via(l, target, l.memberships)
    <3>1. Followed(l) = <<v>>
      BY <2>1 DEF Followed
    <3>2. DOMAIN v = Fields /\ Bare(v) = Bare(target)
      BY LocatedIs
    <3>3. Bare(target) = target
      BY <1>1, <1>2, <2>1 DEF Has
    <3> HIDE DEF v
    <3>4. Range(<<v>>) = {v} /\ <<v>> \in Seq(Range(<<v>>))
      BY OneInSequence
    <3> QED
      BY <2>1, <3>1, <3>2, <3>3, <3>4 DEF Bares
  <2>2. CASE ~(Has(SchemaOf(l), "ref") /\ ~IsCyclic(l))
    <3>1. Followed(l) = <<>>
      BY <2>2 DEF Followed
    <3>2. Range(<<>>) = {} /\ <<>> \in Seq(Range(<<>>))
      BY OneInSequence
    <3> QED
      BY <2>2, <3>1, <3>2 DEF Bares
  <2> QED
    BY <2>1, <2>2
<1>8. Has(SchemaOf(l), "ref") =>
        { Target(l, k) : k \in {"ref"} \cap DOMAIN SchemaOf(l) } = {target}
  BY DEF Has
<1>9. ~Has(SchemaOf(l), "ref") =>
        { Target(l, k) : k \in {"ref"} \cap DOMAIN SchemaOf(l) } = {}
  BY DEF Has
<1>10. \A m \in Range(Branching(l)) : DOMAIN m = Fields
  BY <1>5 DEF Range
<1> HIDE DEF target, branches
<1>11. Bares(Range(Followed(l))) \cup Bares(Range(Branching(l))) \subseteq OnwardFrom(l)
  BY <1>1, <1>6, <1>7, <1>8
<1>12. ~IsCyclic(l) => OnwardFrom(l) = Bares(Range(Followed(l))) \cup Bares(Range(Branching(l)))
  BY <1>1, <1>6, <1>7, <1>8, <1>9
<1> QED
  BY <1>5, <1>7, <1>10, <1>11, <1>12

LEMMA ExpandKeeps ==
  ASSUME ProjectionInv, Prepared, Expand, UNCHANGED resourceVars PROVE ProjectionInv'
<1> DEFINE last == Last(pending)
           l == Entry(last)
           key == <<Bare(l), ToSet(l.memberships)>>
           new == key \notin seen
           front == Front(pending)
<1>1. /\ stage = "expanding" /\ pending # <<>> /\ UNCHANGED <<agenda, projected>>
      /\ \/ stage' = "limit" /\ UNCHANGED expansionVars
         \/ /\ pending' = IF new THEN front \o Followed(l) \o Branching(l) ELSE front
            /\ seen' = seen \cup {key}
            /\ expanded' = IF new THEN expanded \cup {Applying(l)} ELSE expanded
            /\ cycles' = IF new /\ IsCyclic(l) THEN cycles \cup {Place(l)} ELSE cycles
            /\ UNCHANGED <<subject, stage>>
  BY Zenon DEF Expand
<1>2. /\ Expansion(pending, seen, expanded, cycles) /\ SubjectInv(subject)
      /\ AgendaInv(agenda) /\ \A n \in projected : NodeInv(n)
      /\ outcome = "prepared" /\ Answering
  BY <1>1 DEF ProjectionInv
<1>3. CASE stage' = "limit" /\ UNCHANGED expansionVars
  <2>1. UNCHANGED <<pending, seen, expanded, cycles, subject>>
    BY <1>3 DEF expansionVars
  <2> QED
    BY <1>1, <1>2, <1>3, <2>1, ProjectionInvAfter
<1>4. /\ last \in Range(pending) /\ front \in Seq(Range(front))
      /\ Range(pending) = Range(front) \cup {last}
      /\ pending \in Seq(Range(pending))
  <2>1. pending \in Seq(Range(pending))
    BY <1>2 DEF Expansion
  <2> QED
    BY <1>1, <2>1, RangeOfFront
<1>5. /\ Bare(last) \in Validating /\ DOMAIN last = Fields
      /\ Bares(Range(front)) \subseteq Validating /\ \A m \in Range(front) : DOMAIN m = Fields
      /\ Bares(Range(pending)) = Bares(Range(front)) \cup {Bare(last)}
  BY <1>2, <1>4 DEF Expansion, Fields, Bares
<1>6. Bare(l) = Bare(last) /\ key[1] = Bare(l)
  BY <1>5, EntryIs
<1> HIDE DEF last, front, l
<1>7. /\ Known(expanded) /\ \A k \in seen : k[1] \in Bares(expanded)
      /\ cycles = {} => \A m \in expanded :
           OnwardFrom(m) \subseteq Bares(expanded) \cup Bares(Range(front)) \cup {Bare(l)}
  BY <1>2, <1>5, <1>6 DEF Expansion
<1>8. ASSUME new, pending' = front \o Followed(l) \o Branching(l), seen' = seen \cup {key},
             expanded' = expanded \cup {Applying(l)},
             cycles' = IF IsCyclic(l) THEN cycles \cup {Place(l)} ELSE cycles
      PROVE  Expansion(pending', seen', expanded', cycles')
  <2>1. /\ Followed(l) \in Seq(Range(Followed(l))) /\ Branching(l) \in Seq(Range(Branching(l)))
        /\ \A m \in Range(Followed(l)) \cup Range(Branching(l)) : DOMAIN m = Fields
        /\ Bares(Range(Followed(l))) \cup Bares(Range(Branching(l))) \subseteq OnwardFrom(l)
        /\ ~IsCyclic(l) =>
              OnwardFrom(l) = Bares(Range(Followed(l))) \cup Bares(Range(Branching(l)))
        /\ OnwardFrom(l) \subseteq Validating
    BY <1>5, <1>6, LedTo, OnwardIs
  <2>2. /\ front \o Followed(l) \in Seq(Range(front \o Followed(l)))
        /\ Range(front \o Followed(l)) = Range(front) \cup Range(Followed(l))
    BY <1>4, <2>1, RangeOfJoin
  <2>3. /\ pending' \in Seq(Range(pending'))
        /\ Range(pending') = Range(front) \cup Range(Followed(l)) \cup Range(Branching(l))
    BY <1>8, <2>1, <2>2, RangeOfJoin
  <2>4. Bares(Range(pending')) =
          Bares(Range(front)) \cup Bares(Range(Followed(l))) \cup Bares(Range(Branching(l)))
    <3>1. \A S, T, U : Bares(S \cup T \cup U) = Bares(S) \cup Bares(T) \cup Bares(U)
      BY DEF Bares
    <3> QED
      BY <2>3, <3>1
  <2>5. Bare(Applying(l)) = Bare(l)
    BY DEF Applying, Bare
  <2>6. Bares(expanded') = Bares(expanded) \cup {Bare(l)}
    <3>1. \A S, x : Bares(S \cup {x}) = Bares(S) \cup {Bare(x)}
      BY DEF Bares
    <3> QED
      BY <1>8, <2>5, <3>1
  <2>7. Known(expanded')
    <3>1. IsFiniteSet(expanded')
      BY <1>7, <1>8, FS_AddElement DEF Known
    <3> QED
      BY <1>5, <1>6, <1>7, <2>6, <3>1 DEF Known
  <2>8. ASSUME cycles' = {}, NEW m \in expanded'
        PROVE  OnwardFrom(m) \subseteq Bares(expanded') \cup Bares(Range(pending'))
    <3>1. cycles = {} /\ ~IsCyclic(l)
      BY <1>8, <2>8
    <3>2. CASE m \in expanded
      BY <1>7, <2>4, <2>6, <3>1, <3>2
    <3>3. CASE m = Applying(l)
      <4>1. OnwardFrom(m) = OnwardFrom(l)
        BY <2>5, <3>3 DEF OnwardFrom
      <4> QED
        BY <2>1, <2>4, <3>1, <4>1
    <3> QED
      BY <1>8, <3>2, <3>3
  <2>9. \A k \in seen' : k[1] \in Bares(expanded')
    BY <1>6, <1>7, <1>8, <2>6
  <2>10. \A m \in Range(pending') : DOMAIN m = Fields
    BY <1>5, <2>1, <2>3
  <2>11. Bares(Range(pending')) \subseteq Validating
    BY <1>5, <2>1, <2>4
  <2> QED
    BY <2>3, <2>7, <2>8, <2>9, <2>10, <2>11 DEF Expansion, Fields
<1>9. ASSUME ~new, pending' = front, seen' = seen \cup {key}, expanded' = expanded,
             cycles' = cycles
      PROVE  Expansion(pending', seen', expanded', cycles')
  <2>1. Bare(l) \in Bares(expanded)
    BY <1>6, <1>7, <1>9
  <2>2. \A k \in seen' : k[1] \in Bares(expanded')
    BY <1>6, <1>7, <1>9, <2>1
  <2>3. cycles' = {} => \A m \in expanded' :
          OnwardFrom(m) \subseteq Bares(expanded') \cup Bares(Range(pending'))
    BY <1>7, <1>9, <2>1
  <2> QED
    BY <1>4, <1>5, <1>7, <1>9, <2>2, <2>3 DEF Expansion, Fields
<1>10. CASE /\ pending' = IF new THEN front \o Followed(l) \o Branching(l) ELSE front
            /\ seen' = seen \cup {key}
            /\ expanded' = IF new THEN expanded \cup {Applying(l)} ELSE expanded
            /\ cycles' = IF new /\ IsCyclic(l) THEN cycles \cup {Place(l)} ELSE cycles
            /\ UNCHANGED <<subject, stage>>
  <2> HIDE DEF new, key
  <2>1. Expansion(pending', seen', expanded', cycles')
    BY <1>8, <1>9, <1>10
  <2> QED
    BY <1>1, <1>2, <1>10, <2>1, ProjectionInvAfter
<1> QED
  BY <1>1, <1>3, <1>10 DEF l, key, new, front, last
-----------------------------------------------------------------------------
LEMMA StartExpansion ==
  ASSUME NEW p, p \in Seq(Range(p)), Bares(Range(p)) \subseteq Validating,
         \A l \in Range(p) : DOMAIN l = Fields
  PROVE  Expansion(p, {}, {}, {})
<1>1. Known({})
  BY FS_EmptySet DEF Known, Bares
<1> QED
  BY <1>1 DEF Expansion, Fields

LEMMA NothingComplete == Known({}) /\ Complete({}) /\ IsBinding(<<>>)
BY FS_EmptySet DEF Known, Complete, Bares, IsBinding

(* Some schemas to expand.                                                 *)
LEMMA Starting ==
  ASSUME NEW S, IsFiniteSet(S), Bares(S) \subseteq Validating, \A l \in S : DOMAIN l = Fields
  PROVE  Expansion(SetToSeq(S), {}, {}, {})
<1>1. SetToSeq(S) \in Seq(Range(SetToSeq(S))) /\ Range(SetToSeq(S)) \subseteq S
  BY SetToSeqIs
<1>2. Bares(Range(SetToSeq(S))) \subseteq Validating /\ \A l \in Range(SetToSeq(S)) : DOMAIN l = Fields
  BY <1>1 DEF Bares
<1> QED
  BY <1>1, <1>2, StartExpansion

LEMMA Appended ==
  ASSUME NEW binding, IsBinding(binding), NEW x
  PROVE  IsBinding(Append(binding, x)) /\ Last(Append(binding, x)) = x
<1> DEFINE S == Range(binding) \cup {x}
           s == Append(binding, x)
<1>1. Len(binding) \in Nat /\ binding \in [1..Len(binding) -> Range(binding)]
  BY LenProperties DEF IsBinding
<1>2. binding \in [1..Len(binding) -> S]
  BY <1>1
<1>3. binding \in Seq(S)
  <2> HIDE DEF S
  <2> QED
    BY <1>1, <1>2, FunctionIsSequence
<1>4. x \in S
  OBVIOUS
<1> HIDE DEF S
<1>5. /\ s \in Seq(S) /\ Len(s) = Len(binding) + 1 /\ s[Len(binding) + 1] = x
  BY <1>3, <1>4, AppendProperties
<1> HIDE DEF s
<1>6. DOMAIN s = 1..Len(s) /\ Len(s) \in Nat /\ s = [i \in 1..Len(s) |-> s[i]]
  BY <1>5, LenProperties
<1>7. s \in Seq(Range(s))
  BY <1>6, SequenceOfItsRange
<1>8. Last(s) = x
  BY <1>5 DEF Last
<1> QED
  BY <1>7, <1>8 DEF IsBinding, s

LEMMA FirstFrame ==
  ASSUME AgendaInv(agenda), agenda # <<>>
  PROVE  /\ Head(agenda) = agenda[1] /\ 1 \in DOMAIN agenda
         /\ FrameInv(Head(agenda)) /\ AgendaInv(Tail(agenda))
         /\ \A f : FrameInv(f) => AgendaInv([agenda EXCEPT ![1] = f])
<1> DEFINE n == Len(agenda)
           rest == Tail(agenda)
<1>1. /\ rest \in Seq(Range(rest)) /\ n \in Nat \ {0} /\ DOMAIN agenda = 1..n
      /\ Head(agenda) = agenda[1] /\ DOMAIN rest = 1..n - 1
      /\ \A i \in 1..n - 1 : i + 1 \in DOMAIN agenda /\ rest[i] = agenda[i + 1]
  BY Popped DEF AgendaInv
<1> HIDE DEF rest
<1>2. 1 \in DOMAIN agenda /\ FrameInv(Head(agenda))
  BY <1>1 DEF AgendaInv
<1>3. AgendaInv(rest)
  BY <1>1 DEF AgendaInv
<1>4. ASSUME NEW f, FrameInv(f) PROVE AgendaInv([agenda EXCEPT ![1] = f])
  <2> DEFINE a == [agenda EXCEPT ![1] = f]
  <2>1. DOMAIN a = 1..n /\ a[1] = f /\ \A i \in 1..n : i = 1 \/ a[i] = agenda[i]
    BY <1>1
  <2>2. a = [i \in 1..n |-> a[i]]
    BY <1>1
  <2> HIDE DEF a
  <2>3. a \in Seq(Range(a))
    BY <1>1, <2>1, <2>2, SequenceOfItsRange
  <2>4. \A i \in DOMAIN a : FrameInv(a[i])
    BY <1>1, <1>4, <2>1 DEF AgendaInv
  <2> QED
    BY <2>3, <2>4 DEF AgendaInv, a
<1> QED
  BY <1>1, <1>2, <1>3, <1>4 DEF rest

LEMMA MoreFrames ==
  ASSUME AgendaInv(agenda), NEW f, FrameInv(f)
  PROVE  AgendaInv(<<f>> \o agenda) /\ AgendaInv(<<f>>)
<1> DEFINE more == <<f>> \o agenda
<1>1. /\ more \in Seq(Range(more)) /\ more[1] = f
      /\ DOMAIN agenda = 1..Len(agenda)
      /\ \A i \in DOMAIN more : i = 1 \/ (i - 1 \in 1..Len(agenda) /\ more[i] = agenda[i - 1])
  <2>1. agenda \in Seq(Range(agenda))
    BY DEF AgendaInv
  <2> QED
    BY <2>1, Pushed
<1> HIDE DEF more
<1>2. AgendaInv(more)
  BY <1>1 DEF AgendaInv
<1>3. AgendaInv(<<f>>)
  <2>1. <<f>> \in Seq(Range(<<f>>)) /\ DOMAIN <<f>> = {1} /\ <<f>>[1] = f
    BY OneInSequence
  <2> QED
    BY <2>1 DEF AgendaInv
<1> QED
  BY <1>2, <1>3 DEF more

LEMMA FrameIs ==
  ASSUME NEW binding, IsBinding(binding), NEW schemas, Known(schemas), NEW template,
         NEW list, Complete(list)
  PROVE  FrameInv(Frame(binding, schemas, template, list))
BY DEF FrameInv, Frame
-----------------------------------------------------------------------------
(* The schema of a property, or of the items of a list.                    *)
LEMMA StepBelow ==
  ASSUME Prepared, NEW l, Bare(l) \in Validating, NEW keyword \in ApplicableKeywords,
         NEW at \in Below(l, keyword)
  PROVE  /\ at = Append(l.at, Last(at)) /\ Last(at)[1] = keyword /\ IsStep(Last(at))
         /\ Sub(l, at) \in Validating
         /\ l.doc \in DOMAIN input.documents
         /\ at \in DOMAIN input.documents[l.doc].nodes
<1> DEFINE b == Bare(l)
<1>1. b \in visited /\ b.doc = l.doc /\ b.at = l.at /\ b.base = l.base
  BY ValidatingIs DEF Prepared, Bare
<1>2. keyword \in SchemaKeywords
  BY DEF SchemaKeywords
<1>3. at \in Children(documents, b.doc, b.at, {keyword})
  BY <1>1, <1>2 DEF Below, Children
<1>4. at = Append(b.at, Last(at)) /\ Last(at)[1] \in {keyword} /\ IsStep(Last(at))
  BY <1>1, <1>3, ChildSteps DEF Prepared
<1>5. at \in Children(documents, b.doc, b.at, ApplicableKeywords)
  BY <1>3 DEF Children
<1>6. Sub(b, at) \in Subschemas(b, ApplicableKeywords)
  BY <1>5 DEF Subschemas
<1>7. Sub(b, at) \in Validating
  BY <1>6, ValidatingIs DEF Prepared
<1>8. Sub(l, at) = Sub(b, at)
  BY <1>1 DEF Sub
<1>9. at \in DOMAIN documents[l.doc].nodes
  BY DEF Below, Children
<1>10. l.doc \in DOMAIN input.documents /\ at \in DOMAIN input.documents[l.doc].nodes
  BY <1>1, <1>9, NodesAre DEF Prepared
<1> HIDE DEF b
<1> QED
  BY <1>1, <1>4, <1>7, <1>8, <1>10

LEMMA PropertyIs ==
  ASSUME Prepared, NEW l, Bare(l) \in Validating, NEW name \in PropertyNames({l})
  PROVE  Property(l, name) \in Validating /\ name # Item
<1>1. PICK at \in Below(l, "properties") : name = Last(at)[2]
  BY DEF PropertyNames
<1>2. "properties" \in ApplicableKeywords /\ "properties" \in NamedKeywords
      /\ "properties" \in SchemaKeywords
  BY DEF ApplicableKeywords, NamedKeywords, SchemaKeywords
<1>3. /\ at = Append(l.at, Last(at)) /\ Last(at)[1] = "properties" /\ IsStep(Last(at))
      /\ Sub(l, at) \in Validating
      /\ l.doc \in DOMAIN input.documents
      /\ at \in DOMAIN input.documents[l.doc].nodes
  BY <1>1, <1>2, StepBelow
<1>4. Last(at) = <<"properties", name>>
  BY <1>1, <1>2, <1>3 DEF IsStep
<1>5. Property(l, name) \in Validating
  BY <1>3, <1>4 DEF Property
<1>6. name # Item
  <2>1. input \in Input /\ WellFormed(input.documents)
    BY DEF Prepared, CoverageInv, ResourcesInv
  <2>2. at \in Seq(Steps(input.documents))
    BY <1>3, <2>1, PointersAre
  <2>3. Len(at) \in DOMAIN at
    <3>1. Len(at) = Len(l.at) + 1 /\ Len(l.at) \in Nat
      <4>1. Bare(l) \in visited /\ Bare(l).doc = l.doc /\ Bare(l).at = l.at
        BY ValidatingIs DEF Prepared, Bare
      <4>2. Len(l.at) \in Nat
        BY <4>1, NodesAre DEF Prepared
      <4> QED
        BY <1>1, <4>2 DEF Below, Children
    <3> QED
      BY <2>2, <3>1, LenProperties
  <2> QED
    BY <1>1, <1>3, <2>1, <2>3, ProjectionAssumption DEF Last
<1> QED
  BY <1>5, <1>6

LEMMA ItemsIs ==
  ASSUME Prepared, NEW l, Bare(l) \in Validating, Below(l, "items") # {}
  PROVE  Sub(l, Append(l.at, <<"items">>)) \in Validating
<1>1. PICK at \in Below(l, "items") : TRUE
  OBVIOUS
<1>2. "items" \in ApplicableKeywords /\ "items" \notin NamedKeywords /\ "items" \in SchemaKeywords
  BY DEF ApplicableKeywords, NamedKeywords, SchemaKeywords
<1>3. /\ at = Append(l.at, Last(at)) /\ Last(at)[1] = "items" /\ IsStep(Last(at))
      /\ Sub(l, at) \in Validating
  BY <1>1, <1>2, StepBelow
<1>4. Last(at) = <<"items">>
  BY <1>2, <1>3 DEF IsStep
<1> QED
  BY <1>3, <1>4

LEMMA FiniteImage ==
  ASSUME NEW S, IsFiniteSet(S), NEW f, f = [l \in S |-> f[l]]
  PROVE  IsFiniteSet({ f[l] : l \in S })
<1> DEFINE T == { f[l] : l \in S }
<1>1. f \in [S -> T] /\ \A t \in T : \E l \in S : f[l] = t
  OBVIOUS
<1>2. f \in Surjection(S, T)
  BY <1>1, Zenon DEF Surjection
<1> HIDE DEF T
<1>3. IsFiniteSet(T)
  BY <1>2, FS_Surjection, Zenon
<1> QED
  BY <1>3 DEF T
-----------------------------------------------------------------------------
LEMMA LocatedSchemas ==
  ASSUME Prepared, NEW S, IsFiniteSet(S), NEW f, f = [l \in S |-> f[l]],
         \A l \in S : \E t \in Validating : \E memberships : f[l] = Located(t, memberships)
  PROVE  Expansion(SetToSeq({ f[l] : l \in S }), {}, {}, {})
<1> DEFINE T == { f[l] : l \in S }
<1>1. IsFiniteSet(T)
  BY FiniteImage
<1>2. ASSUME NEW l \in S PROVE Bare(f[l]) \in Validating /\ DOMAIN f[l] = Fields
  <2> PICK t \in Validating : \E memberships : f[l] = Located(t, memberships)
    OBVIOUS
  <2>1. PICK memberships : f[l] = Located(t, memberships)
    OBVIOUS
  <2>2. Bare(f[l]) = Bare(t) /\ DOMAIN f[l] = Fields
    BY <2>1, LocatedIs
  <2>3. Bare(t) = t
    BY ValidatingIs, BareIs DEF Prepared
  <2> QED
    BY <2>2, <2>3
<1>3. Bares(T) \subseteq Validating /\ \A l \in T : DOMAIN l = Fields
  BY <1>2 DEF Bares
<1> HIDE DEF T
<1>4. Expansion(SetToSeq(T), {}, {}, {})
  BY <1>1, <1>3, Starting
<1> QED
  BY <1>4 DEF T
-----------------------------------------------------------------------------
(* The projection starts at the root.                                      *)
LEMMA IncludeKeeps ==
  ASSUME ProjectionInv, ResourcesInv, CoverageInv, IncludeValidationResources,
         UNCHANGED resourceVars
  PROVE  ProjectionInv'
<1> DEFINE root == Root(documents, 1)
           start == <<Located(root, <<>>)>>
<1>1. /\ stage = "waiting" /\ outcome = "prepared" /\ UNCHANGED <<agenda, projected>>
      /\ \/ stage' = "unsupported-reference" /\ UNCHANGED expansionVars
         \/ /\ ~\E l \in Validated({root}) : Answered(l) # References(SchemaOf(l))
            /\ stage' = "limit" /\ UNCHANGED expansionVars
         \/ /\ ~\E l \in Validated({root}) : Answered(l) # References(SchemaOf(l))
            /\ stage' = "expanding" /\ ExpandNext(start, "root", <<>>, {})
  BY Zenon DEF IncludeValidationResources
<1>2. /\ Expansion(pending, seen, expanded, cycles) /\ SubjectInv(subject)
      /\ AgendaInv(agenda) /\ \A n \in projected : NodeInv(n)
  BY DEF ProjectionInv
<1>3. AgendaInv(agenda') /\ \A n \in projected' : NodeInv(n)
  BY <1>1, <1>2
<1>4. CASE stage' = "unsupported-reference" /\ UNCHANGED expansionVars
  <2>1. UNCHANGED <<pending, seen, expanded, cycles, subject>>
    BY <1>4 DEF expansionVars
  <2> QED
    BY <1>1, <1>2, <1>3, <1>4, <2>1, ProjectionInvAfter
<1>5. ASSUME ~\E l \in Validated({root}) : Answered(l) # References(SchemaOf(l))
      PROVE  Answering
  BY <1>5 DEF Answering, Validating
<1>6. CASE /\ ~\E l \in Validated({root}) : Answered(l) # References(SchemaOf(l))
           /\ stage' = "limit" /\ UNCHANGED expansionVars
  <2>1. UNCHANGED <<pending, seen, expanded, cycles, subject>>
    BY <1>6 DEF expansionVars
  <2>2. Answering
    BY <1>5, <1>6
  <2> HIDE DEF root, start
  <2> QED
    BY <1>1, <1>2, <1>3, <1>6, <2>1, <2>2, ProjectionInvAfter
<1>7. CASE /\ ~\E l \in Validated({root}) : Answered(l) # References(SchemaOf(l))
           /\ stage' = "expanding" /\ ExpandNext(start, "root", <<>>, {})
  <2>1. Answering
    BY <1>5, <1>7
  <2>2. root \in Validating /\ Bare(root) = root
    BY <1>1, ValidatingIs, BareIs
  <2>3. Bare(Located(root, <<>>)) = root /\ DOMAIN Located(root, <<>>) = Fields
    BY <2>2, LocatedIs
  <2>4. start \in Seq(Range(start)) /\ Range(start) = {Located(root, <<>>)}
    BY OneInSequence
  <2>5. /\ pending' = start /\ seen' = {} /\ expanded' = {} /\ cycles' = {}
        /\ subject' = [of |-> "root", binding |-> <<>>, list |-> {}]
    BY <1>7 DEF ExpandNext
  <2> HIDE DEF root, start
  <2>6. Bares(Range(start)) \subseteq Validating
    BY <2>2, <2>3, <2>4 DEF Bares
  <2>7. \A l \in Range(start) : DOMAIN l = Fields
    BY <2>3, <2>4
  <2>8. Expansion(start, {}, {}, {})
    BY <2>4, <2>6, <2>7, StartExpansion
  <2>9. Expansion(pending', seen', expanded', cycles')
    BY <2>5, <2>8
  <2>10. SubjectInv(subject')
    BY <2>5, NothingComplete DEF SubjectInv
  <2> QED
    BY <1>1, <1>3, <1>7, <2>1, <2>9, <2>10, ProjectionInvAfter
<1> QED
  BY <1>1, <1>4, <1>6, <1>7

(* A property is taken: the schemas that declare it there are to apply.    *)
LEMMA StartPropertyKeeps ==
  ASSUME ProjectionInv, Prepared, StartProperty, UNCHANGED resourceVars
  PROVE  ProjectionInv'
<1> DEFINE frame == Head(agenda)
           located(name) == [ l \in Declaring(frame.schemas, name) |->
                                Located(Property(l, name), l.memberships) ]
           starts(name) == { Located(Property(l, name), l.memberships) :
                               l \in Declaring(frame.schemas, name) }
<1>1. /\ stage = "choosing" /\ agenda # <<>> /\ UNCHANGED projected
      /\ \E name \in frame.left :
           \/ stage' = "limit" /\ UNCHANGED <<agenda, expansionVars>>
           \/ /\ agenda' = [agenda EXCEPT ![1].left = @ \ {name}]
              /\ ExpandNext(SetToSeq(starts(name)), "property", Append(frame.binding, name), {})
              /\ stage' = "expanding"
  BY Zenon DEF StartProperty
<1>2. /\ Expansion(pending, seen, expanded, cycles) /\ SubjectInv(subject)
      /\ AgendaInv(agenda) /\ \A n \in projected : NodeInv(n)
      /\ outcome = "prepared" /\ Answering
  BY <1>1 DEF ProjectionInv
<1>3. PICK name \in frame.left :
           \/ stage' = "limit" /\ UNCHANGED <<agenda, expansionVars>>
           \/ /\ agenda' = [agenda EXCEPT ![1].left = @ \ {name}]
              /\ ExpandNext(SetToSeq(starts(name)), "property", Append(frame.binding, name), {})
              /\ stage' = "expanding"
  BY <1>1
<1>4. CASE stage' = "limit" /\ UNCHANGED <<agenda, expansionVars>>
  <2>1. UNCHANGED <<pending, seen, expanded, cycles, subject, agenda>>
    BY <1>4 DEF expansionVars
  <2> QED
    BY <1>1, <1>2, <1>4, <2>1, ProjectionInvAfter
<1>5. /\ frame = agenda[1] /\ 1 \in DOMAIN agenda /\ FrameInv(frame)
      /\ \A f : FrameInv(f) => AgendaInv([agenda EXCEPT ![1] = f])
  BY <1>1, <1>2, FirstFrame
<1>6. CASE /\ agenda' = [agenda EXCEPT ![1].left = @ \ {name}]
           /\ ExpandNext(SetToSeq(starts(name)), "property", Append(frame.binding, name), {})
           /\ stage' = "expanding"
  <2> DEFINE S == Declaring(frame.schemas, name)
             f == located(name)
             rest == [frame EXCEPT !.left = @ \ {name}]
             binding == Append(frame.binding, name)
  <2>1. agenda' = [agenda EXCEPT ![1] = rest]
    BY <1>5, <1>6
  <2>2. FrameInv(rest)
    <3>1. /\ rest.schemas = frame.schemas /\ rest.list = frame.list
          /\ rest.binding = frame.binding /\ rest.left = frame.left \ {name}
          /\ DOMAIN rest = DOMAIN frame
      BY <1>5 DEF FrameInv
    <3> HIDE DEF rest, frame
    <3> QED
      BY <1>5, <3>1 DEF FrameInv
  <2>3. AgendaInv(agenda')
    <3> HIDE DEF rest, frame
    <3> QED
      BY <1>5, <2>1, <2>2
  <2>4. Known(frame.schemas) /\ IsBinding(frame.binding) /\ name \in PropertyNames(frame.schemas)
    BY <1>5 DEF FrameInv
  <2>5. ASSUME NEW l \in S
        PROVE  /\ name # Item
               /\ \E t \in Validating : \E memberships : f[l] = Located(t, memberships)
    <3>1. l \in frame.schemas /\ name \in PropertyNames({l})
      BY DEF Declaring
    <3>2. Bare(l) \in Validating
      BY <2>4, <3>1 DEF Known, Bares
    <3>3. Property(l, name) \in Validating /\ name # Item
      BY <3>1, <3>2, PropertyIs
    <3> QED
      BY <3>3
  <2>6. S # {}
    <3>1. PICK l \in frame.schemas : \E at \in Below(l, "properties") : name = Last(at)[2]
      BY <2>4 DEF PropertyNames
    <3>2. name \in PropertyNames({l})
      BY <3>1 DEF PropertyNames
    <3> QED
      BY <3>1, <3>2 DEF Declaring
  <2>7. IsFiniteSet(S)
    BY <2>4, FS_Subset DEF Known, Declaring
  <2>8. f = [l \in S |-> f[l]] /\ starts(name) = { f[l] : l \in S }
    OBVIOUS
  <2>9. name # Item
    BY <2>5, <2>6
  <2>10. IsBinding(binding) /\ Last(binding) = name
    BY <2>4, Appended
  <2>11. /\ pending' = SetToSeq(starts(name)) /\ seen' = {} /\ expanded' = {} /\ cycles' = {}
         /\ subject' = [of |-> "property", binding |-> binding, list |-> {}]
    BY <1>6, Zenon DEF ExpandNext
  <2> HIDE DEF S, f, binding, starts
  <2>12. Expansion(SetToSeq({ f[l] : l \in S }), {}, {}, {})
    BY <2>5, <2>7, <2>8, LocatedSchemas
  <2>13. Expansion(pending', seen', expanded', cycles')
    BY <2>8, <2>11, <2>12
  <2>14. SubjectInv(subject')
    BY <2>9, <2>10, <2>11, NothingComplete DEF SubjectInv
  <2> QED
    BY <1>1, <1>2, <1>6, <2>3, <2>13, <2>14, ProjectionInvAfter
<1> QED
  BY <1>3, <1>4, <1>6

(* All properties of an object are placed: the list whose template it is   *)
(* takes the lengths its schemas admit.                                    *)
LEMMA UnsupportedIs ==
  \A binding, schemas, findings : NodeInv(Unsupported(binding, schemas, findings))
BY DEF NodeInv, Unsupported, ProjectedNode

LEMMA ObjectIs ==
  \A binding, schemas : NodeInv(Structure(binding, schemas, "object"))
BY DEF NodeInv, Structure, ProjectedNode

LEMMA ListIs ==
  ASSUME Prepared, NEW schemas, Complete(schemas), NEW binding
  PROVE  NodeInv(Structure(binding, schemas, "array"))
<1> DEFINE n == Structure(binding, schemas, "array")
<1>1. n.what = "array" /\ n.schemas = schemas /\ LengthsAdmitted(n)
  BY ListLengths DEF Complete
<1> HIDE DEF n
<1>2. NodeInv(n)
  BY <1>1 DEF NodeInv
<1> QED
  BY <1>2 DEF n

LEMMA FinishObjectKeeps ==
  ASSUME ProjectionInv, Prepared, FinishObject, UNCHANGED resourceVars
  PROVE  ProjectionInv'
<1> DEFINE frame == Head(agenda)
           list == Front(frame.binding)
           within == { node \in projected : IsPrefix(frame.binding, node.binding) }
           failed == { node \in within : node.what = "unsupported" }
           refused == Unsupported(list, frame.list, UNION { node.findings : node \in failed })
           whole == Structure(list, frame.list, "array")
<1>1. /\ stage = "choosing" /\ agenda # <<>>
      /\ agenda' = Tail(agenda) /\ stage' \in {"projected", "choosing"}
      /\ UNCHANGED expansionVars
      /\ \/ projected' = projected
         \/ projected' = (projected \ within) \cup {refused}
         \/ projected' = projected \cup {whole}
  BY Zenon DEF FinishObject
<1>2. /\ Expansion(pending, seen, expanded, cycles) /\ SubjectInv(subject)
      /\ AgendaInv(agenda) /\ \A n \in projected : NodeInv(n)
      /\ outcome = "prepared" /\ Answering
  BY <1>1 DEF ProjectionInv
<1>3. FrameInv(frame) /\ AgendaInv(agenda')
  BY <1>1, <1>2, FirstFrame
<1>4. Complete(frame.list)
  BY <1>3 DEF FrameInv
<1>5. NodeInv(refused)
  BY UnsupportedIs
<1>6. NodeInv(whole)
  BY <1>4, ListIs
<1>7. UNCHANGED <<pending, seen, expanded, cycles, subject>>
  BY <1>1 DEF expansionVars
<1> HIDE DEF frame, list, within, failed, refused, whole
<1>8. \A n \in projected' : NodeInv(n)
  BY <1>1, <1>2, <1>5, <1>6
<1> QED
  BY <1>1, <1>2, <1>3, <1>7, <1>8, ProjectionInvAfter
-----------------------------------------------------------------------------
(* What applies at the subject is found: without a cycle, all of it.       *)
LEMMA FoundIs ==
  ASSUME ProjectionInv, stage = "expanding", pending = <<>>
  PROVE  /\ Known(expanded) /\ (cycles = {} => Complete(expanded))
         /\ SubjectInv(subject) /\ AgendaInv(agenda) /\ \A n \in projected : NodeInv(n)
         /\ Expansion(pending, seen, expanded, cycles)
         /\ outcome = "prepared" /\ Answering
<1>1. /\ SubjectInv(subject) /\ AgendaInv(agenda) /\ \A n \in projected : NodeInv(n)
      /\ Expansion(pending, seen, expanded, cycles) /\ outcome = "prepared" /\ Answering
  BY DEF ProjectionInv
<1>2. Range(pending) = {}
  BY OneInSequence
<1>3. Bares(Range(pending)) = {}
  BY <1>2 DEF Bares
<1>4. Known(expanded) /\ (cycles = {} => Complete(expanded))
  BY <1>1, <1>3 DEF Expansion, Complete
<1> QED
  BY <1>1, <1>4

LEMMA PlaceRootKeeps ==
  ASSUME ProjectionInv, Prepared, stage = "expanding", pending = <<>>, UNCHANGED resourceVars,
         PlaceRoot(Shape(expanded)), UNCHANGED expansionVars
  PROVE  ProjectionInv'
<1> DEFINE frame == Frame(<<>>, expanded, FALSE, {})
<1>1. /\ \/ projected' = projected
         \/ projected' = {}
         \/ \E findings : projected' = {Unsupported(<<>>, expanded, findings)}
      /\ agenda' = agenda \/ agenda' = <<frame>>
      /\ stage' \in {"panicked", "choosing", "missing-properties", "projected"}
  BY Zenon DEF PlaceRoot, Panic
<1>2. /\ Known(expanded) /\ SubjectInv(subject) /\ AgendaInv(agenda)
      /\ \A n \in projected : NodeInv(n)
      /\ Expansion(pending, seen, expanded, cycles)
      /\ outcome = "prepared" /\ Answering
  BY FoundIs
<1>3. FrameInv(frame)
  BY <1>2, NothingComplete, FrameIs
<1>4. AgendaInv(<<frame>>)
  <2> HIDE DEF frame
  <2> QED
    BY <1>2, <1>3, MoreFrames
<1>5. UNCHANGED <<pending, seen, expanded, cycles, subject>>
  BY DEF expansionVars
<1> HIDE DEF frame
<1>6. AgendaInv(agenda')
  BY <1>1, <1>2, <1>4
<1>7. \A n \in projected' : NodeInv(n)
  BY <1>1, <1>2, UnsupportedIs
<1> QED
  BY <1>1, <1>2, <1>5, <1>6, <1>7, ProjectionInvAfter

(* A control, an object or a list at a property.                           *)
LEMMA PropertyControlIs ==
  ASSUME Prepared, NEW schemas, Complete(schemas), NEW shape, Shapely(schemas, shape),
         shape.choices.values # {} \/ shape.kind \in Scalars,
         NEW binding, Last(binding) # Item
  PROVE  NodeInv(Control(binding, schemas, shape.kind, shape.choices,
                         ScalarSeed(schemas, ControlKind(shape.kind, shape.choices),
                                    shape.choices.values)))
<1> DEFINE n == Control(binding, schemas, shape.kind, shape.choices,
                        ScalarSeed(schemas, ControlKind(shape.kind, shape.choices),
                                   shape.choices.values))
<1>1. /\ n.what = "control" /\ n.schemas = schemas /\ n.binding = binding
      /\ TakesAdmitted(n) /\ (n.seed # NoSeed => Admitted(n, n.seed))
  BY PropertyControl DEF Complete
<1> HIDE DEF n
<1>2. NodeInv(n)
  BY <1>1 DEF NodeInv, SeedAdmitted
<1> QED
  BY <1>2 DEF n

LEMMA ItemControlIs ==
  ASSUME Prepared, NEW schemas, Complete(schemas), NEW shape, Shapely(schemas, shape),
         shape.choices.values # {} \/ shape.kind \in Scalars, NEW binding,
         NEW item, item = Control(binding, schemas, shape.kind, shape.choices, NoSeed),
         NEW n, n = Seeded(item, schemas, shape)
  PROVE  NodeInv(n)
<1>1. Known(schemas)
  BY DEF Complete
<1>2. /\ n.what = "control" /\ n.schemas = schemas /\ n.binding = binding
      /\ TakesAdmitted(n) /\ n.seed # NoSeed /\ Admitted(n, n.seed)
  BY <1>1, ItemControl
<1> QED
  BY <1>2 DEF NodeInv, SeedAdmitted

LEMMA ProjectListKeeps ==
  ASSUME ProjectionInv, Prepared, stage = "expanding", pending = <<>>, UNCHANGED resourceVars,
         cycles = {}, ProjectList, UNCHANGED agenda
  PROVE  ProjectionInv'
<1> DEFINE S == { m \in expanded : Below(m, "items") # {} }
           f == [ l \in S |-> Located(Sub(l, Append(l.at, <<"items">>)), l.memberships) ]
           items == { Located(Sub(l, Append(l.at, <<"items">>)), l.memberships) : l \in S }
<1>1. \/ /\ \E findings : Put({Unsupported(subject.binding, expanded, findings)})
         /\ UNCHANGED expansionVars
      \/ /\ ExpandNext(SetToSeq(items), "item", subject.binding, expanded)
         /\ UNCHANGED <<projected, stage>>
  BY Zenon DEF ProjectList
<1>2. /\ Known(expanded) /\ Complete(expanded) /\ SubjectInv(subject) /\ AgendaInv(agenda)
      /\ \A n \in projected : NodeInv(n)
      /\ Expansion(pending, seen, expanded, cycles)
      /\ outcome = "prepared" /\ Answering
  BY FoundIs
<1>3. CASE /\ \E findings : Put({Unsupported(subject.binding, expanded, findings)})
           /\ UNCHANGED expansionVars
  <2>1. UNCHANGED <<pending, seen, expanded, cycles, subject>>
    BY <1>3 DEF expansionVars
  <2>2. stage' = "choosing" /\ \A n \in projected' : NodeInv(n)
    BY <1>2, <1>3, UnsupportedIs DEF Put
  <2> QED
    BY <1>2, <2>1, <2>2, ProjectionInvAfter
<1>4. CASE /\ ExpandNext(SetToSeq(items), "item", subject.binding, expanded)
           /\ UNCHANGED <<projected, stage>>
  <2>1. /\ pending' = SetToSeq(items) /\ seen' = {} /\ expanded' = {} /\ cycles' = {}
        /\ subject' = [of |-> "item", binding |-> subject.binding, list |-> expanded]
    BY <1>4, Zenon DEF ExpandNext
  <2>2. f = [l \in S |-> f[l]] /\ items = { f[l] : l \in S }
    OBVIOUS
  <2>3. ASSUME NEW l \in S
        PROVE  \E t \in Validating : \E memberships : f[l] = Located(t, memberships)
    <3>1. Bare(l) \in Validating /\ Below(l, "items") # {}
      BY <1>2 DEF Known, Bares
    <3>2. Sub(l, Append(l.at, <<"items">>)) \in Validating
      BY <3>1, ItemsIs
    <3> QED
      BY <3>2
  <2>4. IsFiniteSet(S)
    BY <1>2, FS_Subset DEF Known
  <2> HIDE DEF S, f, items
  <2>5. Expansion(SetToSeq({ f[l] : l \in S }), {}, {}, {})
    BY <2>2, <2>3, <2>4, LocatedSchemas
  <2>6. Expansion(pending', seen', expanded', cycles')
    BY <2>1, <2>2, <2>5
  <2>7. SubjectInv(subject')
    BY <1>2, <2>1 DEF SubjectInv
  <2> QED
    BY <1>2, <1>4, <2>6, <2>7, ProjectionInvAfter
<1> QED
  BY <1>1, <1>3, <1>4

LEMMA PlacePropertyKeeps ==
  ASSUME ProjectionInv, Prepared, stage = "expanding", pending = <<>>, UNCHANGED resourceVars,
         subject.of = "property", PlaceProperty(Shape(expanded))
  PROVE  ProjectionInv'
<1> DEFINE shape == Shape(expanded)
           binding == subject.binding
           choices == shape.choices
           findings == shape.findings
                         \cup (IF choices.values # {} THEN {} ELSE KindConflicts(expanded))
           control == Control(binding, expanded, shape.kind, choices,
                              ScalarSeed(expanded, ControlKind(shape.kind, choices),
                                         choices.values))
           object == Structure(binding, expanded, "object")
           frame == Frame(binding, expanded, Head(agenda).template, {})
<1>1. \/ /\ stage' = "panicked" /\ UNCHANGED <<agenda, projected, expansionVars>>
      \/ /\ \E told : Put({Unsupported(binding, expanded, told)})
         /\ UNCHANGED <<agenda, expansionVars>>
      \/ /\ ~choices.panics /\ findings = {}
         /\ choices.values # {} \/ shape.kind \in Scalars
         /\ Put({control}) /\ UNCHANGED <<agenda, expansionVars>>
      \/ /\ Put({object}) /\ agenda' = <<frame>> \o agenda /\ UNCHANGED expansionVars
      \/ /\ ~choices.panics /\ findings = {} /\ ProjectList /\ UNCHANGED agenda
  BY Zenon DEF PlaceProperty, Panic
<1>2. /\ Known(expanded) /\ (cycles = {} => Complete(expanded))
      /\ SubjectInv(subject) /\ AgendaInv(agenda)
      /\ \A n \in projected : NodeInv(n)
      /\ Expansion(pending, seen, expanded, cycles)
      /\ outcome = "prepared" /\ Answering
  BY FoundIs
<1>3. IsBinding(binding) /\ Last(binding) # Item
  BY <1>2 DEF SubjectInv
<1>4. ASSUME ~choices.panics, findings = {}
      PROVE  Shapely(expanded, shape) /\ cycles = {} /\ Complete(expanded)
  <2>1. Shapely(expanded, shape)
    BY <1>4 DEF Shapely
  <2> HIDE DEF shape
  <2>2. cycles = {}
    BY <2>1, ShapeIs
  <2> QED
    BY <1>2, <2>1, <2>2
<1>5. CASE stage' = "panicked" /\ UNCHANGED <<agenda, projected, expansionVars>>
  <2>1. UNCHANGED <<pending, seen, expanded, cycles, subject, agenda, projected>>
    BY <1>5 DEF expansionVars
  <2> QED
    BY <1>2, <1>5, <2>1, ProjectionInvAfter
<1>6. ASSUME NEW n, NodeInv(n), Put({n})
      PROVE  stage' = "choosing" /\ \A m \in projected' : NodeInv(m)
  BY <1>2, <1>6 DEF Put
<1>7. ASSUME NEW n, NodeInv(n), Put({n}), UNCHANGED <<agenda, expansionVars>>
      PROVE  ProjectionInv'
  <2>1. UNCHANGED <<pending, seen, expanded, cycles, subject, agenda>>
    BY <1>7 DEF expansionVars
  <2>2. stage' = "choosing" /\ \A m \in projected' : NodeInv(m)
    BY <1>6, <1>7
  <2> QED
    BY <1>2, <2>1, <2>2, ProjectionInvAfter
<1>8. CASE /\ \E told : Put({Unsupported(binding, expanded, told)})
           /\ UNCHANGED <<agenda, expansionVars>>
  <2>1. PICK told : Put({Unsupported(binding, expanded, told)})
    BY <1>8
  <2>2. NodeInv(Unsupported(binding, expanded, told))
    BY UnsupportedIs
  <2> QED
    BY <1>7, <1>8, <2>1, <2>2
<1>9. CASE /\ ~choices.panics /\ findings = {}
           /\ choices.values # {} \/ shape.kind \in Scalars
           /\ Put({control}) /\ UNCHANGED <<agenda, expansionVars>>
  <2>1. NodeInv(control)
    <3>1. Shapely(expanded, shape) /\ Complete(expanded)
      BY <1>4, <1>9
    <3>2. shape.choices.values # {} \/ shape.kind \in Scalars
      BY <1>9
    <3> HIDE DEF shape
    <3> QED
      BY <1>3, <3>1, <3>2, PropertyControlIs
  <2> HIDE DEF control
  <2> QED
    BY <1>7, <1>9, <2>1
<1>10. CASE Put({object}) /\ agenda' = <<frame>> \o agenda /\ UNCHANGED expansionVars
  <2>1. NodeInv(object)
    BY ObjectIs
  <2>2. FrameInv(frame)
    BY <1>2, <1>3, NothingComplete, FrameIs
  <2>3. UNCHANGED <<pending, seen, expanded, cycles, subject>>
    BY <1>10 DEF expansionVars
  <2> HIDE DEF object, frame
  <2>4. AgendaInv(agenda')
    BY <1>2, <1>10, <2>2, MoreFrames
  <2>5. stage' = "choosing" /\ \A m \in projected' : NodeInv(m)
    BY <1>6, <1>10, <2>1
  <2> QED
    BY <1>2, <2>3, <2>4, <2>5, ProjectionInvAfter
<1>11. CASE ~choices.panics /\ findings = {} /\ ProjectList /\ UNCHANGED agenda
  <2>1. cycles = {}
    BY <1>4, <1>11
  <2> QED
    BY <1>11, <2>1, ProjectListKeeps
<1> HIDE DEF findings, control, object, frame, choices, shape
<1> QED
  BY <1>1, <1>5, <1>8, <1>9, <1>10, <1>11

(* The items of a list.                                                    *)
LEMMA PlaceItemKeeps ==
  ASSUME ProjectionInv, Prepared, stage = "expanding", pending = <<>>, UNCHANGED resourceVars,
         PlaceItem(Shape(expanded)), UNCHANGED expansionVars
  PROVE  ProjectionInv'
<1> DEFINE shape == Shape(expanded)
           list == subject.binding
           binding == Append(list, Item)
           choices == shape.choices
           item == Control(binding, expanded, shape.kind, choices, NoSeed)
           seeded == Seeded(item, expanded, shape)
           whole == Structure(list, subject.list, "array")
           object == Structure(binding, expanded, "object")
           frame == Frame(binding, expanded, TRUE, subject.list)
<1>1. \/ stage' = "panicked" /\ UNCHANGED <<agenda, projected>>
      \/ /\ \E told : Put({Unsupported(list, subject.list, told)})
         /\ UNCHANGED agenda
      \/ Put({object}) /\ agenda' = <<frame>> \o agenda
      \/ /\ ~choices.panics /\ shape.findings = {}
         /\ choices.values # {} \/ shape.kind \in Scalars
         /\ Put({seeded, whole}) /\ UNCHANGED agenda
  BY Zenon DEF PlaceItem, Panic, Seeded
<1>2. /\ Known(expanded) /\ (cycles = {} => Complete(expanded))
      /\ SubjectInv(subject) /\ AgendaInv(agenda)
      /\ \A n \in projected : NodeInv(n)
      /\ Expansion(pending, seen, expanded, cycles)
      /\ outcome = "prepared" /\ Answering
  BY FoundIs
<1>3. IsBinding(binding) /\ Complete(subject.list)
  BY <1>2, Appended DEF SubjectInv
<1>4. UNCHANGED <<pending, seen, expanded, cycles, subject>>
  BY DEF expansionVars
<1>5. CASE stage' = "panicked" /\ UNCHANGED <<agenda, projected>>
  BY <1>2, <1>4, <1>5, ProjectionInvAfter
<1>6. ASSUME NEW nodes, \A n \in nodes : NodeInv(n), Put(nodes), AgendaInv(agenda')
      PROVE  ProjectionInv'
  <2>1. stage' = "choosing" /\ \A m \in projected' : NodeInv(m)
    BY <1>2, <1>6 DEF Put
  <2> QED
    BY <1>2, <1>4, <1>6, <2>1, ProjectionInvAfter
<1>7. CASE (\E told : Put({Unsupported(list, subject.list, told)})) /\ UNCHANGED agenda
  <2>1. PICK told : Put({Unsupported(list, subject.list, told)})
    BY <1>7
  <2>2. NodeInv(Unsupported(list, subject.list, told))
    BY UnsupportedIs
  <2>3. AgendaInv(agenda')
    BY <1>2, <1>7
  <2> QED
    BY <1>6, <2>1, <2>2, <2>3
<1>8. CASE Put({object}) /\ agenda' = <<frame>> \o agenda
  <2>1. NodeInv(object)
    BY ObjectIs
  <2>2. FrameInv(frame)
    <3> HIDE DEF binding
    <3> QED
      BY <1>2, <1>3, FrameIs
  <2> HIDE DEF object, frame
  <2>3. AgendaInv(agenda')
    BY <1>2, <1>8, <2>2, MoreFrames
  <2> QED
    BY <1>6, <1>8, <2>1, <2>3
<1>9. CASE /\ ~choices.panics /\ shape.findings = {}
           /\ choices.values # {} \/ shape.kind \in Scalars
           /\ Put({seeded, whole}) /\ UNCHANGED agenda
  <2>1. Shapely(expanded, shape)
    BY <1>9 DEF Shapely
  <2>2. Complete(expanded)
    <3> HIDE DEF shape
    <3>1. cycles = {}
      BY <2>1, ShapeIs
    <3> QED
      BY <1>2, <3>1
  <2>3. shape.choices.values # {} \/ shape.kind \in Scalars
    BY <1>9
  <2>4. NodeInv(seeded)
    <3> HIDE DEF shape, binding, item
    <3>1. item = Control(binding, expanded, shape.kind, shape.choices, NoSeed)
      BY DEF item
    <3> QED
      BY <2>1, <2>2, <2>3, <3>1, ItemControlIs
  <2>5. NodeInv(whole)
    BY <1>3, ListIs
  <2>6. AgendaInv(agenda')
    BY <1>2, <1>9
  <2> HIDE DEF seeded, whole
  <2> QED
    BY <1>6, <1>9, <2>4, <2>5, <2>6
<1> HIDE DEF seeded, whole, object, frame, choices, shape
<1> QED
  BY <1>1, <1>5, <1>7, <1>8, <1>9

LEMMA ProjectSubjectKeeps ==
  ASSUME ProjectionInv, Prepared, ProjectSubject, UNCHANGED resourceVars
  PROVE  ProjectionInv'
<1>1. /\ stage = "expanding" /\ pending = <<>>
      /\ \/ PlaceRoot(Shape(expanded)) /\ UNCHANGED expansionVars
         \/ subject.of = "property" /\ PlaceProperty(Shape(expanded))
         \/ PlaceItem(Shape(expanded)) /\ UNCHANGED expansionVars
  BY Zenon DEF ProjectSubject, PlaceSubject
<1> QED
  BY <1>1, PlaceRootKeeps, PlacePropertyKeeps, PlaceItemKeeps
-----------------------------------------------------------------------------
Waiting ==
  /\ stage = "waiting" /\ pending = <<>> /\ expanded = {} /\ seen = {} /\ agenda = <<>>
  /\ subject = [of |-> "root", binding |-> <<>>, list |-> {}] /\ projected = {}

LEMMA WaitingIs == Waiting => ProjectionInv
<1> SUFFICES ASSUME Waiting PROVE ProjectionInv
  OBVIOUS
<1>1. /\ pending = <<>> /\ expanded = {} /\ seen = {} /\ agenda = <<>> /\ projected = {}
      /\ stage = "waiting"
      /\ subject = [of |-> "root", binding |-> <<>>, list |-> {}]
  BY DEF Waiting
<1>2. Range(pending) = {} /\ <<>> \in Seq(Range(<<>>)) /\ DOMAIN <<>> = {}
  <2>1. Range(<<>>) = {} /\ <<>> \in Seq(Range(<<>>))
    BY OneInSequence
  <2>2. DOMAIN <<>> = {}
    OBVIOUS
  <2> QED
    BY <1>1, <2>1, <2>2
<1>3. Known({}) /\ Bares(Range(pending)) = {}
  BY <1>2, NothingComplete DEF Bares
<1>4. Expansion(pending, seen, expanded, cycles)
  BY <1>1, <1>2, <1>3 DEF Expansion
<1>5. SubjectInv(subject)
  BY <1>1, NothingComplete DEF SubjectInv
<1>6. AgendaInv(agenda)
  BY <1>1, <1>2 DEF AgendaInv
<1> QED
  BY <1>1, <1>4, <1>5, <1>6 DEF ProjectionInv

LEMMA StillWaiting ==
  ASSUME ProjectionInv, stage = "waiting", UNCHANGED projectionVars
  PROVE  ProjectionInv'
<1>1. UNCHANGED <<pending, expanded, seen, agenda, subject, projected, stage>>
  BY DEF projectionVars, expansionVars
<1>2. Waiting'
  BY <1>1 DEF ProjectionInv, Waiting
<1> QED
  BY <1>2, WaitingIs, PTL

LEMMA PreparingKeeps ==
  ASSUME ProjectionInv, PreparingNext
  PROVE  ProjectionInv'
<1>1. outcome \in {"admitting", "indexing", "following"}
  BY Zenon DEF PreparingNext, ResourcesNext, Admit, IndexDocument, StartFollowing,
               FollowDocument, FollowReference, FollowChild, Leave, Prepare
<1>2. stage = "waiting"
  BY <1>1 DEF ProjectionInv
<1> QED
  BY <1>2, StillWaiting DEF PreparingNext

LEMMA NothingProjected ==
  ASSUME ProjectionInv, UNCHANGED <<resourceVars, projectionVars>>
  PROVE  ProjectionInv'
<1>1. CASE stage = "waiting"
  BY <1>1, StillWaiting
<1>2. CASE stage # "waiting"
  <2>1. UNCHANGED <<pending, expanded, seen, cycles, agenda, subject, projected, stage>>
    BY DEF projectionVars, expansionVars
  <2>2. /\ Expansion(pending, seen, expanded, cycles) /\ SubjectInv(subject)
        /\ AgendaInv(agenda) /\ \A n \in projected : NodeInv(n)
        /\ outcome = "prepared" /\ (stage # "unsupported-reference" => Answering)
    BY <1>2 DEF ProjectionInv
  <2> QED
    BY <1>2, <2>1, <2>2, ProjectionInvAfter
<1> QED
  BY <1>1, <1>2

LEMMA ProjectingKeeps ==
  ASSUME ProjectionInv, ResourcesInv, CoverageInv, ProjectingNext
  PROVE  ProjectionInv'
<1>1. ASSUME stage \in {"expanding", "choosing"} PROVE Prepared
  BY <1>1 DEF ProjectionInv, Prepared
<1>2. UNCHANGED resourceVars
  BY DEF ProjectingNext
<1>3. CASE IncludeValidationResources
  BY <1>2, <1>3, IncludeKeeps
<1>4. CASE Expand
  <2>1. stage = "expanding"
    BY <1>4 DEF Expand
  <2> QED
    BY <1>1, <1>2, <1>4, <2>1, ExpandKeeps
<1>5. CASE ProjectSubject
  <2>1. stage = "expanding"
    BY <1>5 DEF ProjectSubject
  <2> QED
    BY <1>1, <1>2, <1>5, <2>1, ProjectSubjectKeeps
<1>6. CASE StartProperty
  <2>1. stage = "choosing"
    BY <1>6 DEF StartProperty
  <2> QED
    BY <1>1, <1>2, <1>6, <2>1, StartPropertyKeeps
<1>7. CASE FinishObject
  <2>1. stage = "choosing"
    BY <1>7 DEF FinishObject
  <2> QED
    BY <1>1, <1>2, <1>7, <2>1, FinishObjectKeeps
<1> QED
  BY <1>3, <1>4, <1>5, <1>6, <1>7 DEF ProjectingNext, ProjectionNext

LEMMA ProjectionStep ==
  /\ ProjectionInv /\ ResourcesInv /\ CoverageInv
  /\ [PreparingNext \/ ProjectingNext]_<<resourceVars, projectionVars>>
  => ProjectionInv'
BY PreparingKeeps, ProjectingKeeps, NothingProjected

LEMMA Preparation ==
  [PreparingNext \/ ProjectingNext]_<<resourceVars, projectionVars>>
    => [ResourcesNext]_resourceVars
BY DEF PreparingNext, ProjectingNext

LEMMA PreparationFirst == ProjectionSpec => ResourcesSpec
BY Preparation, PTL DEF ProjectionSpec, ResourcesSpec

(* Whatever is projected, what the graph says and how far the projection   *)
(* came agree: what was expanded was expanded with everything that applies *)
(* along with it, or is about to be.                                       *)
THEOREM ProjectionSound == ProjectionSpec => []ProjectionInv
<1>1. ProjectionInit => Waiting
  BY DEF ProjectionInit, Waiting
<1>2. ProjectionInit => ProjectionInv
  BY <1>1, WaitingIs
<1> QED
  BY <1>2, ProjectionStep, PreparationFirst, ResourcesSound, Coverage, PTL DEF ProjectionSpec
-----------------------------------------------------------------------------
(* The schemas that apply at a node are those it was made of.              *)
LEMMA AppliesIs ==
  ASSUME Prepared, NEW n, Complete(n.schemas)
  PROVE  Applies(n) = Bares(n.schemas)
<1> DEFINE from == Bares(n.schemas)
           steps == [l \in visited |-> Onward(l, {"ref", "allOf"}, {})]
<1>1. from \subseteq Validating /\ \A l \in n.schemas : OnwardFrom(l) \subseteq from
  BY DEF Complete, Known
<1>2. ASSUME NEW l \in from PROVE steps[l] \subseteq from
  <2>1. PICK m \in n.schemas : l = Bare(m)
    BY DEF Bares
  <2>2. l \in visited
    BY <1>1, ValidatingIs DEF Prepared
  <2> HIDE DEF from
  <2>3. steps[l] = OnwardFrom(m)
    BY <2>1, <2>2 DEF OnwardFrom
  <2> QED
    BY <1>1, <2>3
<1>3. IsFiniteSet(DOMAIN steps)
  BY VisitedIsFinite DEF Prepared
<1> HIDE DEF from
<1>4. Closure(from, steps) = from
  <2> HIDE DEF steps
  <2> QED
    BY <1>2, <1>3, ClosedAlready
<1>5. Applies(n) = Closure(from, steps)
  BY Zenon DEF Applies, Reachable, from, Bares
<1> QED
  BY <1>4, <1>5 DEF from

LEMMA ProjectedIs ==
  ASSUME ProjectionInv, ResourcesInv, CoverageInv, stage = "projected", NEW n \in projected,
         n.what \in {"control", "array"}
  PROVE  NodeInv(n) /\ Applies(n) = Bares(n.schemas)
<1>1. Prepared /\ NodeInv(n)
  BY DEF ProjectionInv, Prepared
<1> QED
  BY <1>1, AppliesIs DEF NodeInv

LEMMA ControlsTake ==
  ProjectionInv /\ ResourcesInv /\ CoverageInv => ControlsTakeWhatIsAdmitted
<1> SUFFICES ASSUME ProjectionInv, ResourcesInv, CoverageInv, stage = "projected",
                    NEW n \in Controls, NEW v \in input.literals
             PROVE  Takes(n, v) <=> AdmittedAt(n, v)
  BY DEF ControlsTakeWhatIsAdmitted
<1>1. NodeInv(n) /\ Applies(n) = Bares(n.schemas) /\ n.what = "control"
  BY ProjectedIs DEF Controls
<1>2. Takes(n, v) <=> Admitted(n, v)
  BY <1>1 DEF NodeInv, TakesAdmitted
<1>3. AdmittedAt(n, v) <=> Admitted(n, v)
  BY <1>1, Zenon DEF AdmittedAt, Admitted
<1> QED
  BY <1>2, <1>3

LEMMA SeedsAre == ProjectionInv /\ ResourcesInv /\ CoverageInv => SeedsAreAdmitted
<1> SUFFICES ASSUME ProjectionInv, ResourcesInv, CoverageInv, stage = "projected",
                    NEW n \in Controls
             PROVE  /\ n.seed # NoSeed => AdmittedAt(n, n.seed)
                    /\ Last(n.binding) = Item => n.seed # NoSeed
  BY DEF SeedsAreAdmitted
<1>1. NodeInv(n) /\ Applies(n) = Bares(n.schemas) /\ n.what = "control"
  BY ProjectedIs DEF Controls
<1>2. SeedAdmitted(n)
  BY <1>1 DEF NodeInv
<1>3. AdmittedAt(n, n.seed) <=> Admitted(n, n.seed)
  BY <1>1, Zenon DEF AdmittedAt, Admitted
<1> QED
  BY <1>2, <1>3 DEF SeedAdmitted

LEMMA LengthsAre == ProjectionInv /\ ResourcesInv /\ CoverageInv => LengthsAreAdmitted
<1> SUFFICES ASSUME ProjectionInv, ResourcesInv, CoverageInv, stage = "projected",
                    NEW n \in projected, n.what = "array", NEW length \in 0..MaxIndex - 1
             PROVE  TakesLength(n, length) <=> \A l \in Applies(n) : AdmitsLength(l, length)
  BY DEF LengthsAreAdmitted
<1>1. NodeInv(n) /\ Applies(n) = Bares(n.schemas)
  BY ProjectedIs
<1>2. LengthsAdmitted(n)
  BY <1>1 DEF NodeInv
<1> QED
  BY <1>1, <1>2 DEF LengthsAdmitted

(* Whatever the documents say, a scalar control takes exactly the values   *)
(* that types, enum, const and the constants of oneOf and anyOf admit in   *)
(* every schema that applies (infer_kind, scalar_choices).                 *)
THEOREM ControlsTakeAll == ProjectionSpec => []ControlsTakeWhatIsAdmitted
BY ProjectionSound, PreparationFirst, ResourcesSound, Coverage, ControlsTake, PTL

(* What a control is created with is one of the values the schemas admit,  *)
(* and the items of a list always have one (scalar_creation_seed,          *)
(* item_creation_seed).                                                    *)
THEOREM SeedsFit == ProjectionSpec => []SeedsAreAdmitted
BY ProjectionSound, PreparationFirst, ResourcesSound, Coverage, SeedsAre, PTL

(* The lengths a form lets a list have are those every schema that applies *)
(* admits, as far as a length can be told (array_length_bounds).           *)
THEOREM LengthsFit == ProjectionSpec => []LengthsAreAdmitted
BY ProjectionSound, PreparationFirst, ResourcesSound, Coverage, LengthsAre, PTL
-----------------------------------------------------------------------------
(* What a schema leads to unless a reference goes to a barred place.       *)
Within(l) == Onward(Bare(l), {"ref", "allOf"}, Active)

HasPath(l, found) == \A p \in l.path : p = Place(l) \/ \E m \in found : p = Place(m)

(* The schemas on the way to one that is pending were expanded: a cycle    *)
(* leads to one that was.                                                  *)
ExpandingInv ==
  stage = "expanding" =>
    /\ \A l \in Range(pending) : HasPath(l, expanded)
    /\ \A l \in expanded : Within(l) \subseteq Bares(expanded) \cup Bares(Range(pending))

LEMMA WithinIs ==
  ASSUME Prepared, NEW l, Bare(l) \in Validating
  PROVE  /\ Within(l) \subseteq OnwardFrom(l)
         /\ Within(l) \subseteq Bares(Range(Followed(l))) \cup Bares(Range(Branching(l)))
              \cup { t \in {Target(l, "ref")} : IsCyclic(l) /\ Place(t) \notin Active }
         /\ Within(l) \subseteq Validating
<1> DEFINE b == Bare(l)
           branches == IF Uses(b, "if") \/ "if" \in {"ref", "allOf"} THEN {} ELSE {"then", "else"}
           targets == { Target(b, k) : k \in {"ref", "allOf"} \cap References(SchemaOf(b)) }
           below == Subschemas(b, ({"ref", "allOf"} \cap SchemaKeywords) \ branches)
<1>1. /\ OnwardFrom(l) = below \cup { t \in targets : Place(t) \notin {} }
      /\ Within(l) = below \cup { t \in targets : Place(t) \notin Active }
  BY Zenon DEF Onward, OnwardFrom, Within
<1>2. b \in visited /\ b.doc = l.doc /\ b.at = l.at /\ b.base = l.base
  BY ValidatingIs DEF Prepared, Bare
<1>3. SchemaOf(b) = SchemaOf(l)
  BY <1>2 DEF SchemaOf
<1>4. \A k : Target(b, k) = Target(l, k)
  BY <1>2, <1>3 DEF Target
<1>5. \A at : Sub(b, at) = Sub(l, at)
  BY <1>2 DEF Sub
<1>6. Below(b, "allOf") = Below(l, "allOf")
  BY <1>2 DEF Below
<1>7. Branches(b) = Branches(l)
  BY <1>2, <1>5, <1>6 DEF Branches
<1>8. ({"ref", "allOf"} \cap SchemaKeywords) \ branches = {"allOf"}
  BY DEF SchemaKeywords, ApplicableKeywords
<1>9. {"ref", "allOf"} \cap References(SchemaOf(b)) = {"ref"} \cap DOMAIN SchemaOf(l)
  BY <1>3 DEF References, ReferenceKeywords
<1>10. targets = { Target(l, k) : k \in {"ref"} \cap DOMAIN SchemaOf(l) }
  BY <1>4, <1>9
<1>11. below = { Branches(l)[i] : i \in DOMAIN Branches(l) }
  <2>1. Subschemas(b, {"allOf"}) = { Branches(b)[i] : i \in DOMAIN Branches(b) }
    BY <1>2, BranchIsBelow DEF Prepared
  <2> QED
    BY <1>7, <1>8, <2>1
<1>12. OnwardFrom(l) \subseteq Validating
  BY OnwardIs
<1> HIDE DEF below, targets, b
<1>13. below \subseteq Bares(Range(Branching(l)))
  <2> SUFFICES ASSUME NEW t \in below PROVE t \in Bares(Range(Branching(l)))
    OBVIOUS
  <2>1. PICK i \in DOMAIN Branches(l) : t = Branches(l)[i]
    BY <1>11
  <2>2. /\ i \in DOMAIN Branching(l)
        /\ Branching(l)[i] = Via(l, Branches(l)[i], Joined(l.memberships, Membership(Place(l), i)))
    BY DEF Branching
  <2> DEFINE m == Joined(l.memberships, Membership(Place(l), i))
  <2> HIDE DEF m
  <2>3. Bare(Via(l, t, m)) = Bare(t)
    BY LocatedIs
  <2>4. Bare(t) = t
    BY <1>1, <1>12, ValidatingIs, BareIs DEF Prepared
  <2>5. Branching(l)[i] = Via(l, t, m)
    BY <2>1, <2>2 DEF m
  <2>6. Branching(l)[i] \in Range(Branching(l))
    BY <2>2 DEF Range
  <2>7. Bare(Branching(l)[i]) = t
    BY <2>3, <2>4, <2>5
  <2> QED
    BY <2>6, <2>7 DEF Bares
<1>14. ASSUME NEW t \in targets, Place(t) \notin Active, ~IsCyclic(l)
       PROVE  t \in Bares(Range(Followed(l)))
  <2>1. t = Target(l, "ref") /\ Has(SchemaOf(l), "ref")
    BY <1>10 DEF Has
  <2>2. Followed(l) = << Via(l, t, l.memberships) >>
    BY <1>14, <2>1 DEF Followed
  <2>3. Bare(Via(l, t, l.memberships)) = Bare(t)
    BY LocatedIs
  <2>4. t \in OnwardFrom(l)
    BY <1>1
  <2>5. Bare(t) = t
    BY <1>12, <2>4, ValidatingIs, BareIs DEF Prepared
  <2> DEFINE v == Via(l, t, l.memberships)
  <2> HIDE DEF v
  <2>6. Range(<<v>>) = {v}
    BY OneInSequence
  <2>7. v \in Range(Followed(l)) /\ Bare(v) = t
    BY <2>2, <2>3, <2>5, <2>6 DEF v
  <2> QED
    BY <2>7 DEF Bares
<1>15. ASSUME NEW t \in targets, Place(t) \notin Active, IsCyclic(l)
       PROVE  t \in { u \in {Target(l, "ref")} : IsCyclic(l) /\ Place(u) \notin Active }
  BY <1>10, <1>15
<1> QED
  BY <1>1, <1>12, <1>13, <1>14, <1>15

(* Schemas at one place are one.                                           *)
LEMMA OneAtAPlace ==
  ASSUME Prepared, NEW l \in Validating, NEW m, Bare(m) \in Validating, Place(m) = Place(l)
  PROVE  Bare(m) = l
<1>1. l \in visited /\ Bare(m) \in visited
  BY ValidatingIs DEF Prepared
<1>2. IsLocated(input.documents, l) /\ IsLocated(input.documents, Bare(m))
  BY <1>1, BareIs DEF Prepared
<1>3. Bare(m).doc = l.doc /\ Bare(m).at = l.at
  BY DEF Place, Bare
<1> QED
  BY <1>2, <1>3 DEF IsLocated

LEMMA LocatedPath ==
  ASSUME NEW l, NEW found
  PROVE  /\ \A memberships : HasPath(Located(l, memberships), found)
         /\ \A last : DOMAIN last = Fields /\ HasPath(last, found) =>
                        HasPath(Entry(last), found) /\ Place(Entry(last)) = Place(last)
<1>1. ASSUME NEW memberships PROVE HasPath(Located(l, memberships), found)
  BY DEF HasPath, Located, Place
<1>2. ASSUME NEW last, HasPath(last, found), DOMAIN last = Fields
      PROVE  HasPath(Entry(last), found) /\ Place(Entry(last)) = Place(last)
  <2>1. Entry(last).path = last.path /\ Place(Entry(last)) = Place(last)
    BY <1>2 DEF Entry, Place, Fields
  <2> QED
    BY <1>2, <2>1 DEF HasPath
<1> QED
  BY <1>1, <1>2
-----------------------------------------------------------------------------
LEMMA ViaPath ==
  ASSUME NEW l, NEW t, NEW memberships, NEW found, HasPath(l, found),
         NEW more, found \subseteq more, \E m \in more : Place(m) = Place(l)
  PROVE  HasPath(Via(l, t, memberships), more)
<1> DEFINE v == Via(l, t, memberships)
<1>1. v.path = {Place(t)} \cup l.path /\ Place(v) = Place(t)
  BY DEF Via, Located, Place
<1> HIDE DEF v
<1>2. HasPath(v, more)
  BY <1>1 DEF HasPath
<1> QED
  BY <1>2 DEF v

LEMMA LedPath ==
  ASSUME NEW l, NEW found, HasPath(l, found),
         NEW more, found \subseteq more, \E m \in more : Place(m) = Place(l)
  PROVE  \A m \in Range(Followed(l)) \cup Range(Branching(l)) : HasPath(m, more)
<1>1. ASSUME NEW m \in Range(Followed(l)) PROVE HasPath(m, more)
  <2> DEFINE v == Via(l, Target(l, "ref"), l.memberships)
  <2>1. Followed(l) = <<v>> \/ Followed(l) = <<>>
    BY DEF Followed
  <2>2. HasPath(v, more)
    BY ViaPath
  <2> HIDE DEF v
  <2>3. Range(<<v>>) = {v} /\ Range(<<>>) = {}
    BY OneInSequence
  <2> QED
    BY <2>1, <2>2, <2>3
<1>2. ASSUME NEW m \in Range(Branching(l)) PROVE HasPath(m, more)
  <2>1. \E i \in DOMAIN Branching(l) : m = Branching(l)[i]
    BY DEF Range
  <2>2. PICK t, memberships : m = Via(l, t, memberships)
    BY <2>1 DEF Branching
  <2> QED
    BY <2>2, ViaPath
<1> QED
  BY <1>1, <1>2

LEMMA ExpandKeepsExpanding ==
  ASSUME ProjectionInv, ExpandingInv, Prepared, Expand, UNCHANGED resourceVars
  PROVE  ExpandingInv'
<1> DEFINE last == Last(pending)
           l == Entry(last)
           key == <<Bare(l), ToSet(l.memberships)>>
           new == key \notin seen
           front == Front(pending)
<1>1. /\ stage = "expanding" /\ pending # <<>> /\ UNCHANGED agenda
      /\ \/ stage' = "limit"
         \/ /\ pending' = IF new THEN front \o Followed(l) \o Branching(l) ELSE front
            /\ expanded' = IF new THEN expanded \cup {Applying(l)} ELSE expanded
  BY Zenon DEF Expand
<1>2. CASE stage' = "limit"
  BY <1>2 DEF ExpandingInv
<1>3. /\ last \in Range(pending) /\ front \in Seq(Range(front))
      /\ Range(pending) = Range(front) \cup {last}
  <2>1. pending \in Seq(Range(pending))
    BY <1>1 DEF ProjectionInv, Expansion
  <2> QED
    BY <1>1, <2>1, RangeOfFront
<1>4. /\ Bare(last) \in Validating /\ DOMAIN last = Fields /\ HasPath(last, expanded)
      /\ \A m \in Range(front) : HasPath(m, expanded)
      /\ Bares(Range(pending)) = Bares(Range(front)) \cup {Bare(last)}
      /\ \A k \in seen : k[1] \in Bares(expanded)
      /\ Bares(expanded) \subseteq Validating
  BY <1>1, <1>3 DEF ProjectionInv, ExpandingInv, Expansion, Known, Fields, Bares
<1>5. Bare(l) = Bare(last) /\ key[1] = Bare(l)
  BY <1>4, EntryIs
<1>6. HasPath(l, expanded) /\ Place(l) = Place(last)
  BY <1>4, LocatedPath
<1> HIDE DEF last, front, l
<1>7. \A m \in expanded : Within(m) \subseteq Bares(expanded) \cup Bares(Range(front)) \cup {Bare(l)}
  BY <1>1, <1>4, <1>5 DEF ExpandingInv
<1>8. \A m : Within(m)' = Within(m)
  <2>1. Active' = Active
    BY <1>1 DEF Active
  <2> QED
    BY <2>1, FrozenOnward DEF Within
<1>9. ASSUME new, pending' = front \o Followed(l) \o Branching(l),
             expanded' = expanded \cup {Applying(l)}
      PROVE  /\ \A m \in Range(pending') : HasPath(m, expanded')
             /\ \A m \in expanded' :
                  Within(m) \subseteq Bares(expanded') \cup Bares(Range(pending'))
  <2>1. /\ Followed(l) \in Seq(Range(Followed(l))) /\ Branching(l) \in Seq(Range(Branching(l)))
        /\ Bare(l) \in Validating
    BY <1>4, <1>5, LedTo
  <2>2. /\ front \o Followed(l) \in Seq(Range(front \o Followed(l)))
        /\ Range(front \o Followed(l)) = Range(front) \cup Range(Followed(l))
    BY <1>3, <2>1, RangeOfJoin
  <2>3. Range(pending') = Range(front) \cup Range(Followed(l)) \cup Range(Branching(l))
    BY <1>9, <2>1, <2>2, RangeOfJoin
  <2>4. Bares(Range(pending')) =
          Bares(Range(front)) \cup Bares(Range(Followed(l))) \cup Bares(Range(Branching(l)))
    <3>1. \A S, T, U : Bares(S \cup T \cup U) = Bares(S) \cup Bares(T) \cup Bares(U)
      BY DEF Bares
    <3> QED
      BY <2>3, <3>1
  <2>5. Bare(Applying(l)) = Bare(l) /\ Place(Applying(l)) = Place(l)
    BY DEF Applying, Bare, Place
  <2>6. Bares(expanded') = Bares(expanded) \cup {Bare(l)}
    <3>1. \A S, x : Bares(S \cup {x}) = Bares(S) \cup {Bare(x)}
      BY DEF Bares
    <3> QED
      BY <1>9, <2>5, <3>1
  <2>7. ASSUME NEW m \in Range(pending') PROVE HasPath(m, expanded')
    <3>1. CASE m \in Range(front)
      BY <1>4, <1>9, <3>1 DEF HasPath
    <3>2. CASE m \in Range(Followed(l)) \cup Range(Branching(l))
      <4>1. expanded \subseteq expanded' /\ \E x \in expanded' : Place(x) = Place(l)
        BY <1>9, <2>5
      <4> QED
        BY <1>6, <3>2, <4>1, LedPath
    <3> QED
      BY <2>3, <3>1, <3>2
  <2>8. ASSUME NEW m \in expanded
        PROVE  Within(m) \subseteq Bares(expanded') \cup Bares(Range(pending'))
    BY <1>7, <2>4, <2>6
  <2>9. Within(Applying(l)) \subseteq Bares(expanded') \cup Bares(Range(pending'))
    <3>1. Within(Applying(l)) = Within(l)
      BY <2>5 DEF Within
    <3>2. ASSUME IsCyclic(l), Place(Target(l, "ref")) \notin Active,
                 Target(l, "ref") \in Validating
          PROVE  Target(l, "ref") \in Bares(expanded')
      <4>1. Place(Target(l, "ref")) \in l.path
        BY <3>2 DEF IsCyclic
      <4>2. PICK m \in expanded' : Place(m) = Place(Target(l, "ref"))
        BY <1>6, <1>9, <2>5, <4>1 DEF HasPath
      <4>3. Bare(m) \in Validating
        BY <1>4, <2>1, <2>6 DEF Bares
      <4>4. Bare(m) = Target(l, "ref")
        BY <3>2, <4>2, <4>3, OneAtAPlace
      <4> QED
        BY <4>4 DEF Bares
    <3>3. /\ Within(l) \subseteq Bares(Range(Followed(l))) \cup Bares(Range(Branching(l)))
               \cup { t \in {Target(l, "ref")} : IsCyclic(l) /\ Place(t) \notin Active }
          /\ Within(l) \subseteq Validating
      BY <2>1, WithinIs
    <3> QED
      BY <2>4, <3>1, <3>2, <3>3
  <2> QED
    BY <1>9, <2>7, <2>8, <2>9
<1>10. ASSUME ~new, pending' = front, expanded' = expanded
       PROVE  /\ \A m \in Range(pending') : HasPath(m, expanded')
              /\ \A m \in expanded' :
                   Within(m) \subseteq Bares(expanded') \cup Bares(Range(pending'))
  <2>1. Bare(l) \in Bares(expanded)
    BY <1>4, <1>5, <1>10
  <2> QED
    BY <1>4, <1>7, <1>10, <2>1
<1> HIDE DEF new, key
<1>11. CASE /\ pending' = IF new THEN front \o Followed(l) \o Branching(l) ELSE front
            /\ expanded' = IF new THEN expanded \cup {Applying(l)} ELSE expanded
  <2>1. /\ \A m \in Range(pending') : HasPath(m, expanded')
        /\ \A m \in expanded' : Within(m) \subseteq Bares(expanded') \cup Bares(Range(pending'))
    BY <1>9, <1>10, <1>11
  <2> QED
    BY <1>8, <2>1 DEF ExpandingInv
<1> QED
  BY <1>1, <1>2, <1>11 DEF l, key, new, front, last
-----------------------------------------------------------------------------
LEMMA FreshExpanding ==
  ASSUME expanded' = {},
         \A m \in Range(pending') : \E t, memberships : m = Located(t, memberships)
  PROVE  ExpandingInv'
<1>1. ASSUME NEW m \in Range(pending') PROVE HasPath(m, expanded')
  BY LocatedPath
<1> QED
  BY <1>1 DEF ExpandingInv

LEMMA StartOf ==
  ASSUME NEW S, IsFiniteSet(S), NEW f, f = [l \in S |-> f[l]],
         \A l \in S : \E t, memberships : f[l] = Located(t, memberships)
  PROVE  \A m \in Range(SetToSeq({ f[l] : l \in S })) :
           \E t, memberships : m = Located(t, memberships)
<1> DEFINE T == { f[l] : l \in S }
<1>1. IsFiniteSet(T)
  BY FiniteImage
<1>2. \A m \in T : \E t, memberships : m = Located(t, memberships)
  OBVIOUS
<1> HIDE DEF T
<1>3. Range(SetToSeq(T)) \subseteq T
  BY <1>1, SetToSeqIs
<1> QED
  BY <1>2, <1>3 DEF T

LEMMA StartPropertyExpanding ==
  ASSUME ProjectionInv, StartProperty PROVE ExpandingInv'
<1> DEFINE frame == Head(agenda)
           located(name) == [ l \in Declaring(frame.schemas, name) |->
                                Located(Property(l, name), l.memberships) ]
           starts(name) == { Located(Property(l, name), l.memberships) :
                               l \in Declaring(frame.schemas, name) }
<1>1. /\ stage = "choosing" /\ agenda # <<>>
      /\ \E name \in frame.left :
           \/ stage' = "limit"
           \/ ExpandNext(SetToSeq(starts(name)), "property", Append(frame.binding, name), {})
  BY Zenon DEF StartProperty
<1>2. CASE stage' = "limit"
  BY <1>2 DEF ExpandingInv
<1>3. ASSUME NEW name, ExpandNext(SetToSeq(starts(name)), "property",
                                  Append(frame.binding, name), {})
      PROVE  ExpandingInv'
  <2> DEFINE S == Declaring(frame.schemas, name)
             f == located(name)
  <2>1. f = [l \in S |-> f[l]] /\ starts(name) = { f[l] : l \in S }
        /\ \A l \in S : \E t, memberships : f[l] = Located(t, memberships)
    OBVIOUS
  <2>2. AgendaInv(agenda)
    BY <1>1 DEF ProjectionInv
  <2>3. FrameInv(frame)
    BY <1>1, <2>2, FirstFrame
  <2>4. IsFiniteSet(S)
    BY <2>3, FS_Subset DEF FrameInv, Known, Declaring
  <2>5. pending' = SetToSeq(starts(name)) /\ expanded' = {}
    BY <1>3, Zenon DEF ExpandNext
  <2> HIDE DEF S, f, starts
  <2>6. \A m \in Range(SetToSeq({ f[l] : l \in S })) :
          \E t, memberships : m = Located(t, memberships)
    BY <2>1, <2>4, StartOf
  <2> QED
    BY <2>1, <2>5, <2>6, FreshExpanding
<1> QED
  BY <1>1, <1>2, <1>3

LEMMA ProjectListExpanding ==
  ASSUME ProjectionInv, stage = "expanding", pending = <<>>, ProjectList PROVE ExpandingInv'
<1> DEFINE S == { m \in expanded : Below(m, "items") # {} }
           f == [ l \in S |-> Located(Sub(l, Append(l.at, <<"items">>)), l.memberships) ]
           items == { Located(Sub(l, Append(l.at, <<"items">>)), l.memberships) : l \in S }
<1>1. \/ \E findings : Put({Unsupported(subject.binding, expanded, findings)})
      \/ ExpandNext(SetToSeq(items), "item", subject.binding, expanded)
  BY Zenon DEF ProjectList
<1>2. CASE \E findings : Put({Unsupported(subject.binding, expanded, findings)})
  BY <1>2 DEF Put, ExpandingInv
<1>3. CASE ExpandNext(SetToSeq(items), "item", subject.binding, expanded)
  <2>1. pending' = SetToSeq(items) /\ expanded' = {}
    BY <1>3, Zenon DEF ExpandNext
  <2>2. f = [l \in S |-> f[l]] /\ items = { f[l] : l \in S }
        /\ \A l \in S : \E t, memberships : f[l] = Located(t, memberships)
    OBVIOUS
  <2>3. IsFiniteSet(S)
    BY FoundIs, FS_Subset DEF Known
  <2> HIDE DEF S, f, items
  <2>4. \A m \in Range(SetToSeq({ f[l] : l \in S })) :
          \E t, memberships : m = Located(t, memberships)
    BY <2>2, <2>3, StartOf
  <2> QED
    BY <2>1, <2>2, <2>4, FreshExpanding
<1> QED
  BY <1>1, <1>2, <1>3

LEMMA ProjectSubjectExpanding ==
  ASSUME ProjectionInv, ProjectSubject PROVE ExpandingInv'
<1> DEFINE shape == Shape(expanded)
<1>1. /\ stage = "expanding" /\ pending = <<>>
      /\ \/ PlaceRoot(shape) \/ PlaceProperty(shape) \/ PlaceItem(shape)
  BY Zenon DEF ProjectSubject, PlaceSubject
<1>2. CASE PlaceRoot(shape)
  <2>1. stage' \in {"panicked", "choosing", "missing-properties", "projected"}
    BY <1>2, Zenon DEF PlaceRoot, Panic
  <2> QED
    BY <2>1 DEF ExpandingInv
<1>3. CASE PlaceProperty(shape)
  <2>1. stage' = "panicked" \/ (\E nodes : Put(nodes)) \/ ProjectList
    BY <1>3, Zenon DEF PlaceProperty, Panic
  <2>2. ASSUME stage' = "panicked" \/ \E nodes : Put(nodes) PROVE ExpandingInv'
    BY <2>2 DEF Put, ExpandingInv
  <2> QED
    BY <1>1, <2>1, <2>2, ProjectListExpanding
<1>4. CASE PlaceItem(shape)
  <2>1. stage' = "panicked" \/ \E nodes : Put(nodes)
    BY <1>4, Zenon DEF PlaceItem, Panic
  <2> QED
    BY <2>1 DEF Put, ExpandingInv
<1> QED
  BY <1>1, <1>2, <1>3, <1>4

LEMMA IncludeExpanding ==
  ASSUME IncludeValidationResources PROVE ExpandingInv'
<1> DEFINE start == Located(Root(documents, 1), <<>>)
<1>1. \/ stage' \in {"unsupported-reference", "limit"}
      \/ ExpandNext(<<start>>, "root", <<>>, {})
  BY Zenon DEF IncludeValidationResources
<1>2. CASE stage' \in {"unsupported-reference", "limit"}
  BY <1>2 DEF ExpandingInv
<1>3. CASE ExpandNext(<<start>>, "root", <<>>, {})
  <2>1. pending' = <<start>> /\ expanded' = {}
    BY <1>3, Zenon DEF ExpandNext
  <2>2. \E t, memberships : start = Located(t, memberships)
    OBVIOUS
  <2> HIDE DEF start
  <2>3. Range(<<start>>) = {start}
    BY OneInSequence
  <2> QED
    BY <2>1, <2>2, <2>3, FreshExpanding
<1> QED
  BY <1>1, <1>2, <1>3
-----------------------------------------------------------------------------
LEMMA NothingExpanding ==
  ASSUME ExpandingInv, UNCHANGED <<resourceVars, projectionVars>>
  PROVE  ExpandingInv'
<1>1. UNCHANGED <<pending, expanded, agenda, stage>>
  BY DEF projectionVars, expansionVars
<1>2. \A m : Within(m)' = Within(m)
  <2>1. Active' = Active
    BY <1>1 DEF Active
  <2> QED
    BY <2>1, FrozenOnward DEF Within
<1> QED
  BY <1>1, <1>2 DEF ExpandingInv

LEMMA ExpandingStep ==
  /\ ProjectionInv /\ ExpandingInv /\ ResourcesInv /\ CoverageInv
  /\ [PreparingNext \/ ProjectingNext]_<<resourceVars, projectionVars>>
  => ExpandingInv'
<1> SUFFICES ASSUME ProjectionInv, ExpandingInv, ResourcesInv, CoverageInv,
                    [PreparingNext \/ ProjectingNext]_<<resourceVars, projectionVars>>
             PROVE  ExpandingInv'
  OBVIOUS
<1>1. CASE PreparingNext
  <2>1. outcome \in {"admitting", "indexing", "following"} /\ stage' = stage
    BY <1>1, Zenon DEF PreparingNext, ResourcesNext, Admit, IndexDocument, StartFollowing,
               FollowDocument, FollowReference, FollowChild, Leave, Prepare, projectionVars
  <2>2. stage = "waiting"
    BY <2>1 DEF ProjectionInv
  <2> QED
    BY <2>1, <2>2 DEF ExpandingInv
<1>2. CASE ProjectingNext /\ Expand
  <2>1. stage = "expanding" /\ UNCHANGED resourceVars
    BY <1>2 DEF Expand, ProjectingNext
  <2>2. Prepared
    BY <2>1 DEF ProjectionInv, Prepared
  <2> QED
    BY <1>2, <2>1, <2>2, ExpandKeepsExpanding
<1>3. CASE FinishObject
  <2>1. stage' \in {"projected", "choosing"}
    BY <1>3, Zenon DEF FinishObject
  <2> QED
    BY <2>1 DEF ExpandingInv
<1>4. CASE ProjectingNext
  BY <1>2, <1>3, <1>4, IncludeExpanding, StartPropertyExpanding, ProjectSubjectExpanding
     DEF ProjectingNext, ProjectionNext
<1> QED
  BY <1>1, <1>4, NothingExpanding

LEMMA AllExpanded ==
  ProjectionInv /\ ExpandingInv /\ ResourcesInv /\ CoverageInv => WhatAppliesIsExpanded
<1> SUFFICES ASSUME ProjectionInv, ExpandingInv, ResourcesInv, CoverageInv,
                    stage = "expanding", pending = <<>>
             PROVE  Reachable(Bares(expanded), {"ref", "allOf"}, Active) = Bares(expanded)
  BY DEF WhatAppliesIsExpanded, Bares
<1> DEFINE from == Bares(expanded)
           steps == [l \in visited |-> Onward(l, {"ref", "allOf"}, Active)]
<1>1. Prepared
  BY DEF ProjectionInv, Prepared
<1>2. Bares(Range(pending)) = {}
  <2>1. Range(<<>>) = {}
    BY OneInSequence
  <2> QED
    BY <2>1 DEF Bares
<1>3. Known(expanded)
  BY FoundIs
<1>4. \A l \in expanded : Within(l) \subseteq from
  BY <1>2 DEF ExpandingInv
<1>5. from \subseteq Validating
  BY <1>3 DEF Known
<1>6. ASSUME NEW l \in from PROVE steps[l] \subseteq from
  <2>1. PICK m \in expanded : l = Bare(m)
    BY DEF Bares
  <2>2. l \in visited
    BY <1>1, <1>5, ValidatingIs DEF Prepared
  <2> HIDE DEF from
  <2>3. steps[l] = Within(m)
    BY <2>1, <2>2 DEF Within
  <2> QED
    BY <1>4, <2>1, <2>3
<1>7. IsFiniteSet(DOMAIN steps)
  BY VisitedIsFinite
<1> HIDE DEF from
<1>8. Closure(from, steps) = from
  <2> HIDE DEF steps
  <2> QED
    BY <1>6, <1>7, ClosedAlready
<1> QED
  BY <1>8, Zenon DEF Reachable, from

(* Whatever the documents say, what is found to apply at a binding leaves  *)
(* out nothing that references and allOf lead to, and a cycle does not     *)
(* hide any of it (expand_references).                                     *)
THEOREM AllThatApplies == ProjectionSpec => []WhatAppliesIsExpanded
<1>1. ProjectionInit => ExpandingInv
  BY DEF ProjectionInit, ExpandingInv
<1> QED
  BY <1>1, ExpandingStep, AllExpanded, ProjectionSound, PreparationFirst, ResourcesSound,
     Coverage, PTL DEF ProjectionSpec
-----------------------------------------------------------------------------
(* Bindings, and which of them are below which.                            *)
LEMMA BindingIs ==
  ASSUME NEW b, IsBinding(b)
  PROVE  /\ Len(b) \in Nat /\ DOMAIN b = 1..Len(b)
         /\ b = [i \in 1..Len(b) |-> b[i]]
         /\ b # <<>> <=> Len(b) # 0
<1>1. /\ Len(b) \in Nat /\ DOMAIN b = 1..Len(b) /\ b \in Seq(Range(b))
      /\ b = [i \in 1..Len(b) |-> b[i]]
  BY LenProperties DEF IsBinding
<1>2. b # <<>> <=> Len(b) # 0
  BY <1>1, EmptySeq
<1> QED
  BY <1>1, <1>2

LEMMA SameBinding ==
  ASSUME NEW b, IsBinding(b), NEW c, IsBinding(c), Len(b) = Len(c),
         \A i \in 1..Len(b) : b[i] = c[i]
  PROVE  b = c
<1>1. b = [i \in 1..Len(b) |-> b[i]] /\ c = [i \in 1..Len(c) |-> c[i]]
  BY BindingIs
<1> QED
  BY <1>1

LEMMA StartIs ==
  ASSUME NEW b, IsBinding(b), NEW k \in 0..Len(b)
  PROVE  /\ IsBinding(SubSeq(b, 1, k)) /\ Len(SubSeq(b, 1, k)) = k
         /\ \A i \in 1..k : SubSeq(b, 1, k)[i] = b[i]
<1> DEFINE s == SubSeq(b, 1, k)
           S == Range(b)
<1>1. Len(b) \in Nat /\ DOMAIN b = 1..Len(b) /\ k \in Nat
  BY BindingIs
<1>2. \A i \in 1..k : b[i] \in S
  BY <1>1 DEF Range
<1>3. b \in Seq(S)
  BY DEF IsBinding
<1> HIDE DEF S
<1>4. s \in Seq(S) /\ Len(s) = k /\ \A i \in 1..k : s[i] = b[i]
  BY <1>1, <1>2, <1>3, SubSeqProperties
<1> HIDE DEF s
<1>5. s = [i \in 1..k |-> s[i]]
  BY <1>4, LenProperties
<1>6. s \in Seq(Range(s))
  BY <1>1, <1>5, SequenceOfItsRange
<1> QED
  BY <1>4, <1>6 DEF IsBinding, s

LEMMA PrefixIs ==
  ASSUME NEW b, IsBinding(b), NEW c, IsBinding(c)
  PROVE  IsPrefix(b, c) <=> Len(b) <= Len(c) /\ \A i \in 1..Len(b) : b[i] = c[i]
<1>1. Len(b) \in Nat /\ Len(c) \in Nat
  BY BindingIs
<1>2. CASE Len(b) <= Len(c)
  <2> DEFINE s == SubSeq(b, 1, Len(b))
             t == SubSeq(c, 1, Len(b))
  <2>1. /\ IsBinding(s) /\ Len(s) = Len(b) /\ \A i \in 1..Len(b) : s[i] = b[i]
        /\ IsBinding(t) /\ Len(t) = Len(b) /\ \A i \in 1..Len(b) : t[i] = c[i]
    BY <1>1, <1>2, StartIs
  <2>2. IsPrefix(b, c) <=> s = t
    BY <1>2 DEF IsPrefix
  <2> HIDE DEF s, t
  <2>3. s = t <=> \A i \in 1..Len(b) : b[i] = c[i]
    BY <2>1, SameBinding
  <2> QED
    BY <1>2, <2>2, <2>3
<1>3. CASE ~(Len(b) <= Len(c))
  BY <1>3 DEF IsPrefix
<1> QED
  BY <1>2, <1>3

LEMMA AppendIs ==
  ASSUME NEW b, IsBinding(b), NEW x
  PROVE  /\ IsBinding(Append(b, x)) /\ Len(Append(b, x)) = Len(b) + 1
         /\ Append(b, x)[Len(b) + 1] = x /\ \A i \in 1..Len(b) : Append(b, x)[i] = b[i]
         /\ Last(Append(b, x)) = x /\ Front(Append(b, x)) = b /\ Append(b, x) # <<>>
<1> DEFINE S == Range(b) \cup {x}
           s == Append(b, x)
<1>1. /\ Len(b) \in Nat /\ b \in [1..Len(b) -> Range(b)]
      /\ IsBinding(s) /\ Last(s) = x
  BY Appended, LenProperties DEF IsBinding
<1>2. b \in [1..Len(b) -> S] /\ x \in S
  BY <1>1
<1> HIDE DEF S
<1>3. b \in Seq(S)
  BY <1>1, <1>2, FunctionIsSequence
<1>4. /\ Len(s) = Len(b) + 1 /\ s[Len(b) + 1] = x /\ \A i \in 1..Len(b) : s[i] = b[i]
  BY <1>2, <1>3, AppendProperties
<1> HIDE DEF s
<1>5. Front(s) = b
  <2>1. Len(s) - 1 = Len(b) /\ Len(b) \in 0..Len(s)
    BY <1>1, <1>4
  <2>2. /\ IsBinding(SubSeq(s, 1, Len(b))) /\ Len(SubSeq(s, 1, Len(b))) = Len(b)
        /\ \A i \in 1..Len(b) : SubSeq(s, 1, Len(b))[i] = s[i]
    BY <1>1, <2>1, StartIs
  <2>3. SubSeq(s, 1, Len(b)) = b
    BY <1>4, <2>2, SameBinding
  <2> QED
    BY <2>1, <2>3 DEF Front
<1>6. s # <<>>
  BY <1>1, <1>4, BindingIs
<1> QED
  BY <1>1, <1>4, <1>5, <1>6 DEF s

LEMMA FrontIs ==
  ASSUME NEW b, IsBinding(b), b # <<>>
  PROVE  IsBinding(Front(b)) /\ b = Append(Front(b), Last(b))
<1> DEFINE f == Front(b)
<1>1. Len(b) \in Nat \ {0} /\ Len(b) - 1 \in 0..Len(b)
  BY BindingIs
<1>2. IsBinding(f) /\ Len(f) = Len(b) - 1 /\ \A i \in 1..Len(b) - 1 : f[i] = b[i]
  BY <1>1, StartIs DEF Front
<1> HIDE DEF f
<1> DEFINE s == Append(f, Last(b))
<1>3. /\ IsBinding(s) /\ Len(s) = Len(b) /\ s[Len(b)] = b[Len(b)]
      /\ \A i \in 1..Len(b) - 1 : s[i] = b[i]
  <2>1. /\ IsBinding(s) /\ Len(s) = Len(f) + 1 /\ s[Len(f) + 1] = Last(b)
        /\ \A i \in 1..Len(f) : s[i] = f[i]
    BY <1>2, AppendIs
  <2> HIDE DEF s
  <2>2. Len(f) + 1 = Len(b)
    BY <1>1, <1>2
  <2> QED
    BY <1>2, <2>1, <2>2 DEF Last
<1> HIDE DEF s
<1>4. \A i \in 1..Len(b) : s[i] = b[i]
  BY <1>1, <1>3
<1>5. s = b
  BY <1>3, <1>4, SameBinding
<1> QED
  BY <1>2, <1>5 DEF s, f

(* The order of bindings.                                                  *)
LEMMA PrefixReflexive == ASSUME NEW b, IsBinding(b) PROVE IsPrefix(b, b)
BY PrefixIs, BindingIs

LEMMA PrefixTransitive ==
  ASSUME NEW a, IsBinding(a), NEW b, IsBinding(b), NEW c, IsBinding(c),
         IsPrefix(a, b), IsPrefix(b, c)
  PROVE  IsPrefix(a, c)
<1>1. Len(a) \in Nat /\ Len(b) \in Nat /\ Len(c) \in Nat
  BY BindingIs
<1>2. /\ Len(a) <= Len(b) /\ \A i \in 1..Len(a) : a[i] = b[i]
      /\ Len(b) <= Len(c) /\ \A i \in 1..Len(b) : b[i] = c[i]
  BY PrefixIs
<1>3. Len(a) <= Len(c) /\ \A i \in 1..Len(a) : a[i] = c[i]
  BY <1>1, <1>2
<1> QED
  BY <1>3, PrefixIs

LEMMA PrefixOfBoth ==
  ASSUME NEW a, IsBinding(a), NEW b, IsBinding(b), IsPrefix(a, b), IsPrefix(b, a)
  PROVE  a = b
<1>1. Len(a) \in Nat /\ Len(b) \in Nat
  BY BindingIs
<1>2. /\ Len(a) <= Len(b) /\ \A i \in 1..Len(a) : a[i] = b[i]
      /\ Len(b) <= Len(a)
  BY PrefixIs
<1> QED
  BY <1>1, <1>2, SameBinding

LEMMA PrefixOfNothing ==
  ASSUME NEW a, IsBinding(a), IsPrefix(a, <<>>) PROVE a = <<>>
<1>1. IsBinding(<<>>) /\ Len(<<>>) = 0
  BY NothingComplete
<1>2. Len(a) \in Nat /\ Len(a) <= 0
  BY <1>1, PrefixIs, BindingIs
<1> QED
  BY <1>2, BindingIs

(* What is at or below a binding, or at it with one more name.             *)
LEMMA BelowAppended ==
  ASSUME NEW b, IsBinding(b), NEW x
  PROVE  /\ IsPrefix(b, Append(b, x)) /\ ~IsPrefix(Append(b, x), b) /\ Append(b, x) # b
         /\ \A c : IsBinding(c) =>
              /\ IsPrefix(c, Append(b, x)) <=> IsPrefix(c, b) \/ c = Append(b, x)
              /\ IsPrefix(Append(b, x), c) => IsPrefix(b, c)
<1> DEFINE s == Append(b, x)
<1>1. /\ IsBinding(s) /\ Len(s) = Len(b) + 1 /\ Len(b) \in Nat
      /\ \A i \in 1..Len(b) : s[i] = b[i]
  BY AppendIs, BindingIs
<1> HIDE DEF s
<1>2. IsPrefix(b, s) /\ ~IsPrefix(s, b) /\ s # b
  BY <1>1, PrefixIs
<1>3. ASSUME NEW c, IsBinding(c)
      PROVE  IsPrefix(c, s) <=> IsPrefix(c, b) \/ c = s
  <2>1. Len(c) \in Nat
    BY <1>3, BindingIs
  <2>2. ASSUME IsPrefix(c, s) PROVE IsPrefix(c, b) \/ c = s
    <3>1. Len(c) <= Len(s) /\ \A i \in 1..Len(c) : c[i] = s[i]
      BY <1>1, <1>3, <2>2, PrefixIs
    <3>2. CASE Len(c) = Len(s)
      BY <1>1, <1>3, <3>1, <3>2, SameBinding
    <3>3. CASE Len(c) <= Len(b)
      <4>1. \A i \in 1..Len(c) : c[i] = b[i]
        BY <1>1, <2>1, <3>1, <3>3
      <4> QED
        BY <1>3, <3>3, <4>1, PrefixIs
    <3> QED
      BY <1>1, <2>1, <3>1, <3>2, <3>3
  <2>3. IsPrefix(c, b) => IsPrefix(c, s)
    BY <1>1, <1>2, <1>3, PrefixTransitive
  <2> QED
    BY <1>1, <2>2, <2>3, PrefixReflexive
<1>4. ASSUME NEW c, IsBinding(c), IsPrefix(s, c) PROVE IsPrefix(b, c)
  BY <1>1, <1>2, <1>4, PrefixTransitive
<1> QED
  BY <1>2, <1>3, <1>4 DEF s

LEMMA AppendedAlike ==
  ASSUME NEW b, IsBinding(b), NEW c, IsBinding(c), NEW x, NEW y, Append(b, x) = Append(c, y)
  PROVE  b = c /\ x = y
<1>1. /\ Front(Append(b, x)) = b /\ Last(Append(b, x)) = x
      /\ Front(Append(c, y)) = c /\ Last(Append(c, y)) = y
  BY AppendIs
<1> QED
  BY <1>1
-----------------------------------------------------------------------------
(* What is placed of what is asked, with some objects open, inmost first,  *)
(* and at most one binding that was taken and is still to be filled.       *)
Untouched(nodes, b) == \A n \in nodes : ~IsPrefix(b, n.binding)

Alone(nodes, b) ==
  \E n \in nodes : n.binding = b /\ \A m \in nodes : m.binding = b => m = n

Around(outer, b) ==
  /\ IsPrefix(outer.binding, b) /\ b # outer.binding
  /\ \A name \in outer.left : ~IsPrefix(Append(outer.binding, name), b)

Inside(inner, outer) ==
  /\ Around(outer, inner.binding)
  /\ outer.template => inner.template /\ inner.list = {}

(* Nothing is placed yet where a property is left.                         *)
Open(nodes, asked, f) ==
  /\ IsBinding(f.binding) /\ \E o \in asked : o.binding = f.binding
  /\ \A name \in f.left : name # Item /\ Untouched(nodes, Append(f.binding, name))
  /\ \A n \in nodes : n.what = "array" => ~IsPrefix(Append(n.binding, Item), f.binding)

(* Of a list whose template is underway there is nothing but the template. *)
Repeating(nodes, asked, f) ==
  LET list == Front(f.binding)
  IN f.list # {} =>
       /\ f.template /\ IsBinding(list) /\ list # <<>> /\ f.binding = Append(list, Item)
       /\ \E o \in asked : o.binding = Front(list)
       /\ Alone(nodes, f.binding)
       /\ \A n \in nodes :
            IsPrefix(list, n.binding) => IsPrefix(f.binding, n.binding) /\ n.what # "array"

Owes(f, b) ==
  \/ \E name \in f.left : b = Append(f.binding, name)
  \/ f.list # {} /\ b = Front(f.binding)

Due(nodes, f, b) ==
  /\ Untouched(nodes, b)
  /\ \E name : b = Append(f.binding, name) /\ name # Item /\ name \notin f.left

Stacked(nodes, frames, asked, holes) ==
  /\ frames \in Seq(Range(frames))
  /\ \A i, j \in DOMAIN frames : i < j => Inside(frames[i], frames[j])
  /\ \A i \in DOMAIN frames : Open(nodes, asked, frames[i]) /\ Repeating(nodes, asked, frames[i])
  /\ \A b \in holes : 1 \in DOMAIN frames /\ Due(nodes, frames[1], b)

Satisfied(nodes, frames, asked, holes) ==
  \A o \in asked :
    /\ IsBinding(o.binding)
    /\ \A name \in o.names :
         LET b == Append(o.binding, name)
         IN /\ name # Item
            /\ Alone(nodes, b) \/ b \in holes \/ \E i \in DOMAIN frames : Owes(frames[i], b)

Held(nodes, frames, asked) ==
  \A n \in nodes :
    \/ n.binding = <<>>
    \/ \E o \in asked : o.binding = Front(n.binding)
    \/ \E m \in nodes : m.what = "array" /\ m.binding = Front(n.binding)
    \/ \E i \in DOMAIN frames : frames[i].list # {} /\ frames[i].binding = n.binding

Whole(nodes) ==
  \A m \in nodes : m.what = "array" =>
    /\ Alone(nodes, Append(m.binding, Item))
    /\ \A n \in nodes :
         IsPrefix(Append(m.binding, Item), n.binding) => n.what \in {"control", "object"}

Placement(nodes, frames, asked, holes) ==
  /\ \A n \in nodes : IsBinding(n.binding)
  /\ Stacked(nodes, frames, asked, holes) /\ Satisfied(nodes, frames, asked, holes)
  /\ Held(nodes, frames, asked) /\ Whole(nodes)
-----------------------------------------------------------------------------
LEMMA PrefixesOfOne ==
  ASSUME NEW a, IsBinding(a), NEW b, IsBinding(b), NEW c, IsBinding(c),
         IsPrefix(a, c), IsPrefix(b, c)
  PROVE  IsPrefix(a, b) \/ IsPrefix(b, a)
<1>1. Len(a) \in Nat /\ Len(b) \in Nat /\ Len(c) \in Nat
  BY BindingIs
<1>2. /\ \A i \in 1..Len(a) : a[i] = c[i]
      /\ \A i \in 1..Len(b) : b[i] = c[i]
  BY PrefixIs
<1>3. CASE Len(a) <= Len(b)
  <2>1. \A i \in 1..Len(a) : a[i] = b[i]
    BY <1>1, <1>2, <1>3
  <2> QED
    BY <1>3, <2>1, PrefixIs
<1>4. CASE Len(b) <= Len(a)
  <2>1. \A i \in 1..Len(b) : b[i] = a[i]
    BY <1>1, <1>2, <1>4
  <2> QED
    BY <1>4, <2>1, PrefixIs
<1> QED
  BY <1>1, <1>3, <1>4

LEMMA FramesAre ==
  ASSUME NEW nodes, NEW frames, NEW asked, NEW holes, Stacked(nodes, frames, asked, holes)
  PROVE  /\ Len(frames) \in Nat /\ DOMAIN frames = 1..Len(frames)
         /\ frames # <<>> <=> 1 \in DOMAIN frames
         /\ \A i \in DOMAIN frames : i = 1 \/ Inside(frames[1], frames[i])
<1>1. /\ Len(frames) \in Nat /\ DOMAIN frames = 1..Len(frames)
      /\ frames # <<>> <=> Len(frames) # 0
  BY LenProperties, EmptySeq DEF Stacked
<1>2. ASSUME NEW i \in DOMAIN frames, i # 1 PROVE Inside(frames[1], frames[i])
  <2>1. 1 \in DOMAIN frames /\ 1 < i
    BY <1>1, <1>2
  <2> QED
    BY <2>1 DEF Stacked
<1> QED
  BY <1>1, <1>2

(* The binding to be filled is apart from all others that are left.        *)
LEMMA HoleIsApart ==
  ASSUME NEW nodes, NEW frames, NEW asked, NEW h, Placement(nodes, frames, asked, {h})
  PROVE  /\ IsBinding(h) /\ h # <<>> /\ Untouched(nodes, h)
         /\ 1 \in DOMAIN frames /\ Front(h) = frames[1].binding
         /\ \A b : IsBinding(b) /\ IsPrefix(h, b) =>
              /\ \A i \in DOMAIN frames : Around(frames[i], b)
              /\ \A m \in nodes : m.what = "array" => ~IsPrefix(Append(m.binding, Item), b)
<1>1. /\ 1 \in DOMAIN frames /\ Untouched(nodes, h)
      /\ \A i \in DOMAIN frames : Open(nodes, asked, frames[i])
  BY DEF Placement, Stacked, Due
<1>2. PICK name : h = Append(frames[1].binding, name) /\ name # Item /\ name \notin frames[1].left
  BY DEF Placement, Stacked, Due
<1> DEFINE top == frames[1].binding
<1>3. IsBinding(top)
  BY <1>1 DEF Open
<1>4. IsBinding(h) /\ h # <<>> /\ Front(h) = top
  BY <1>2, <1>3, AppendIs
<1>5. /\ IsPrefix(top, h) /\ ~IsPrefix(h, top) /\ h # top
      /\ \A c : IsBinding(c) => (IsPrefix(c, h) <=> IsPrefix(c, top) \/ c = h)
  BY <1>2, <1>3, BelowAppended
<1>6. ASSUME NEW i \in DOMAIN frames PROVE Around(frames[i], h)
  <2>1. IsBinding(frames[i].binding)
    BY <1>1 DEF Open
  <2>2. ASSUME NEW x \in frames[i].left
        PROVE  IsBinding(Append(frames[i].binding, x))
    BY <2>1, AppendIs
  <2>3. CASE i = 1
    <3>1. ASSUME NEW x \in frames[1].left PROVE ~IsPrefix(Append(top, x), h)
      <4>1. ~IsPrefix(Append(top, x), top)
        BY <1>3, BelowAppended
      <4>2. Append(top, x) # h
        BY <1>2, <1>3, AppendedAlike
      <4> QED
        BY <1>5, <2>2, <2>3, <4>1, <4>2
    <3> QED
      BY <1>5, <2>3, <3>1 DEF Around
  <2>4. CASE i # 1
    <3>1. Around(frames[i], top)
      BY <2>4, FramesAre DEF Placement, Inside
    <3>2. IsPrefix(frames[i].binding, h) /\ frames[i].binding # h
      <4>1. IsPrefix(frames[i].binding, top)
        BY <3>1 DEF Around
      <4> QED
        BY <1>5, <2>1, <4>1
    <3>3. ASSUME NEW x \in frames[i].left PROVE ~IsPrefix(Append(frames[i].binding, x), h)
      <4>1. ~IsPrefix(Append(frames[i].binding, x), top)
        BY <3>1 DEF Around
      <4>2. Append(frames[i].binding, x) # h
        <5>1. frames[i].binding # top
          BY <3>1 DEF Around
        <5> QED
          BY <1>2, <1>3, <2>1, <5>1, AppendedAlike
      <4> QED
        BY <1>5, <2>2, <4>1, <4>2
    <3> QED
      BY <3>2, <3>3 DEF Around
  <2> QED
    BY <2>3, <2>4
<1>7. ASSUME NEW m \in nodes, m.what = "array" PROVE ~IsPrefix(Append(m.binding, Item), h)
  <2>1. IsBinding(m.binding) /\ IsBinding(Append(m.binding, Item))
    BY AppendIs DEF Placement
  <2>2. ~IsPrefix(Append(m.binding, Item), top)
    BY <1>1, <1>7 DEF Open
  <2>3. Append(m.binding, Item) # h
    BY <1>2, <1>3, <2>1, AppendedAlike
  <2> QED
    BY <1>5, <2>1, <2>2, <2>3
<1>8. ASSUME NEW b, IsBinding(b), IsPrefix(h, b), NEW i \in DOMAIN frames
      PROVE  Around(frames[i], b)
  <2> DEFINE f == frames[i].binding
  <2>1. IsBinding(f) /\ IsPrefix(f, h) /\ f # h
    BY <1>1, <1>6 DEF Open, Around
  <2>2. IsPrefix(f, b)
    BY <1>4, <1>8, <2>1, PrefixTransitive
  <2>3. b # f
    BY <1>4, <1>8, <2>1, PrefixOfBoth
  <2>4. ASSUME NEW x \in frames[i].left, IsPrefix(Append(f, x), b) PROVE FALSE
    <3>1. IsBinding(Append(f, x)) /\ ~IsPrefix(Append(f, x), h)
      BY <1>6, <2>1, AppendIs DEF Around
    <3>2. IsPrefix(h, Append(f, x))
      BY <1>4, <1>8, <2>4, <3>1, PrefixesOfOne
    <3>3. IsPrefix(h, f) \/ h = Append(f, x)
      BY <1>4, <2>1, <3>2, BelowAppended
    <3>4. CASE IsPrefix(h, f)
      BY <1>4, <2>1, <3>4, PrefixOfBoth
    <3>5. CASE h = Append(f, x)
      BY <1>4, <3>1, <3>5, PrefixReflexive
    <3> QED
      BY <3>3, <3>4, <3>5
  <2> QED
    BY <2>2, <2>3, <2>4 DEF Around
<1>9. ASSUME NEW b, IsBinding(b), IsPrefix(h, b), NEW m \in nodes, m.what = "array",
             IsPrefix(Append(m.binding, Item), b)
      PROVE  FALSE
  <2>1. IsBinding(m.binding) /\ IsBinding(Append(m.binding, Item))
    BY AppendIs DEF Placement
  <2>2. IsPrefix(h, Append(m.binding, Item))
    BY <1>4, <1>7, <1>9, <2>1, PrefixesOfOne
  <2>3. ~IsPrefix(h, m.binding)
    BY <1>1 DEF Untouched
  <2>4. h = Append(m.binding, Item)
    BY <1>4, <2>1, <2>2, <2>3, BelowAppended
  <2> QED
    BY <1>4, <1>7, <1>9, <2>4, PrefixReflexive
<1> QED
  BY <1>1, <1>4, <1>8, <1>9
-----------------------------------------------------------------------------
(* Nodes are placed at the binding and below it.                           *)
LEMMA AddedBelow ==
  ASSUME NEW nodes, NEW frames, NEW asked, NEW h, Placement(nodes, frames, asked, {h}),
         NEW new, \A n \in new : IsBinding(n.binding) /\ IsPrefix(h, n.binding)
  PROVE  /\ \A b : Alone(nodes, b) => Alone(nodes \cup new, b)
         /\ \A i \in DOMAIN frames : Open(nodes \cup new, asked, frames[i])
         /\ \A i \in DOMAIN frames :
              (\A n \in new : n.what # "array") \/ frames[i].list = {}
                => Repeating(nodes \cup new, asked, frames[i])
         /\ \A m \in nodes : m.what = "array" =>
              /\ Alone(nodes \cup new, Append(m.binding, Item))
              /\ \A n \in nodes \cup new :
                   IsPrefix(Append(m.binding, Item), n.binding) => n.what \in {"control", "object"}
<1> DEFINE all == nodes \cup new
<1>1. /\ IsBinding(h) /\ h # <<>> /\ Untouched(nodes, h)
      /\ \A b : IsBinding(b) /\ IsPrefix(h, b) =>
           /\ \A i \in DOMAIN frames : Around(frames[i], b)
           /\ \A m \in nodes : m.what = "array" => ~IsPrefix(Append(m.binding, Item), b)
  BY HoleIsApart
<1>2. ASSUME NEW b, Alone(nodes, b) PROVE Alone(all, b)
  <2>1. PICK n \in nodes : n.binding = b /\ \A m \in nodes : m.binding = b => m = n
    BY <1>2 DEF Alone
  <2>2. \A m \in new : m.binding # b
    BY <1>1, <2>1 DEF Untouched
  <2> QED
    BY <2>1, <2>2 DEF Alone
<1>3. ASSUME NEW n \in new
      PROVE  /\ IsBinding(n.binding)
             /\ \A i \in DOMAIN frames : Around(frames[i], n.binding)
             /\ \A m \in nodes : m.what = "array" => ~IsPrefix(Append(m.binding, Item), n.binding)
  BY <1>1
<1>4. ASSUME NEW i \in DOMAIN frames PROVE Open(all, asked, frames[i])
  <2> DEFINE f == frames[i]
  <2>1. Open(nodes, asked, f)
    BY DEF Placement, Stacked
  <2>2. ASSUME NEW name \in f.left PROVE Untouched(all, Append(f.binding, name))
    BY <1>3, <2>1 DEF Untouched, Around, Open
  <2>3. ASSUME NEW n \in new PROVE ~IsPrefix(Append(n.binding, Item), f.binding)
    <3>1. IsBinding(n.binding) /\ IsPrefix(f.binding, n.binding) /\ n.binding # f.binding
      BY <1>3 DEF Around
    <3>2. IsBinding(f.binding)
      BY <2>1 DEF Open
    <3> SUFFICES ASSUME IsPrefix(Append(n.binding, Item), f.binding) PROVE FALSE
      OBVIOUS
    <3>3. IsPrefix(n.binding, f.binding)
      BY <3>1, <3>2, BelowAppended
    <3> QED
      BY <3>1, <3>2, <3>3, PrefixOfBoth
  <2> QED
    BY <2>1, <2>2, <2>3 DEF Open
<1>5. ASSUME NEW i \in DOMAIN frames, (\A n \in new : n.what # "array") \/ frames[i].list = {}
      PROVE  Repeating(all, asked, frames[i])
  <2> DEFINE f == frames[i]
             list == Front(f.binding)
  <2>1. Repeating(nodes, asked, f)
    BY DEF Placement, Stacked
  <2>2. CASE f.list = {}
    BY <2>2 DEF Repeating
  <2>3. CASE f.list # {}
    <3>1. \A n \in new : IsPrefix(f.binding, n.binding) /\ n.what # "array"
      BY <1>3, <1>5, <2>3 DEF Around
    <3>2. /\ f.template /\ IsBinding(list) /\ list # <<>> /\ f.binding = Append(list, Item)
          /\ \E o \in asked : o.binding = Front(list)
          /\ Alone(nodes, f.binding)
          /\ \A n \in nodes :
               IsPrefix(list, n.binding) => IsPrefix(f.binding, n.binding) /\ n.what # "array"
      BY <2>1, <2>3 DEF Repeating
    <3>3. Alone(all, f.binding)
      BY <1>2, <3>2
    <3> QED
      BY <3>1, <3>2, <3>3 DEF Repeating
  <2> QED
    BY <2>2, <2>3
<1>6. ASSUME NEW m \in nodes, m.what = "array"
      PROVE  /\ Alone(all, Append(m.binding, Item))
             /\ \A n \in all :
                  IsPrefix(Append(m.binding, Item), n.binding) => n.what \in {"control", "object"}
  <2>1. /\ Alone(nodes, Append(m.binding, Item))
        /\ \A n \in nodes :
             IsPrefix(Append(m.binding, Item), n.binding) => n.what \in {"control", "object"}
    BY <1>6 DEF Placement, Whole
  <2> QED
    BY <1>2, <1>3, <1>6, <2>1
<1> QED
  BY <1>2, <1>4, <1>5, <1>6

(* What is left is left still, but for the binding that is filled.         *)
LEMMA AddedSatisfies ==
  ASSUME NEW nodes, NEW frames, NEW asked, NEW h, Placement(nodes, frames, asked, {h}),
         NEW all, \A b : Alone(nodes, b) => Alone(all, b), Alone(all, h)
  PROVE  Satisfied(all, frames, asked, {})
<1> SUFFICES ASSUME NEW o \in asked
             PROVE  /\ IsBinding(o.binding)
                    /\ \A name \in o.names :
                         LET b == Append(o.binding, name)
                         IN /\ name # Item
                            /\ Alone(all, b) \/ \E i \in DOMAIN frames : Owes(frames[i], b)
  BY DEF Satisfied
<1>1. /\ IsBinding(o.binding)
      /\ \A name \in o.names :
           LET b == Append(o.binding, name)
           IN /\ name # Item
              /\ Alone(nodes, b) \/ b \in {h} \/ \E i \in DOMAIN frames : Owes(frames[i], b)
  BY DEF Placement, Satisfied
<1> QED
  BY <1>1

LEMMA AddedHeld ==
  ASSUME NEW nodes, NEW frames, NEW asked, NEW new, Held(nodes, frames, asked),
         NEW others, asked \subseteq others,
         \A n \in new :
           \/ \E o \in others : o.binding = Front(n.binding)
           \/ \E m \in new : m.what = "array" /\ m.binding = Front(n.binding)
  PROVE  Held(nodes \cup new, frames, others)
BY DEF Held

(* A node without properties of its own.                                   *)
LEMMA PutPlain ==
  ASSUME NEW nodes, NEW frames, NEW asked, NEW h, Placement(nodes, frames, asked, {h}),
         NEW n, n.binding = h, n.what # "array"
  PROVE  Placement(nodes \cup {n}, frames, asked, {})
<1> DEFINE all == nodes \cup {n}
<1>1. /\ IsBinding(h) /\ Untouched(nodes, h) /\ 1 \in DOMAIN frames
      /\ Front(h) = frames[1].binding
  BY HoleIsApart
<1>2. IsPrefix(h, h)
  BY <1>1, PrefixReflexive
<1>3. /\ \A b : Alone(nodes, b) => Alone(all, b)
      /\ \A i \in DOMAIN frames : Open(all, asked, frames[i]) /\ Repeating(all, asked, frames[i])
      /\ Whole(all)
  <2> DEFINE new == {n}
  <2>1. \A m \in new : IsBinding(m.binding) /\ IsPrefix(h, m.binding) /\ m.what # "array"
    BY <1>1, <1>2
  <2> HIDE DEF new
  <2>2. /\ \A b : Alone(nodes, b) => Alone(nodes \cup new, b)
        /\ \A i \in DOMAIN frames : /\ Open(nodes \cup new, asked, frames[i])
                                   /\ Repeating(nodes \cup new, asked, frames[i])
        /\ \A m \in nodes : m.what = "array" =>
             /\ Alone(nodes \cup new, Append(m.binding, Item))
             /\ \A k \in nodes \cup new :
                  IsPrefix(Append(m.binding, Item), k.binding) => k.what \in {"control", "object"}
    BY <2>1, AddedBelow
  <2>3. \A m \in nodes \cup new : m.what = "array" => m \in nodes
    BY <2>1
  <2>4. Whole(nodes \cup new)
    BY <2>2, <2>3 DEF Whole
  <2> QED
    BY <2>2, <2>4 DEF new
<1>4. Alone(all, h)
  BY <1>1, <1>2 DEF Alone, Untouched
<1>5. Satisfied(all, frames, asked, {})
  BY <1>3, <1>4, AddedSatisfies
<1>6. \E o \in asked : o.binding = Front(h)
  BY <1>1 DEF Placement, Stacked, Open
<1>7. Held(all, frames, asked)
  BY <1>6, AddedHeld DEF Placement
<1>8. Stacked(all, frames, asked, {})
  BY <1>3 DEF Placement, Stacked
<1>9. \A m \in all : IsBinding(m.binding)
  BY <1>1 DEF Placement
<1> QED
  BY <1>3, <1>5, <1>7, <1>8, <1>9 DEF Placement

(* Outside of templates there is no list whose template is underway.       *)
LEMMA NotRepeating ==
  ASSUME NEW nodes, NEW frames, NEW asked, NEW holes, Placement(nodes, frames, asked, holes),
         1 \in DOMAIN frames, ~frames[1].template
  PROVE  \A i \in DOMAIN frames : frames[i].list = {} /\ ~frames[i].template
<1> TAKE i \in DOMAIN frames
<1>1. i = 1 \/ Inside(frames[1], frames[i])
  BY FramesAre DEF Placement
<1>2. ~frames[i].template
  BY <1>1 DEF Inside
<1>3. Repeating(nodes, asked, frames[i])
  BY DEF Placement, Stacked
<1> QED
  BY <1>2, <1>3 DEF Repeating

(* A list of controls.                                                     *)
LEMMA PutList ==
  ASSUME NEW nodes, NEW frames, NEW asked, NEW h, Placement(nodes, frames, asked, {h}),
         ~frames[1].template,
         NEW item, item.binding = Append(h, Item), item.what = "control",
         NEW list, list.binding = h, list.what = "array"
  PROVE  Placement(nodes \cup {item, list}, frames, asked, {})
<1> DEFINE new == {item, list}
           all == nodes \cup new
<1>1. /\ IsBinding(h) /\ Untouched(nodes, h) /\ 1 \in DOMAIN frames
      /\ Front(h) = frames[1].binding
  BY HoleIsApart
<1>2. /\ IsPrefix(h, h) /\ IsBinding(Append(h, Item)) /\ Front(Append(h, Item)) = h
      /\ IsPrefix(h, Append(h, Item)) /\ Append(h, Item) # h
      /\ ~IsPrefix(Append(h, Item), h)
  BY <1>1, PrefixReflexive, AppendIs, BelowAppended
<1>3. \A i \in DOMAIN frames : frames[i].list = {}
  BY <1>1, NotRepeating
<1>4. \A n \in new : IsBinding(n.binding) /\ IsPrefix(h, n.binding)
  BY <1>1, <1>2
<1>5. /\ \A b : Alone(nodes, b) => Alone(all, b)
      /\ \A i \in DOMAIN frames : Open(all, asked, frames[i]) /\ Repeating(all, asked, frames[i])
      /\ \A m \in nodes : m.what = "array" =>
           /\ Alone(all, Append(m.binding, Item))
           /\ \A k \in all :
                IsPrefix(Append(m.binding, Item), k.binding) => k.what \in {"control", "object"}
  <2> HIDE DEF new
  <2> QED
    BY <1>3, <1>4, AddedBelow
<1>6. \A m \in nodes : ~IsPrefix(Append(h, Item), m.binding) /\ m.binding # h
                         /\ m.binding # Append(h, Item)
  <2> TAKE m \in nodes
  <2>1. ~IsPrefix(h, m.binding) /\ IsBinding(m.binding)
    BY <1>1 DEF Untouched, Placement
  <2> QED
    BY <1>1, <1>2, <2>1, BelowAppended
<1>7. Alone(all, h) /\ Alone(all, Append(h, Item))
  BY <1>2, <1>6 DEF Alone
<1>8. Whole(all)
  <2>1. \A k \in all : IsPrefix(Append(h, Item), k.binding) => k.what \in {"control", "object"}
    BY <1>2, <1>6
  <2> QED
    BY <1>5, <1>7, <2>1 DEF Whole
<1>9. Satisfied(all, frames, asked, {})
  BY <1>5, <1>7, AddedSatisfies
<1>10. \E o \in asked : o.binding = Front(h)
  BY <1>1 DEF Placement, Stacked, Open
<1>11. Held(all, frames, asked)
  <2>1. \A n \in new :
          \/ \E o \in asked : o.binding = Front(n.binding)
          \/ \E m \in new : m.what = "array" /\ m.binding = Front(n.binding)
    BY <1>2, <1>10
  <2> HIDE DEF new
  <2> QED
    BY <2>1, AddedHeld DEF Placement
<1>12. Stacked(all, frames, asked, {})
  BY <1>5 DEF Placement, Stacked
<1>13. \A m \in all : IsBinding(m.binding)
  BY <1>4 DEF Placement
<1> QED
  BY <1>8, <1>9, <1>11, <1>12, <1>13 DEF Placement
-----------------------------------------------------------------------------
(* An object is placed and opened, at the binding or as the items of a     *)
(* list that is still to be placed there.                                  *)
LEMMA PutObject ==
  ASSUME NEW nodes, NEW frames, NEW asked, NEW h, Placement(nodes, frames, asked, {h}),
         NEW n, n.what = "object",
         NEW f, f.binding = n.binding, \A name \in f.left : name # Item,
         NEW o, o.binding = n.binding, o.names = f.left,
         \/ n.binding = h /\ f.list = {} /\ f.template = frames[1].template
         \/ n.binding = Append(h, Item) /\ f.list # {} /\ f.template /\ ~frames[1].template
  PROVE  Placement(nodes \cup {n}, <<f>> \o frames, asked \cup {o}, {})
<1> DEFINE new == {n}
           all == nodes \cup new
           more == <<f>> \o frames
           others == asked \cup {o}
           b == n.binding
<1>1. /\ IsBinding(h) /\ h # <<>> /\ Untouched(nodes, h) /\ 1 \in DOMAIN frames
      /\ Front(h) = frames[1].binding
      /\ \A c : IsBinding(c) /\ IsPrefix(h, c) =>
           /\ \A i \in DOMAIN frames : Around(frames[i], c)
           /\ \A m \in nodes : m.what = "array" => ~IsPrefix(Append(m.binding, Item), c)
  BY HoleIsApart
<1>2. /\ IsPrefix(h, h) /\ IsBinding(Append(h, Item)) /\ Front(Append(h, Item)) = h
      /\ IsPrefix(h, Append(h, Item))
  BY <1>1, PrefixReflexive, AppendIs, BelowAppended
<1>3. IsBinding(b) /\ IsPrefix(h, b) /\ IsPrefix(b, b)
  BY <1>1, <1>2, PrefixReflexive
<1>4. \A m \in nodes : IsBinding(m.binding) /\ ~IsPrefix(b, m.binding) /\ m.binding # b
  <2> TAKE m \in nodes
  <2>1. IsBinding(m.binding) /\ ~IsPrefix(h, m.binding)
    BY <1>1 DEF Untouched, Placement
  <2> QED
    BY <1>1, <1>3, <2>1, PrefixTransitive
<1>5. /\ \A c : Alone(nodes, c) => Alone(all, c)
      /\ \A i \in DOMAIN frames : Open(all, asked, frames[i]) /\ Repeating(all, asked, frames[i])
      /\ \A m \in nodes : m.what = "array" =>
           /\ Alone(all, Append(m.binding, Item))
           /\ \A k \in all :
                IsPrefix(Append(m.binding, Item), k.binding) => k.what \in {"control", "object"}
  <2>1. \A m \in new : IsBinding(m.binding) /\ IsPrefix(h, m.binding) /\ m.what # "array"
    BY <1>3
  <2> HIDE DEF new
  <2> QED
    BY <2>1, AddedBelow
<1>6. Whole(all)
  BY <1>5 DEF Whole
<1>7. Alone(all, b)
  BY <1>4 DEF Alone
<1>8. Open(all, others, f)
  <2>1. ASSUME NEW name \in f.left PROVE name # Item /\ Untouched(all, Append(b, name))
    <3>1. ~IsPrefix(Append(b, name), b)
      BY <1>3, BelowAppended
    <3>2. ASSUME NEW m \in nodes PROVE ~IsPrefix(Append(b, name), m.binding)
      BY <1>3, <1>4, BelowAppended
    <3> QED
      BY <3>1, <3>2 DEF Untouched
  <2>2. \A m \in all : m.what = "array" => ~IsPrefix(Append(m.binding, Item), b)
    BY <1>1, <1>3
  <2> HIDE DEF all
  <2> QED
    BY <1>3, <2>1, <2>2 DEF Open
<1>9. Repeating(all, others, f)
  <2>1. CASE f.list = {}
    BY <2>1 DEF Repeating
  <2>2. CASE f.list # {}
    <3>1. b = Append(h, Item) /\ f.template /\ Front(b) = h
      BY <1>2, <2>2
    <3>2. \E p \in others : p.binding = Front(h)
      BY <1>1 DEF Placement, Stacked, Open
    <3>3. \A m \in all : IsPrefix(h, m.binding) => IsPrefix(b, m.binding) /\ m.what # "array"
      BY <1>1, <1>3 DEF Untouched
    <3> HIDE DEF all, others
    <3> QED
      BY <1>1, <1>7, <3>1, <3>2, <3>3 DEF Repeating
  <2> QED
    BY <2>1, <2>2
<1>10. ASSUME NEW i \in DOMAIN frames PROVE Inside(f, frames[i])
  <2>1. Around(frames[i], b)
    BY <1>1, <1>3
  <2>2. frames[i].template => frames[1].template
    BY FramesAre DEF Placement, Inside
  <2>3. ASSUME ~frames[1].template PROVE ~frames[i].template
    BY <2>2, <2>3
  <2> QED
    BY <2>1, <2>2, <2>3 DEF Inside
<1>11. /\ more \in Seq(Range(more)) /\ more[1] = f /\ 1 \in DOMAIN more
       /\ DOMAIN frames = 1..Len(frames) /\ Len(frames) \in Nat
       /\ DOMAIN more = 1..Len(frames) + 1
       /\ \A i \in DOMAIN frames : i + 1 \in DOMAIN more /\ more[i + 1] = frames[i]
       /\ \A i \in DOMAIN more : i = 1 \/ (i - 1 \in DOMAIN frames /\ more[i] = frames[i - 1])
  <2>1. frames \in Seq(Range(frames))
    BY DEF Placement, Stacked
  <2> QED
    BY <2>1, Pushed
<1>12. \A i \in DOMAIN frames : Open(all, others, frames[i]) /\ Repeating(all, others, frames[i])
  <2> TAKE i \in DOMAIN frames
  <2>1. Open(all, asked, frames[i]) /\ Repeating(all, asked, frames[i])
    BY <1>5
  <2>2. asked \subseteq others
    OBVIOUS
  <2> HIDE DEF all, others
  <2> QED
    BY <2>1, <2>2 DEF Open, Repeating
<1> HIDE DEF more
<1>13. Stacked(all, more, others, {})
  <2>1. ASSUME NEW i \in DOMAIN more, NEW j \in DOMAIN more, i < j
        PROVE  Inside(more[i], more[j])
    <3>1. j - 1 \in DOMAIN frames /\ more[j] = frames[j - 1]
      BY <1>11, <2>1
    <3>2. CASE i = 1
      BY <1>10, <1>11, <3>1, <3>2
    <3>3. CASE i # 1
      <4>1. i - 1 \in DOMAIN frames /\ more[i] = frames[i - 1] /\ i - 1 < j - 1
        BY <1>11, <2>1, <3>3
      <4> QED
        BY <3>1, <4>1 DEF Placement, Stacked
    <3> QED
      BY <3>2, <3>3
  <2>2. \A i \in DOMAIN more : Open(all, others, more[i]) /\ Repeating(all, others, more[i])
    BY <1>8, <1>9, <1>11, <1>12
  <2> QED
    BY <1>11, <2>1, <2>2 DEF Stacked
<1>14. Satisfied(all, more, others, {})
  <2>1. ASSUME NEW p \in asked
        PROVE  /\ IsBinding(p.binding)
               /\ \A name \in p.names :
                    LET c == Append(p.binding, name)
                    IN name # Item /\ (Alone(all, c) \/ \E i \in DOMAIN more : Owes(more[i], c))
    <3>1. /\ IsBinding(p.binding)
          /\ \A name \in p.names :
               LET c == Append(p.binding, name)
               IN /\ name # Item
                  /\ Alone(nodes, c) \/ c \in {h} \/ \E i \in DOMAIN frames : Owes(frames[i], c)
      BY DEF Placement, Satisfied
    <3>2. ASSUME NEW name \in p.names
          PROVE  LET c == Append(p.binding, name)
                 IN name # Item /\ (Alone(all, c) \/ \E i \in DOMAIN more : Owes(more[i], c))
      <4> DEFINE c == Append(p.binding, name)
      <4>1. /\ name # Item
            /\ Alone(nodes, c) \/ c = h \/ \E i \in DOMAIN frames : Owes(frames[i], c)
        BY <3>1
      <4>2. CASE Alone(nodes, c)
        BY <1>5, <4>1, <4>2
      <4>3. CASE c = h
        <5>1. CASE b = h
          BY <1>7, <4>1, <4>3, <5>1
        <5>2. CASE b # h
          <6>1. f.list # {} /\ Front(f.binding) = h
            BY <1>2, <5>2
          <6>2. Owes(more[1], c)
            BY <1>11, <4>3, <6>1 DEF Owes
          <6> QED
            BY <1>11, <4>1, <6>2
        <5> QED
          BY <5>1, <5>2
      <4>4. CASE \E i \in DOMAIN frames : Owes(frames[i], c)
        BY <1>11, <4>1, <4>4
      <4> QED
        BY <4>1, <4>2, <4>3, <4>4
    <3> QED
      BY <3>1, <3>2
  <2>2. /\ IsBinding(o.binding)
        /\ \A name \in o.names : name # Item /\ Owes(more[1], Append(o.binding, name))
    BY <1>3, <1>11 DEF Owes
  <2> HIDE DEF all
  <2> QED
    BY <1>11, <2>1, <2>2 DEF Satisfied
<1>15. Held(all, more, others)
  <2>1. ASSUME NEW m \in nodes
        PROVE  \/ m.binding = <<>>
               \/ \E p \in others : p.binding = Front(m.binding)
               \/ \E k \in all : k.what = "array" /\ k.binding = Front(m.binding)
               \/ \E i \in DOMAIN more : more[i].list # {} /\ more[i].binding = m.binding
    <3>1. \/ m.binding = <<>>
          \/ \E p \in asked : p.binding = Front(m.binding)
          \/ \E k \in nodes : k.what = "array" /\ k.binding = Front(m.binding)
          \/ \E i \in DOMAIN frames : frames[i].list # {} /\ frames[i].binding = m.binding
      BY DEF Placement, Held
    <3>2. ASSUME NEW i \in DOMAIN frames, frames[i].list # {}, frames[i].binding = m.binding
          PROVE  \E j \in DOMAIN more : more[j].list # {} /\ more[j].binding = m.binding
      BY <1>11, <3>2
    <3> QED
      BY <3>1, <3>2
  <2>2. \/ \E p \in others : p.binding = Front(b)
        \/ more[1].list # {} /\ more[1].binding = b
    <3>1. CASE b = h
      BY <1>1, <3>1 DEF Placement, Stacked, Open
    <3>2. CASE f.list # {}
      BY <1>11, <3>2
    <3> QED
      BY <3>1, <3>2
  <2> QED
    BY <1>11, <2>1, <2>2 DEF Held
<1>16. \A m \in all : IsBinding(m.binding)
  BY <1>3, <1>4
<1> QED
  BY <1>6, <1>13, <1>14, <1>15, <1>16 DEF Placement, more
-----------------------------------------------------------------------------
(* A property is taken.                                                    *)
LEMMA TakeName ==
  ASSUME NEW nodes, NEW frames, NEW asked, Placement(nodes, frames, asked, {}),
         1 \in DOMAIN frames, NEW x \in frames[1].left,
         NEW more, more \in Seq(Range(more)), DOMAIN more = DOMAIN frames,
         \A i \in DOMAIN frames : i = 1 \/ more[i] = frames[i],
         more[1].binding = frames[1].binding, more[1].left = frames[1].left \ {x},
         more[1].template = frames[1].template, more[1].list = frames[1].list
  PROVE  Placement(nodes, more, asked, {Append(frames[1].binding, x)})
<1> DEFINE h == Append(frames[1].binding, x)
<1>1. \A i \in DOMAIN more :
        /\ more[i].binding = frames[i].binding /\ more[i].list = frames[i].list
        /\ more[i].template = frames[i].template /\ more[i].left \subseteq frames[i].left
        /\ \A name \in frames[i].left :
             name \in more[i].left \/ Append(frames[i].binding, name) = h
  <2> TAKE i \in DOMAIN more
  <2>1. CASE i = 1
    BY <2>1
  <2>2. CASE i # 1
    BY <2>2
  <2> QED
    BY <2>1, <2>2
<1>2. Open(nodes, asked, frames[1])
  BY DEF Placement, Stacked
<1>3. Due(nodes, more[1], h)
  BY <1>2 DEF Due, Open
<1>4. \A i \in DOMAIN more : Open(nodes, asked, more[i]) /\ Repeating(nodes, asked, more[i])
  <2> TAKE i \in DOMAIN more
  <2>1. Open(nodes, asked, frames[i]) /\ Repeating(nodes, asked, frames[i])
    BY DEF Placement, Stacked
  <2>2. Open(nodes, asked, more[i])
    BY <1>1, <2>1 DEF Open
  <2>3. Repeating(nodes, asked, more[i])
    BY <1>1, <2>1 DEF Repeating
  <2> QED
    BY <2>2, <2>3
<1>5. ASSUME NEW i \in DOMAIN more, NEW j \in DOMAIN more, i < j PROVE Inside(more[i], more[j])
  <2>1. Inside(frames[i], frames[j])
    BY <1>5 DEF Placement, Stacked
  <2> QED
    BY <1>1, <2>1 DEF Inside, Around
<1>6. Stacked(nodes, more, asked, {h})
  BY <1>3, <1>4, <1>5 DEF Stacked
<1>7. \A i \in DOMAIN more : \A b : Owes(frames[i], b) => b = h \/ Owes(more[i], b)
  BY <1>1 DEF Owes
<1> HIDE DEF h
<1>8. Satisfied(nodes, more, asked, {h})
  BY <1>7 DEF Placement, Satisfied
<1>9. Held(nodes, more, asked)
  BY <1>1 DEF Placement, Held
<1> QED
  BY <1>6, <1>8, <1>9 DEF Placement, h

LEMMA RestIs ==
  ASSUME NEW nodes, NEW frames, NEW asked, NEW holes, Stacked(nodes, frames, asked, holes),
         1 \in DOMAIN frames
  PROVE  /\ Tail(frames) \in Seq(Range(Tail(frames)))
         /\ \A i \in DOMAIN Tail(frames) :
              i + 1 \in DOMAIN frames /\ i \in Nat /\ i > 0 /\ Tail(frames)[i] = frames[i + 1]
         /\ \A i \in DOMAIN frames :
              i = 1 \/ (i - 1 \in DOMAIN Tail(frames) /\ Tail(frames)[i - 1] = frames[i])
         /\ \A i \in DOMAIN Tail(frames) : Inside(frames[1], Tail(frames)[i])
         /\ \A i, j \in DOMAIN Tail(frames) : i < j => Inside(Tail(frames)[i], Tail(frames)[j])
<1> DEFINE rest == Tail(frames)
           n == Len(frames)
<1>1. /\ rest \in Seq(Range(rest)) /\ n \in Nat \ {0} /\ DOMAIN frames = 1..n
      /\ DOMAIN rest = 1..n - 1
      /\ \A i \in 1..n - 1 : i + 1 \in DOMAIN frames /\ rest[i] = frames[i + 1]
  BY FramesAre, Popped DEF Stacked
<1> HIDE DEF rest, n
<1>2. \A i \in DOMAIN rest :
        i + 1 \in DOMAIN frames /\ i \in Nat /\ i > 0 /\ rest[i] = frames[i + 1]
  BY <1>1
<1>3. \A i \in DOMAIN frames : i = 1 \/ (i - 1 \in DOMAIN rest /\ rest[i - 1] = frames[i])
  <2> TAKE i \in DOMAIN frames
  <2>1. i = 1 \/ (i - 1 \in 1..n - 1 /\ (i - 1) + 1 = i)
    BY <1>1
  <2> QED
    BY <1>1, <2>1
<1>4. ASSUME NEW i \in DOMAIN rest PROVE Inside(frames[1], rest[i])
  <2>1. i + 1 \in DOMAIN frames /\ 1 < i + 1
    BY <1>2
  <2> QED
    BY <1>2, <2>1 DEF Stacked
<1>5. ASSUME NEW i \in DOMAIN rest, NEW j \in DOMAIN rest, i < j PROVE Inside(rest[i], rest[j])
  <2>1. i + 1 \in DOMAIN frames /\ j + 1 \in DOMAIN frames /\ i + 1 < j + 1
    BY <1>2, <1>5
  <2> QED
    BY <1>2, <2>1 DEF Stacked
<1> QED
  BY <1>1, <1>2, <1>3, <1>4, <1>5 DEF rest

(* An object is left that is not the template of a list.                   *)
LEMMA FinishPlain ==
  ASSUME NEW nodes, NEW frames, NEW asked, Placement(nodes, frames, asked, {}),
         1 \in DOMAIN frames, frames[1].left = {}, frames[1].list = {}
  PROVE  Placement(nodes, Tail(frames), asked, {})
<1> DEFINE rest == Tail(frames)
<1>1. /\ rest \in Seq(Range(rest))
      /\ \A i \in DOMAIN rest : i + 1 \in DOMAIN frames /\ rest[i] = frames[i + 1]
      /\ \A i \in DOMAIN frames : i = 1 \/ (i - 1 \in DOMAIN rest /\ rest[i - 1] = frames[i])
      /\ \A i, j \in DOMAIN rest : i < j => Inside(rest[i], rest[j])
  BY RestIs DEF Placement
<1> HIDE DEF rest
<1>2. Stacked(nodes, rest, asked, {})
  BY <1>1 DEF Placement, Stacked
<1>3. \A b : ~Owes(frames[1], b)
  BY DEF Owes
<1>4. \A b : (\E i \in DOMAIN frames : Owes(frames[i], b)) => \E i \in DOMAIN rest : Owes(rest[i], b)
  BY <1>1, <1>3
<1>5. Satisfied(nodes, rest, asked, {})
  BY <1>4 DEF Placement, Satisfied
<1>6. \A b : (\E i \in DOMAIN frames : frames[i].list # {} /\ frames[i].binding = b)
               => \E i \in DOMAIN rest : rest[i].list # {} /\ rest[i].binding = b
  BY <1>1
<1>7. Held(nodes, rest, asked)
  BY <1>6 DEF Placement, Held
<1> QED
  BY <1>2, <1>5, <1>7 DEF Placement, rest

(* The template of a list is complete.                                     *)
LEMMA FinishList ==
  ASSUME NEW nodes, NEW frames, NEW asked, Placement(nodes, frames, asked, {}),
         1 \in DOMAIN frames, frames[1].left = {}, frames[1].list # {},
         \A n \in nodes : n.what \in {"unsupported", "control", "object", "array"},
         \A n \in nodes : IsPrefix(frames[1].binding, n.binding) => n.what # "unsupported",
         NEW n, n.binding = Front(frames[1].binding), n.what = "array"
  PROVE  Placement(nodes \cup {n}, Tail(frames), asked, {})
<1> DEFINE rest == Tail(frames)
           all == nodes \cup {n}
           b == frames[1].binding
           list == Front(b)
<1>1. /\ rest \in Seq(Range(rest))
      /\ \A i \in DOMAIN rest : i + 1 \in DOMAIN frames /\ rest[i] = frames[i + 1]
      /\ \A i \in DOMAIN frames : i = 1 \/ (i - 1 \in DOMAIN rest /\ rest[i - 1] = frames[i])
      /\ \A i \in DOMAIN rest : Inside(frames[1], rest[i])
      /\ \A i, j \in DOMAIN rest : i < j => Inside(rest[i], rest[j])
  BY RestIs DEF Placement
<1> HIDE DEF rest
<1>2. /\ IsBinding(b) /\ Open(nodes, asked, frames[1])
      /\ IsBinding(list) /\ list # <<>> /\ b = Append(list, Item)
      /\ \E o \in asked : o.binding = Front(list)
      /\ Alone(nodes, b)
      /\ \A m \in nodes : IsPrefix(list, m.binding) => IsPrefix(b, m.binding) /\ m.what # "array"
  <2>1. Open(nodes, asked, frames[1]) /\ Repeating(nodes, asked, frames[1])
    BY DEF Placement, Stacked
  <2> QED
    BY <2>1 DEF Open, Repeating
<1>3. /\ IsPrefix(list, b) /\ ~IsPrefix(b, list) /\ b # list /\ IsPrefix(list, list)
      /\ \A c : IsBinding(c) => (IsPrefix(c, b) <=> IsPrefix(c, list) \/ c = b)
  <2> HIDE DEF b, list
  <2>1. /\ IsPrefix(list, Append(list, Item)) /\ ~IsPrefix(Append(list, Item), list)
        /\ Append(list, Item) # list
        /\ \A c : IsBinding(c) =>
             (IsPrefix(c, Append(list, Item)) <=> IsPrefix(c, list) \/ c = Append(list, Item))
    BY <1>2, BelowAppended
  <2>2. IsPrefix(list, list)
    BY <1>2, PrefixReflexive
  <2> QED
    BY <1>2, <2>1, <2>2
<1> HIDE DEF b, list
<1>4. \A m \in nodes : m.binding # list
  BY <1>2, <1>3
<1>5. \A c : Alone(nodes, c) => Alone(all, c)
  BY <1>4 DEF Alone, list, b
<1>6. Alone(all, list)
  BY <1>4 DEF Alone, list, b
<1>7. ASSUME NEW i \in DOMAIN rest
      PROVE  Open(all, asked, rest[i]) /\ Repeating(all, asked, rest[i])
  <2> DEFINE f == rest[i]
  <2>1. Open(nodes, asked, f) /\ Repeating(nodes, asked, f)
    BY <1>1 DEF Placement, Stacked
  <2>2. Around(f, b) /\ f.list = {}
    <3>1. Inside(frames[1], f)
      BY <1>1
    <3>2. frames[1].template
      BY DEF Placement, Stacked, Repeating
    <3>3. f.list # {} => f.template
      BY <2>1 DEF Repeating
    <3> QED
      BY <3>1, <3>3 DEF Inside, b
  <2>3. IsBinding(f.binding)
    BY <2>1 DEF Open
  <2>4. ASSUME NEW name \in f.left PROVE Untouched(all, Append(f.binding, name))
    <3>1. IsBinding(Append(f.binding, name)) /\ ~IsPrefix(Append(f.binding, name), b)
      BY <2>2, <2>3, AppendIs DEF Around
    <3>2. ~IsPrefix(Append(f.binding, name), list)
      BY <1>3, <3>1
    <3>3. Untouched(nodes, Append(f.binding, name))
      BY <2>1 DEF Open
    <3> QED
      BY <3>2, <3>3 DEF Untouched, list, b
  <2>5. ~IsPrefix(Append(n.binding, Item), f.binding)
    <3>1. Append(n.binding, Item) = b
      BY <1>2 DEF list, b
    <3>2. IsPrefix(f.binding, b) /\ b # f.binding
      BY <2>2 DEF Around
    <3> QED
      BY <1>2, <2>3, <3>1, <3>2, PrefixOfBoth
  <2>6. Open(all, asked, f)
    BY <2>1, <2>4, <2>5 DEF Open
  <2>7. Repeating(all, asked, f)
    BY <2>2 DEF Repeating
  <2> QED
    BY <2>6, <2>7
<1>8. Stacked(all, rest, asked, {})
  BY <1>1, <1>7 DEF Stacked
<1>9. \A c : (\E i \in DOMAIN frames : Owes(frames[i], c)) =>
             c = list \/ \E i \in DOMAIN rest : Owes(rest[i], c)
  <2>1. \A c : Owes(frames[1], c) => c = list
    BY DEF Owes, list, b
  <2> QED
    BY <1>1, <2>1
<1>10. Satisfied(all, rest, asked, {})
  <2> SUFFICES ASSUME NEW o \in asked
               PROVE  /\ IsBinding(o.binding)
                      /\ \A name \in o.names :
                           LET c == Append(o.binding, name)
                           IN /\ name # Item
                              /\ Alone(all, c) \/ \E i \in DOMAIN rest : Owes(rest[i], c)
    BY DEF Satisfied
  <2>1. /\ IsBinding(o.binding)
        /\ \A name \in o.names :
             LET c == Append(o.binding, name)
             IN name # Item /\ (Alone(nodes, c) \/ \E i \in DOMAIN frames : Owes(frames[i], c))
    BY DEF Placement, Satisfied
  <2> HIDE DEF all
  <2> QED
    BY <1>5, <1>6, <1>9, <2>1
<1>11. Held(all, rest, asked)
  <2>1. ASSUME NEW m \in nodes
        PROVE  \/ m.binding = <<>>
               \/ \E o \in asked : o.binding = Front(m.binding)
               \/ \E k \in all : k.what = "array" /\ k.binding = Front(m.binding)
               \/ \E i \in DOMAIN rest : rest[i].list # {} /\ rest[i].binding = m.binding
    <3>1. \/ m.binding = <<>>
          \/ \E o \in asked : o.binding = Front(m.binding)
          \/ \E k \in nodes : k.what = "array" /\ k.binding = Front(m.binding)
          \/ \E i \in DOMAIN frames : frames[i].list # {} /\ frames[i].binding = m.binding
      BY DEF Placement, Held
    <3>2. CASE m.binding = b
      <4>1. n.binding = Front(m.binding)
        BY <3>2 DEF b
      <4> QED
        BY <4>1
    <3>3. CASE m.binding # b
      <4>1. ASSUME NEW i \in DOMAIN frames, frames[i].list # {}, frames[i].binding = m.binding
            PROVE  \E j \in DOMAIN rest : rest[j].list # {} /\ rest[j].binding = m.binding
        BY <1>1, <3>3, <4>1 DEF b
      <4> QED
        BY <3>1, <4>1
    <3> QED
      BY <3>2, <3>3
  <2>2. \E o \in asked : o.binding = Front(n.binding)
    BY <1>2 DEF list, b
  <2> QED
    BY <2>1, <2>2 DEF Held
<1>12. Whole(all)
  <2>1. ASSUME NEW m \in nodes, m.what = "array"
        PROVE  /\ Alone(all, Append(m.binding, Item))
               /\ \A k \in all :
                    IsPrefix(Append(m.binding, Item), k.binding) => k.what \in {"control", "object"}
    <3>1. /\ Alone(nodes, Append(m.binding, Item))
          /\ \A k \in nodes :
               IsPrefix(Append(m.binding, Item), k.binding) => k.what \in {"control", "object"}
      BY <2>1 DEF Placement, Whole
    <3>2. ~IsPrefix(Append(m.binding, Item), b) /\ IsBinding(Append(m.binding, Item))
      BY <1>2, <2>1, AppendIs DEF Open, Placement, b
    <3>3. ~IsPrefix(Append(m.binding, Item), n.binding)
      BY <1>3, <3>2 DEF list, b
    <3> QED
      BY <1>5, <3>1, <3>3
  <2>2. Append(n.binding, Item) = b
    BY <1>2 DEF list, b
  <2>3. ASSUME NEW k \in all, IsPrefix(b, k.binding) PROVE k.what \in {"control", "object"}
    <3>1. k \in nodes
      BY <1>3, <2>3 DEF list, b
    <3>2. IsBinding(k.binding)
      BY <3>1 DEF Placement
    <3>3. IsPrefix(list, k.binding)
      BY <1>2, <1>3, <2>3, <3>2, PrefixTransitive
    <3> QED
      BY <1>2, <2>3, <3>1, <3>3 DEF b
  <2> QED
    BY <1>2, <1>5, <2>1, <2>2, <2>3 DEF Whole
<1>13. \A m \in all : IsBinding(m.binding)
  BY <1>2 DEF Placement, list, b
<1> QED
  BY <1>8, <1>10, <1>11, <1>12, <1>13 DEF Placement, rest
-----------------------------------------------------------------------------
(* The template of a list is given up, with all that was asked in it.      *)
LEMMA GiveUpList ==
  ASSUME NEW nodes, NEW frames, NEW asked, Placement(nodes, frames, asked, {}),
         1 \in DOMAIN frames, frames[1].left = {}, frames[1].list # {},
         NEW n, n.binding = Front(frames[1].binding), n.what # "array",
         NEW others, \A o : o \in others <=> o \in asked /\ ~IsPrefix(frames[1].binding, o.binding)
  PROVE  Placement({ m \in nodes : ~IsPrefix(frames[1].binding, m.binding) } \cup {n},
                   Tail(frames), others, {})
<1> DEFINE rest == Tail(frames)
           b == frames[1].binding
           list == Front(b)
           kept == { m \in nodes : ~IsPrefix(b, m.binding) }
           all == kept \cup {n}
<1>1. /\ rest \in Seq(Range(rest))
      /\ \A i \in DOMAIN rest : i + 1 \in DOMAIN frames /\ rest[i] = frames[i + 1]
      /\ \A i \in DOMAIN frames : i = 1 \/ (i - 1 \in DOMAIN rest /\ rest[i - 1] = frames[i])
      /\ \A i \in DOMAIN rest : Inside(frames[1], rest[i])
      /\ \A i, j \in DOMAIN rest : i < j => Inside(rest[i], rest[j])
  BY RestIs DEF Placement
<1> HIDE DEF rest
<1>2. /\ IsBinding(b) /\ Open(nodes, asked, frames[1])
      /\ IsBinding(list) /\ list # <<>> /\ b = Append(list, Item)
      /\ \E o \in asked : o.binding = Front(list)
      /\ \A m \in nodes : IsPrefix(list, m.binding) => IsPrefix(b, m.binding)
  <2>1. Open(nodes, asked, frames[1]) /\ Repeating(nodes, asked, frames[1])
    BY DEF Placement, Stacked
  <2> QED
    BY <2>1 DEF Open, Repeating
<1> HIDE DEF b, list
<1>3. /\ IsPrefix(list, b) /\ ~IsPrefix(b, list) /\ b # list /\ IsPrefix(list, list)
      /\ \A c : IsBinding(c) => (IsPrefix(c, b) <=> IsPrefix(c, list) \/ c = b)
      /\ IsPrefix(b, b)
  <2>1. /\ IsPrefix(list, Append(list, Item)) /\ ~IsPrefix(Append(list, Item), list)
        /\ Append(list, Item) # list
        /\ \A c : IsBinding(c) =>
             (IsPrefix(c, Append(list, Item)) <=> IsPrefix(c, list) \/ c = Append(list, Item))
    BY <1>2, BelowAppended
  <2>2. IsPrefix(list, list) /\ IsPrefix(b, b)
    BY <1>2, PrefixReflexive
  <2> QED
    BY <1>2, <2>1, <2>2
<1>4. /\ n.binding = list
      /\ \A o : o \in others <=> o \in asked /\ ~IsPrefix(b, o.binding)
  BY DEF list, b
(* What has a name above it that was kept was kept.                        *)
<1>5. ASSUME NEW c, IsBinding(c), ~IsPrefix(b, c), NEW name, c # list \/ name # Item
      PROVE  ~IsPrefix(b, Append(c, name))
  <2>1. b # Append(c, name)
    BY <1>2, <1>5, AppendedAlike
  <2> QED
    BY <1>2, <1>5, <2>1, BelowAppended
<1>6. ASSUME NEW c, ~IsPrefix(b, c), Alone(nodes, c) PROVE Alone(all, c)
  <2>1. PICK m \in nodes : m.binding = c /\ \A k \in nodes : k.binding = c => k = m
    BY <1>6 DEF Alone
  <2>2. m \in kept
    BY <1>6, <2>1
  <2>3. c # list
    BY <1>2, <1>3, <1>6, <2>1
  <2>4. \A k \in all : k.binding = c => k = m
    BY <1>4, <2>1, <2>3
  <2> HIDE DEF all
  <2>5. m \in all
    BY <2>2 DEF all
  <2> QED
    BY <2>1, <2>4, <2>5 DEF Alone
<1>7. Alone(all, list)
  <2>1. \A m \in kept : m.binding # list
    BY <1>2, <1>3
  <2> QED
    BY <1>4, <2>1 DEF Alone
<1>8. ASSUME NEW i \in DOMAIN rest
      PROVE  Open(all, others, rest[i]) /\ Repeating(all, others, rest[i])
  <2> DEFINE f == rest[i]
  <2>1. Open(nodes, asked, f) /\ Repeating(nodes, asked, f)
    BY <1>1 DEF Placement, Stacked
  <2>2. Around(f, b) /\ f.list = {}
    <3>1. Inside(frames[1], f)
      BY <1>1
    <3>2. f.list # {} => f.template
      BY <2>1 DEF Repeating
    <3> QED
      BY <3>1, <3>2 DEF Inside, b
  <2>3. IsBinding(f.binding) /\ IsPrefix(f.binding, b) /\ b # f.binding
    BY <2>1, <2>2 DEF Open, Around
  <2>4. ASSUME NEW name \in f.left PROVE Untouched(all, Append(f.binding, name))
    <3>1. IsBinding(Append(f.binding, name)) /\ ~IsPrefix(Append(f.binding, name), b)
      BY <2>2, <2>3, AppendIs DEF Around
    <3>2. ~IsPrefix(Append(f.binding, name), list)
      BY <1>3, <3>1
    <3>3. Untouched(nodes, Append(f.binding, name))
      BY <2>1 DEF Open
    <3> QED
      BY <1>4, <3>2, <3>3 DEF Untouched
  <2>5. \E o \in others : o.binding = f.binding
    <3>1. ~IsPrefix(b, f.binding)
      BY <1>2, <2>3, PrefixOfBoth
    <3> QED
      BY <1>4, <2>1, <3>1 DEF Open
  <2>6. \A m \in all : m.what = "array" => m \in nodes
    OBVIOUS
  <2> HIDE DEF all
  <2>7. Open(all, others, f)
    BY <2>1, <2>4, <2>5, <2>6 DEF Open
  <2>8. Repeating(all, others, f)
    BY <2>2 DEF Repeating
  <2> QED
    BY <2>7, <2>8
<1>9. Stacked(all, rest, others, {})
  BY <1>1, <1>8 DEF Stacked
<1>10. \A c : (\E i \in DOMAIN frames : Owes(frames[i], c)) =>
              c = list \/ \E i \in DOMAIN rest : Owes(rest[i], c)
  <2>1. \A c : Owes(frames[1], c) => c = list
    BY DEF Owes, list, b
  <2> QED
    BY <1>1, <2>1
<1>11. Satisfied(all, rest, others, {})
  <2> SUFFICES ASSUME NEW o \in others
               PROVE  /\ IsBinding(o.binding)
                      /\ \A name \in o.names :
                           LET c == Append(o.binding, name)
                           IN /\ name # Item
                              /\ Alone(all, c) \/ \E i \in DOMAIN rest : Owes(rest[i], c)
    BY DEF Satisfied
  <2>1. /\ IsBinding(o.binding) /\ ~IsPrefix(b, o.binding)
        /\ \A name \in o.names :
             LET c == Append(o.binding, name)
             IN name # Item /\ (Alone(nodes, c) \/ \E i \in DOMAIN frames : Owes(frames[i], c))
    BY <1>4 DEF Placement, Satisfied
  <2> HIDE DEF all
  <2> QED
    BY <1>5, <1>6, <1>7, <1>10, <2>1
<1>12. Held(all, rest, others)
  <2>1. ASSUME NEW m \in kept
        PROVE  \/ m.binding = <<>>
               \/ \E o \in others : o.binding = Front(m.binding)
               \/ \E k \in all : k.what = "array" /\ k.binding = Front(m.binding)
               \/ \E i \in DOMAIN rest : rest[i].list # {} /\ rest[i].binding = m.binding
    <3>1. \/ m.binding = <<>>
          \/ \E o \in asked : o.binding = Front(m.binding)
          \/ \E k \in nodes : k.what = "array" /\ k.binding = Front(m.binding)
          \/ \E i \in DOMAIN frames : frames[i].list # {} /\ frames[i].binding = m.binding
      BY DEF Placement, Held
    <3>2. IsBinding(m.binding) /\ ~IsPrefix(b, m.binding)
      BY DEF Placement
    <3>3. ASSUME m.binding # <<>> PROVE ~IsPrefix(b, Front(m.binding))
      <4>1. IsBinding(Front(m.binding)) /\ m.binding = Append(Front(m.binding), Last(m.binding))
        BY <3>2, <3>3, FrontIs
      <4> DEFINE c == Front(m.binding)
                 x == Last(m.binding)
      <4> HIDE DEF c, x
      <4>2. m.binding = Append(c, x) /\ IsBinding(c)
        BY <4>1 DEF c, x
      <4>3. IsPrefix(b, c) => IsPrefix(b, Append(c, x))
        BY <1>2, <4>2, BelowAppended
      <4> QED
        BY <3>2, <4>2, <4>3 DEF c
    <3>4. ASSUME NEW i \in DOMAIN frames, frames[i].list # {}, frames[i].binding = m.binding
          PROVE  \E j \in DOMAIN rest : rest[j].list # {} /\ rest[j].binding = m.binding
      <4>1. i # 1
        BY <1>3, <3>2, <3>4 DEF b
      <4> QED
        BY <1>1, <3>4, <4>1
    <3> QED
      BY <1>4, <3>1, <3>3, <3>4
  <2>2. \E o \in others : o.binding = Front(list)
    <3> DEFINE c == Front(list)
               x == Last(list)
    <3>1. IsBinding(c) /\ list = Append(c, x)
      BY <1>2, FrontIs
    <3> HIDE DEF c, x
    <3>2. IsPrefix(b, c) => IsPrefix(b, Append(c, x))
      BY <1>2, <3>1, BelowAppended
    <3>3. ~IsPrefix(b, c)
      BY <1>3, <3>1, <3>2
    <3> QED
      BY <1>2, <1>4, <3>3 DEF c
  <2>3. \E o \in others : o.binding = Front(n.binding)
    BY <1>4, <2>2
  <2> HIDE DEF kept
  <2> QED
    BY <2>1, <2>3 DEF Held
<1>13. Whole(all)
  <2> SUFFICES ASSUME NEW m \in kept, m.what = "array"
        PROVE  /\ Alone(all, Append(m.binding, Item))
               /\ \A k \in all :
                    IsPrefix(Append(m.binding, Item), k.binding) => k.what \in {"control", "object"}
    BY DEF Whole
  <2>1. /\ Alone(nodes, Append(m.binding, Item))
        /\ \A k \in nodes :
             IsPrefix(Append(m.binding, Item), k.binding) => k.what \in {"control", "object"}
    BY DEF Placement, Whole
  <2>2. IsBinding(m.binding) /\ ~IsPrefix(b, m.binding) /\ m.binding # list
    BY <1>2, <1>3 DEF Placement
  <2>3. ~IsPrefix(b, Append(m.binding, Item))
    BY <1>5, <2>2
  <2>4. Alone(all, Append(m.binding, Item))
    BY <1>6, <2>1, <2>3
  <2>5. ~IsPrefix(Append(m.binding, Item), b) /\ IsBinding(Append(m.binding, Item))
    BY <1>2, <2>2, AppendIs DEF Open, b
  <2>6. ~IsPrefix(Append(m.binding, Item), n.binding)
    BY <1>3, <1>4, <2>5
  <2> QED
    BY <2>1, <2>4, <2>6
<1>14. \A m \in all : IsBinding(m.binding)
  BY <1>2, <1>4 DEF Placement
<1> QED
  BY <1>9, <1>11, <1>12, <1>13, <1>14 DEF Placement, rest, b

(* Nothing was placed but perhaps a region at the root.                    *)
LEMMA RootOpened ==
  ASSUME NEW nodes, \A n \in nodes : n.binding = <<>> /\ n.what # "array",
         NEW f, f.binding = <<>>, f.list = {}, \A name \in f.left : name # Item,
         NEW o, o.binding = <<>>, o.names = f.left
  PROVE  Placement(nodes, <<f>>, {o}, {})
<1> DEFINE frames == <<f>>
           asked == {o}
<1>1. /\ frames \in Seq(Range(frames)) /\ DOMAIN frames = {1} /\ frames[1] = f
  BY OneInSequence
<1> HIDE DEF frames
<1>2. IsBinding(<<>>)
  BY NothingComplete
<1>3. \A x : IsBinding(Append(<<>>, x)) /\ ~IsPrefix(Append(<<>>, x), <<>>)
  BY <1>2, AppendIs, BelowAppended
<1>4. Open(nodes, asked, f)
  BY <1>2, <1>3 DEF Open, Untouched
<1>5. Repeating(nodes, asked, f)
  BY DEF Repeating
<1>6. Stacked(nodes, frames, asked, {})
  BY <1>1, <1>4, <1>5 DEF Stacked
<1>7. \A name \in f.left : Owes(frames[1], Append(<<>>, name))
  BY <1>1 DEF Owes
<1>8. Satisfied(nodes, frames, asked, {})
  BY <1>1, <1>2, <1>7 DEF Satisfied
<1>9. Held(nodes, frames, asked) /\ Whole(nodes)
  BY DEF Held, Whole
<1>10. \A n \in nodes : IsBinding(n.binding)
  BY <1>2
<1> QED
  BY <1>6, <1>8, <1>9, <1>10 DEF Placement, frames

LEMMA RootAlone ==
  ASSUME NEW nodes, \A n \in nodes : n.binding = <<>> /\ n.what # "array",
         NEW asked, \A o \in asked : o.binding = <<>> /\ o.names = {}
  PROVE  Placement(nodes, <<>>, asked, {})
<1>1. IsBinding(<<>>) /\ <<>> \in Seq(Range(<<>>)) /\ DOMAIN <<>> = {}
  <2>1. <<>> \in Seq(Range(<<>>))
    BY OneInSequence
  <2>2. DOMAIN <<>> = {}
    OBVIOUS
  <2> QED
    BY <2>1, <2>2, NothingComplete
<1>2. Stacked(nodes, <<>>, asked, {}) /\ Satisfied(nodes, <<>>, asked, {})
  BY <1>1 DEF Stacked, Satisfied
<1>3. Held(nodes, <<>>, asked) /\ Whole(nodes)
  BY DEF Held, Whole
<1> QED
  BY <1>1, <1>2, <1>3 DEF Placement
-----------------------------------------------------------------------------
(* What the objects projected so far ask for, and the root if it is one.   *)
AskedOf(binding, schemas) == [binding |-> binding, names |-> PropertyNames(schemas)]

AskedBy(nodes) ==
  { AskedOf(n.binding, n.schemas) : n \in { m \in nodes : m.what = "object" } }

AskedByRoot == { AskedOf(o.binding, o.schemas) : o \in Roots }

Asked == AskedBy(projected) \cup AskedByRoot

(* While a property is projected its binding is still empty; while the     *)
(* items of a list are, that of the list.                                  *)
PlacementInv ==
  /\ \A n \in projected : n.what \in {"unsupported", "control", "object", "array"}
  /\ stage = "waiting" => agenda = <<>> /\ projected = {}
  /\ stage = "expanding" /\ subject.of = "root" => agenda = <<>> /\ projected = {}
  /\ stage = "expanding" /\ subject.of # "root" =>
       /\ Placement(projected, agenda, Asked, {subject.binding})
       /\ subject.of = "item" => ~agenda[1].template /\ subject.list # {}
  /\ stage = "choosing" => agenda # <<>> /\ Placement(projected, agenda, Asked, {})
  /\ stage = "projected" => Placement(projected, <<>>, Asked, {})

(* What is found for the root is what references and allOf lead to.        *)
RootInv ==
  stage = "expanding" /\ subject.of = "root" =>
    LET found == Bares(expanded) \cup Bares(Range(pending))
        reached == Reachable({Root(documents, 1)}, {"ref", "allOf"}, {})
    IN /\ subject.binding = <<>> /\ Root(documents, 1) \in found
       /\ found \subseteq reached

LEMMA FrozenAsked ==
  ASSUME UNCHANGED resourceVars
  PROVE  /\ \A S : PropertyNames(S)' = PropertyNames(S)
         /\ Reachable({Root(documents, 1)}, {"ref", "allOf"}, {})' =
              Reachable({Root(documents, 1)}, {"ref", "allOf"}, {})
         /\ AskedByRoot' = AskedByRoot
         /\ Asked' = AskedBy(projected') \cup AskedByRoot
<1>1. /\ UNCHANGED <<documents, visited>>
      /\ \A l, k : Below(l, k)' = Below(l, k)
      /\ \A l, k : Uses(l, k)' = Uses(l, k)
      /\ \A l : SchemaOf(l)' = SchemaOf(l)
  BY Frozen
<1>2. ASSUME NEW S PROVE PropertyNames(S)' = PropertyNames(S)
  BY <1>1 DEF PropertyNames
<1>3. ASSUME NEW S PROVE Reachable(S, {"ref", "allOf"}, {})' = Reachable(S, {"ref", "allOf"}, {})
  <2> DEFINE steps == [l \in visited |-> Onward(l, {"ref", "allOf"}, {})]
  <2>1. steps' = steps
    <3>1. \A l : Onward(l, {"ref", "allOf"}, {})' = Onward(l, {"ref", "allOf"}, {})
      BY FrozenOnward
    <3> QED
      BY <1>1, <3>1
  <2>2. Reachable(S, {"ref", "allOf"}, {}) = Closure(S, steps)
    BY Zenon DEF Reachable
  <2>3. Reachable(S, {"ref", "allOf"}, {})' = Closure(S, steps')
    BY Zenon DEF Reachable
  <2> HIDE DEF steps
  <2> QED
    BY <2>1, <2>2, <2>3
<1>4. Root(documents, 1)' = Root(documents, 1)
  BY <1>1
<1>5. ASSUME NEW S PROVE InferKind(S)' = InferKind(S)
  <2>1. ASSUME NEW l PROVE DeclaredKinds(l)' = DeclaredKinds(l)
    BY <1>1 DEF DeclaredKinds
  <2>2. Using(S, "type")' = Using(S, "type")
    BY <1>1 DEF Using
  <2>3. Left(S)' = Left(S)
    BY <2>1, <2>2 DEF Left
  <2> QED
    BY <2>2, <2>3 DEF InferKind, Left
<1> DEFINE root == Root(documents, 1)
           reached == Reachable({root}, {"ref", "allOf"}, {})
<1>6. reached' = reached
  <2> HIDE DEF root
  <2>1. root' = root
    BY <1>4 DEF root
  <2> QED
    BY <1>3, <2>1
<1>7. Roots' = Roots
  <2>1. Roots = IF InferKind(reached) = "object"
                THEN {[binding |-> <<>>, schemas |-> reached]} ELSE {}
    BY Zenon DEF Roots
  <2>2. Roots' = IF InferKind(reached)' = "object"
                 THEN {[binding |-> <<>>, schemas |-> reached']} ELSE {}
    BY Zenon DEF Roots
  <2> HIDE DEF reached
  <2>3. InferKind(reached)' = InferKind(reached)
    BY <1>5, <1>6
  <2> QED
    BY <1>6, <2>1, <2>2, <2>3
<1>8. AskedByRoot' = AskedByRoot
  BY <1>2, <1>7 DEF AskedByRoot, AskedOf
<1>9. Asked' = AskedBy(projected') \cup AskedByRoot
  BY <1>2, <1>8 DEF Asked, AskedBy, AskedOf
<1> QED
  BY <1>2, <1>6, <1>8, <1>9

LEMMA EverythingIsPlaced == PlacementInv => EveryPropertyIsPlaced
<1> SUFFICES ASSUME PlacementInv, stage = "projected" PROVE EveryPropertyIsPlaced
  BY DEF EveryPropertyIsPlaced
<1> DEFINE objects == { [binding |-> n.binding, schemas |-> n.schemas] :
                        n \in { m \in projected : m.what = "object" } } \cup Roots
           at(b) == { n \in projected : n.binding = b }
           lists == { n.binding : n \in { m \in projected : m.what = "array" } }
<1>1. /\ Satisfied(projected, <<>>, Asked, {}) /\ Held(projected, <<>>, Asked)
      /\ Whole(projected)
  BY DEF PlacementInv, Placement
<1>2. DOMAIN <<>> = {}
  OBVIOUS
<1>3. ASSUME NEW b, Alone(projected, b) PROVE Cardinality(at(b)) = 1
  <2>1. PICK n \in projected : n.binding = b /\ \A m \in projected : m.binding = b => m = n
    BY <1>3 DEF Alone
  <2>2. at(b) = {n}
    BY <2>1
  <2> QED
    BY <2>2, FS_Singleton
<1>4. \A o \in objects : AskedOf(o.binding, o.schemas) \in Asked
  BY DEF Asked, AskedBy, AskedByRoot
<1>5. ASSUME NEW a \in Asked PROVE \E o \in objects : a.binding = o.binding
  <2>1. \E o \in objects : a = AskedOf(o.binding, o.schemas)
    <3>1. CASE a \in AskedBy(projected)
      <4>1. PICK n \in projected : n.what = "object" /\ a = AskedOf(n.binding, n.schemas)
        BY <3>1 DEF AskedBy
      <4> DEFINE o == [binding |-> n.binding, schemas |-> n.schemas]
      <4>2. o \in objects /\ o.binding = n.binding /\ o.schemas = n.schemas
        BY <4>1
      <4> HIDE DEF o, objects
      <4> QED
        BY <4>1, <4>2
    <3>2. CASE a \in AskedByRoot
      BY <3>2 DEF AskedByRoot
    <3> QED
      BY <3>1, <3>2 DEF Asked
  <2> HIDE DEF objects
  <2> QED
    BY <2>1 DEF AskedOf
<1>6. ASSUME NEW o \in objects, NEW name \in PropertyNames(o.schemas)
      PROVE  Cardinality(at(Append(o.binding, name))) = 1
  <2>1. /\ AskedOf(o.binding, o.schemas) \in Asked
        /\ AskedOf(o.binding, o.schemas).binding = o.binding
        /\ AskedOf(o.binding, o.schemas).names = PropertyNames(o.schemas)
    BY <1>4 DEF AskedOf
  <2> HIDE DEF objects, at
  <2>2. Alone(projected, Append(o.binding, name))
    BY <1>1, <1>2, <2>1 DEF Satisfied
  <2> QED
    BY <1>3, <2>2
<1>7. ASSUME NEW n \in projected, n.binding # <<>>
      PROVE  Front(n.binding) \in { o.binding : o \in objects } \cup lists
  <2>1. \/ \E a \in Asked : a.binding = Front(n.binding)
        \/ \E m \in projected : m.what = "array" /\ m.binding = Front(n.binding)
    BY <1>1, <1>2, <1>7 DEF Held
  <2> HIDE DEF objects
  <2> QED
    BY <1>5, <2>1
<1>8. ASSUME NEW b \in lists
      PROVE  /\ Cardinality(at(Append(b, Item))) = 1
             /\ \A n \in projected :
                  IsPrefix(Append(b, Item), n.binding) => n.what \in {"control", "object"}
  <2>1. PICK m \in projected : m.what = "array" /\ m.binding = b
    BY <1>8
  <2> HIDE DEF at
  <2> QED
    BY <1>1, <1>3, <2>1 DEF Whole
<1> QED
  BY <1>6, <1>7, <1>8, Zenon DEF EveryPropertyIsPlaced
-----------------------------------------------------------------------------
(* What references and allOf lead to from the root.                        *)
RootReached == Reachable({Root(documents, 1)}, {"ref", "allOf"}, {})

LEMMA ReachedIs ==
  ASSUME Prepared
  PROVE  /\ Root(documents, 1) \in RootReached
         /\ \A l \in RootReached : OnwardFrom(l) \subseteq RootReached
         /\ \A C \in SUBSET Validating :
              Root(documents, 1) \in C /\ (\A l \in C : OnwardFrom(l) \subseteq C)
                => RootReached \subseteq C
<1> DEFINE root == Root(documents, 1)
           steps == [l \in visited |-> Onward(l, {"ref", "allOf"}, {})]
<1>1. root \in Validating /\ Validating \subseteq visited
  BY ValidatingIs DEF Prepared
<1>2. ASSUME NEW l \in Validating PROVE steps[l] = OnwardFrom(l) /\ steps[l] \subseteq Validating
  <2>1. l \in visited /\ Bare(l) = l
    BY <1>1, BareIs DEF Prepared
  <2>2. OnwardFrom(l) \subseteq Validating
    BY <2>1, OnwardIs
  <2> QED
    BY <2>1, <2>2 DEF OnwardFrom
<1>3. IsFiniteSet(DOMAIN steps) /\ DOMAIN steps = visited
  BY VisitedIsFinite DEF Prepared
<1>4. RootReached = Closure({root}, steps)
  BY Zenon DEF RootReached, Reachable
<1> HIDE DEF steps, root
<1>5. /\ {root} \subseteq RootReached /\ RootReached \subseteq Validating
      /\ \A l \in RootReached : steps[l] \subseteq RootReached
      /\ \A C \in SUBSET Validating : {root} \subseteq C /\ (\A l \in C : steps[l] \subseteq C)
                                         => RootReached \subseteq C
  <2>1. {root} \in SUBSET Validating /\ Validating \in SUBSET DOMAIN steps
    BY <1>1, <1>3
  <2>2. \A l \in Validating : steps[l] \subseteq Validating
    BY <1>2
  <2> QED
    BY <1>3, <1>4, <2>1, <2>2, ClosureIs
<1>6. \A l \in RootReached : OnwardFrom(l) \subseteq RootReached
  BY <1>2, <1>5
<1>7. ASSUME NEW C \in SUBSET Validating, root \in C, \A l \in C : OnwardFrom(l) \subseteq C
      PROVE  RootReached \subseteq C
  <2>1. \A l \in C : steps[l] \subseteq C
    BY <1>2, <1>7
  <2> QED
    BY <1>5, <1>7, <2>1
<1> QED
  BY <1>5, <1>6, <1>7 DEF root

LEMMA IncludeReaches ==
  ASSUME ProjectionInv, ResourcesInv, CoverageInv, IncludeValidationResources,
         UNCHANGED resourceVars
  PROVE  RootInv'
<1> DEFINE root == Root(documents, 1)
           start == Located(root, <<>>)
<1>1. /\ outcome = "prepared"
      /\ \/ stage' = "unsupported-reference"
         \/ stage' = "limit"
         \/ /\ ~\E l \in Validated({root}) : Answered(l) # References(SchemaOf(l))
            /\ ExpandNext(<<start>>, "root", <<>>, {})
  BY Zenon DEF IncludeValidationResources
<1>2. CASE stage' \in {"unsupported-reference", "limit"}
  BY <1>2 DEF RootInv
<1>3. CASE /\ ~\E l \in Validated({root}) : Answered(l) # References(SchemaOf(l))
           /\ ExpandNext(<<start>>, "root", <<>>, {})
  <2>1. Prepared
    BY <1>1, <1>3 DEF Answering, Validating, Prepared
  <2>2. root \in visited /\ Bare(root) = root
    BY <2>1, ValidatingIs, BareIs DEF Prepared
  <2>3. Bare(start) = root
    BY <2>2, LocatedIs
  <2>4. pending' = <<start>> /\ expanded' = {} /\ subject'.binding = <<>>
    BY <1>3 DEF ExpandNext
  <2>5. root' = root /\ RootReached' = RootReached
    BY Frozen, FrozenAsked DEF RootReached
  <2> HIDE DEF start, root
  <2>6. Range(pending') = {start}
    BY <2>4, OneInSequence
  <2>7. Bares(expanded') \cup Bares(Range(pending')) = {root}
    BY <2>3, <2>4, <2>6 DEF Bares
  <2>8. root \in RootReached
    BY <2>1, ReachedIs DEF root
  <2> QED
    BY <2>4, <2>5, <2>7, <2>8 DEF RootInv, RootReached, root
<1> QED
  BY <1>1, <1>2, <1>3

LEMMA ExpandReaches ==
  ASSUME ProjectionInv, RootInv, Prepared, Expand, UNCHANGED resourceVars
  PROVE  RootInv'
<1> DEFINE last == Last(pending)
           l == Entry(last)
           key == <<Bare(l), ToSet(l.memberships)>>
           new == key \notin seen
           front == Front(pending)
           found == Bares(expanded) \cup Bares(Range(pending))
<1>1. /\ stage = "expanding" /\ pending # <<>>
      /\ \/ stage' = "limit"
         \/ /\ pending' = IF new THEN front \o Followed(l) \o Branching(l) ELSE front
            /\ expanded' = IF new THEN expanded \cup {Applying(l)} ELSE expanded
            /\ UNCHANGED <<subject, stage>>
  BY Zenon DEF Expand
<1>2. Expansion(pending, seen, expanded, cycles)
  BY DEF ProjectionInv
<1>3. CASE stage' = "limit"
  BY <1>3 DEF RootInv
<1>4. CASE subject.of # "root" /\ UNCHANGED <<subject, stage>>
  BY <1>4 DEF RootInv
<1>5. ASSUME subject.of = "root",
             pending' = IF new THEN front \o Followed(l) \o Branching(l) ELSE front,
             expanded' = IF new THEN expanded \cup {Applying(l)} ELSE expanded,
             UNCHANGED <<subject, stage>>
      PROVE  RootInv'
  <2>1. /\ last \in Range(pending) /\ front \in Seq(Range(front))
        /\ Range(pending) = Range(front) \cup {last}
    <3>1. pending \in Seq(Range(pending))
      BY <1>2 DEF Expansion
    <3> QED
      BY <1>1, <3>1, RangeOfFront
  <2>2. Bare(last) \in Validating /\ DOMAIN last = Fields
    BY <1>2, <2>1 DEF Expansion, Fields, Bares
  <2>3. Bare(l) = Bare(last) /\ key[1] = Bare(l)
    BY <2>2, EntryIs
  <2>4. /\ subject.binding = <<>> /\ Root(documents, 1) \in found /\ found \subseteq RootReached
    BY <1>1, <1>5 DEF RootInv, RootReached
  <2>5. /\ Followed(l) \in Seq(Range(Followed(l))) /\ Branching(l) \in Seq(Range(Branching(l)))
        /\ Bares(Range(Followed(l))) \cup Bares(Range(Branching(l))) \subseteq OnwardFrom(l)
    BY <2>2, <2>3, LedTo
  <2>6. found = Bares(expanded) \cup Bares(Range(front)) \cup {Bare(l)}
    <3>1. \A S, x : Bares(S \cup {x}) = Bares(S) \cup {Bare(x)}
      BY DEF Bares
    <3> QED
      BY <2>1, <2>3, <3>1
  <2>7. Root(documents, 1)' = Root(documents, 1) /\ RootReached' = RootReached
    BY Frozen, FrozenAsked DEF RootReached
  <2>8. OnwardFrom(l) \subseteq RootReached
    <3>1. Bare(l) \in RootReached
      BY <2>4, <2>6
    <3>2. OnwardFrom(Bare(l)) = OnwardFrom(l)
      <4>1. Bare(Bare(l)) = Bare(l)
        BY DEF Bare
      <4> QED
        BY <4>1, Zenon DEF OnwardFrom
    <3> QED
      BY <3>1, <3>2, ReachedIs
  <2> HIDE DEF last, front, l
  <2>9. CASE new
    <3>1. /\ front \o Followed(l) \in Seq(Range(front \o Followed(l)))
          /\ Range(front \o Followed(l)) = Range(front) \cup Range(Followed(l))
      BY <2>1, <2>5, RangeOfJoin
    <3>2. Range(pending') = Range(front) \cup Range(Followed(l)) \cup Range(Branching(l))
      BY <1>5, <2>5, <2>9, <3>1, RangeOfJoin
    <3>3. Bares(Range(pending')) =
            Bares(Range(front)) \cup Bares(Range(Followed(l))) \cup Bares(Range(Branching(l)))
      <4>1. \A S, T, U : Bares(S \cup T \cup U) = Bares(S) \cup Bares(T) \cup Bares(U)
        BY DEF Bares
      <4> QED
        BY <3>2, <4>1
    <3>4. Bares(expanded') = Bares(expanded) \cup {Bare(l)}
      <4>1. Bare(Applying(l)) = Bare(l)
        BY DEF Applying, Bare
      <4>2. \A S, x : Bares(S \cup {x}) = Bares(S) \cup {Bare(x)}
        BY DEF Bares
      <4> QED
        BY <1>5, <2>9, <4>1, <4>2
    <3>5. /\ found \subseteq Bares(expanded') \cup Bares(Range(pending'))
          /\ Bares(expanded') \cup Bares(Range(pending')) \subseteq RootReached
      BY <2>4, <2>5, <2>6, <2>8, <3>3, <3>4
    <3> HIDE DEF found
    <3> QED
      BY <1>5, <2>4, <2>7, <3>5 DEF RootInv, RootReached
  <2>10. CASE ~new
    <3>1. Bare(l) \in Bares(expanded)
      BY <1>2, <2>3, <2>10 DEF Expansion
    <3>2. found = Bares(expanded') \cup Bares(Range(pending'))
      BY <1>5, <2>6, <2>10, <3>1
    <3> HIDE DEF found
    <3> QED
      BY <1>5, <2>4, <2>7, <3>2 DEF RootInv, RootReached
  <2> QED
    BY <2>9, <2>10
<1> HIDE DEF last, front, l, key, new
<1> QED
  BY <1>1, <1>3, <1>4, <1>5

(* For the root all of it is found, and it is asked for what its object    *)
(* has.                                                                    *)
LEMMA RootIsFound ==
  ASSUME ProjectionInv, ExpandingInv, PlacementInv, RootInv, Prepared,
         stage = "expanding", pending = <<>>, subject.of = "root"
  PROVE  /\ Bares(expanded) = RootReached
         /\ AskedByRoot = IF InferKind(expanded) = "object" THEN {AskedOf(<<>>, expanded)} ELSE {}
<1>1. agenda = <<>> /\ Active = {}
  BY DEF PlacementInv, Active
<1>2. Bares(Range(pending)) = {}
  <2>1. Range(<<>>) = {}
    BY OneInSequence
  <2> QED
    BY <2>1 DEF Bares
<1>3. Known(expanded)
  BY FoundIs
<1>4. Root(documents, 1) \in Bares(expanded) /\ Bares(expanded) \subseteq RootReached
  BY <1>2 DEF RootInv, RootReached
<1>5. \A l \in Bares(expanded) : OnwardFrom(l) \subseteq Bares(expanded)
  <2> SUFFICES ASSUME NEW m \in expanded PROVE OnwardFrom(Bare(m)) \subseteq Bares(expanded)
    BY DEF Bares
  <2>1. Within(m) \subseteq Bares(expanded)
    BY <1>2 DEF ExpandingInv
  <2>2. Within(m) = OnwardFrom(m)
    BY <1>1 DEF Within, OnwardFrom
  <2>3. OnwardFrom(Bare(m)) = OnwardFrom(m)
    <3>1. Bare(Bare(m)) = Bare(m)
      BY DEF Bare
    <3> QED
      BY <3>1, Zenon DEF OnwardFrom
  <2> QED
    BY <2>1, <2>2, <2>3
<1>6. Bares(expanded) = RootReached
  BY <1>3, <1>4, <1>5, ReachedIs DEF Known
<1>7. \A l, k : Uses(Bare(l), k) = Uses(l, k)
  BY DEF Uses, SchemaOf, Below, Bare
<1>8. \A l : SchemaOf(Bare(l)) = SchemaOf(l) /\ Below(Bare(l), "properties") = Below(l, "properties")
  BY DEF SchemaOf, Below, Bare
<1>9. PropertyNames(Bares(expanded)) = PropertyNames(expanded)
  BY <1>8 DEF PropertyNames, Bares
<1>10. InferKind(Bares(expanded)) = InferKind(expanded)
  <2>1. Using(Bares(expanded), "type") = Bares(Using(expanded, "type"))
    BY <1>7 DEF Using, Bares
  <2>2. ASSUME NEW l PROVE DeclaredKinds(Bare(l)) = DeclaredKinds(l)
    <3>1. SchemaOf(Bare(l)) = SchemaOf(l)
      BY <1>8
    <3> QED
      BY <3>1, Zenon DEF DeclaredKinds
  <2>3. Left(Bares(expanded)) = Left(expanded)
    BY <2>1, <2>2 DEF Left, Bares
  <2>4. (Using(Bares(expanded), "type") = {}) <=> (Using(expanded, "type") = {})
    BY <2>1 DEF Bares
  <2> QED
    BY <2>3, <2>4 DEF InferKind, Left
<1>11. Roots = IF InferKind(RootReached) = "object"
               THEN {[binding |-> <<>>, schemas |-> RootReached]} ELSE {}
  BY Zenon DEF Roots, RootReached
<1>12. CASE InferKind(expanded) = "object"
  <2> DEFINE o == [binding |-> <<>>, schemas |-> RootReached]
  <2>1. Roots = {o}
    BY <1>6, <1>10, <1>11, <1>12
  <2>2. o.binding = <<>> /\ PropertyNames(o.schemas) = PropertyNames(expanded)
    BY <1>6, <1>9
  <2> HIDE DEF o
  <2>3. AskedByRoot = {AskedOf(o.binding, o.schemas)}
    BY <2>1 DEF AskedByRoot
  <2>4. AskedOf(o.binding, o.schemas) = AskedOf(<<>>, expanded)
    BY <2>2 DEF AskedOf
  <2> QED
    BY <1>6, <1>12, <2>3, <2>4
<1>13. CASE InferKind(expanded) # "object"
  BY <1>6, <1>10, <1>11, <1>13 DEF AskedByRoot
<1> QED
  BY <1>6, <1>12, <1>13
-----------------------------------------------------------------------------
LEMMA AskedIs ==
  /\ \A S, T : AskedBy(S \cup T) = AskedBy(S) \cup AskedBy(T)
  /\ AskedBy({}) = {}
  /\ \A n : n.what # "object" => AskedBy({n}) = {}
  /\ \A n : n.what = "object" => AskedBy({n}) = {AskedOf(n.binding, n.schemas)}
BY DEF AskedBy

(* What is placed when nodes are.                                          *)
LEMMA AskedAfter ==
  ASSUME UNCHANGED resourceVars, NEW nodes, projected' = projected \cup nodes
  PROVE  Asked' = Asked \cup AskedBy(nodes)
BY FrozenAsked, AskedIs DEF Asked

LEMMA NodesAreKinds ==
  \A binding, schemas, kind, choices, seed, findings :
    /\ Unsupported(binding, schemas, findings).what = "unsupported"
    /\ Unsupported(binding, schemas, findings).binding = binding
    /\ Control(binding, schemas, kind, choices, seed).what = "control"
    /\ Control(binding, schemas, kind, choices, seed).binding = binding
    /\ Structure(binding, schemas, kind).what = kind
    /\ Structure(binding, schemas, kind).binding = binding
    /\ Structure(binding, schemas, kind).schemas = schemas
BY DEF Unsupported, Control, Structure, ProjectedNode

LEMMA PlacementStopped ==
  ASSUME PlacementInv, projected' = projected,
         stage' \in {"limit", "panicked", "unsupported-reference"}
  PROVE  PlacementInv'
BY DEF PlacementInv

LEMMA PlacementFrozen ==
  ASSUME PlacementInv, UNCHANGED resourceVars, UNCHANGED <<agenda, projected, subject, stage>>
  PROVE  PlacementInv'
<1>1. Asked' = Asked
  BY FrozenAsked DEF Asked
<1> QED
  BY <1>1 DEF PlacementInv

LEMMA IncludePlaces ==
  ASSUME PlacementInv, IncludeValidationResources PROVE PlacementInv'
<1>1. /\ stage = "waiting" /\ UNCHANGED <<agenda, projected>>
      /\ \/ stage' \in {"limit", "unsupported-reference"}
         \/ /\ stage' = "expanding"
            /\ ExpandNext(<<Located(Root(documents, 1), <<>>)>>, "root", <<>>, {})
  BY Zenon DEF IncludeValidationResources
<1>2. CASE stage' \in {"limit", "unsupported-reference"}
  BY <1>1, <1>2, PlacementStopped
<1>3. CASE /\ stage' = "expanding"
           /\ ExpandNext(<<Located(Root(documents, 1), <<>>)>>, "root", <<>>, {})
  <2>1. subject' = [of |-> "root", binding |-> <<>>, list |-> {}]
    BY <1>3, Zenon DEF ExpandNext
  <2>2. agenda' = <<>> /\ projected' = {}
    BY <1>1 DEF PlacementInv
  <2>3. subject'.of = "root"
    BY <2>1
  <2> QED
    BY <1>3, <2>2, <2>3 DEF PlacementInv
<1> QED
  BY <1>1, <1>2, <1>3

LEMMA ExpandPlaces ==
  ASSUME PlacementInv, Expand, UNCHANGED resourceVars PROVE PlacementInv'
<1>1. /\ UNCHANGED <<agenda, projected>>
      /\ stage' = "limit" \/ UNCHANGED <<subject, stage>>
  BY Zenon DEF Expand
<1> QED
  BY <1>1, PlacementStopped, PlacementFrozen

LEMMA StartPropertyPlaces ==
  ASSUME PlacementInv, ProjectionInv, Prepared, StartProperty, UNCHANGED resourceVars
  PROVE  PlacementInv'
<1> DEFINE frame == Head(agenda)
           starts(name) == { Located(Property(l, name), l.memberships) :
                               l \in Declaring(frame.schemas, name) }
<1>1. /\ stage = "choosing" /\ agenda # <<>> /\ UNCHANGED projected
      /\ \E name \in frame.left :
           \/ stage' = "limit"
           \/ /\ agenda' = [agenda EXCEPT ![1].left = @ \ {name}]
              /\ ExpandNext(SetToSeq(starts(name)), "property", Append(frame.binding, name), {})
              /\ stage' = "expanding"
  BY Zenon DEF StartProperty
<1>2. PICK name \in frame.left :
           \/ stage' = "limit"
           \/ /\ agenda' = [agenda EXCEPT ![1].left = @ \ {name}]
              /\ ExpandNext(SetToSeq(starts(name)), "property", Append(frame.binding, name), {})
              /\ stage' = "expanding"
  BY <1>1
<1>3. CASE stage' = "limit"
  BY <1>1, <1>3, PlacementStopped
<1>4. CASE /\ agenda' = [agenda EXCEPT ![1].left = @ \ {name}]
           /\ ExpandNext(SetToSeq(starts(name)), "property", Append(frame.binding, name), {})
           /\ stage' = "expanding"
  <2> DEFINE rest == [frame EXCEPT !.left = @ \ {name}]
             binding == Append(frame.binding, name)
  <2>1. AgendaInv(agenda) /\ Placement(projected, agenda, Asked, {})
    BY <1>1 DEF ProjectionInv, PlacementInv
  <2>2. frame = agenda[1] /\ 1 \in DOMAIN agenda /\ FrameInv(frame)
    BY <1>1, <2>1, FirstFrame
  <2>3. agenda' = [agenda EXCEPT ![1] = rest]
    BY <1>4, <2>2
  <2>4. /\ rest.binding = frame.binding /\ rest.left = frame.left \ {name}
        /\ rest.template = frame.template /\ rest.list = frame.list
    BY <2>2 DEF FrameInv
  <2>5. agenda' \in Seq(Range(agenda'))
    BY StartPropertyKeeps DEF ProjectionInv, AgendaInv
  <2>6. /\ DOMAIN agenda' = DOMAIN agenda /\ agenda'[1] = rest
        /\ \A i \in DOMAIN agenda : i = 1 \/ agenda'[i] = agenda[i]
    BY <2>2, <2>3
  <2>7. subject' = [of |-> "property", binding |-> binding, list |-> {}]
    BY <1>4, Zenon DEF ExpandNext
  <2>8. subject'.of = "property" /\ subject'.binding = binding
    BY <2>7
  <2>9. Asked' = Asked
    BY <1>1, FrozenAsked DEF Asked
  <2> HIDE DEF rest, starts
  <2>10. /\ agenda'[1].binding = agenda[1].binding /\ agenda'[1].left = agenda[1].left \ {name}
         /\ agenda'[1].template = agenda[1].template /\ agenda'[1].list = agenda[1].list
         /\ name \in agenda[1].left /\ binding = Append(agenda[1].binding, name)
    BY <2>2, <2>4, <2>6
  <2> HIDE DEF frame, binding
  <2>11. Placement(projected, agenda', Asked, {binding})
    BY <2>1, <2>2, <2>5, <2>6, <2>10, TakeName
  <2> QED
    BY <1>1, <1>4, <2>8, <2>9, <2>11 DEF PlacementInv
<1> QED
  BY <1>2, <1>3, <1>4

LEMMA FinishObjectPlaces ==
  ASSUME PlacementInv, ProjectionInv, Prepared, FinishObject, UNCHANGED resourceVars
  PROVE  PlacementInv'
<1> DEFINE frame == Head(agenda)
           list == Front(frame.binding)
           within == { node \in projected : IsPrefix(frame.binding, node.binding) }
           failed == { node \in within : node.what = "unsupported" }
           refused == Unsupported(list, frame.list, UNION { node.findings : node \in failed })
           whole == Structure(list, frame.list, "array")
<1>1. /\ stage = "choosing" /\ agenda # <<>> /\ frame.left = {}
      /\ agenda' = Tail(agenda) /\ stage' = IF agenda' = <<>> THEN "projected" ELSE "choosing"
      /\ \/ frame.list = {} /\ projected' = projected
         \/ /\ frame.list # {} /\ failed # {}
            /\ projected' = (projected \ within) \cup {refused}
         \/ /\ frame.list # {} /\ failed = {}
            /\ projected' = projected \cup {whole}
  BY Zenon DEF FinishObject
<1>2. /\ AgendaInv(agenda) /\ Placement(projected, agenda, Asked, {})
      /\ \A n \in projected : n.what \in {"unsupported", "control", "object", "array"}
  BY <1>1 DEF ProjectionInv, PlacementInv
<1>3. frame = agenda[1] /\ 1 \in DOMAIN agenda
  BY <1>1, <1>2, FirstFrame
<1>4. /\ whole.what = "array" /\ whole.binding = list
      /\ refused.what = "unsupported" /\ refused.binding = list
  BY NodesAreKinds
<1>5. ASSUME Placement(projected', agenda', Asked', {}),
             \A n \in projected' : n.what \in {"unsupported", "control", "object", "array"}
      PROVE  PlacementInv'
  BY <1>1, <1>5 DEF PlacementInv
<1> HIDE DEF list, refused, whole
<1>6. CASE frame.list = {} /\ projected' = projected
  <2>1. Asked' = Asked
    BY <1>6, FrozenAsked DEF Asked
  <2>2. Placement(projected, Tail(agenda), Asked, {})
    BY <1>1, <1>2, <1>3, <1>6, FinishPlain
  <2> QED
    BY <1>1, <1>2, <1>5, <1>6, <2>1, <2>2
<1>7. CASE /\ frame.list # {} /\ failed = {}
           /\ projected' = projected \cup {whole}
  <2>1. Asked' = Asked
    BY <1>4, <1>7, AskedAfter, AskedIs
  <2>2. \A n \in projected : IsPrefix(agenda[1].binding, n.binding) => n.what # "unsupported"
    BY <1>3, <1>7
  <2>3. Placement(projected \cup {whole}, Tail(agenda), Asked, {})
    <3>1. whole.binding = Front(agenda[1].binding)
      BY <1>3, <1>4 DEF list
    <3>2. agenda[1].left = {} /\ agenda[1].list # {}
      BY <1>1, <1>3, <1>7
    <3> QED
      BY <1>2, <1>3, <1>4, <2>2, <3>1, <3>2, FinishList
  <2>4. \A n \in projected' : n.what \in {"unsupported", "control", "object", "array"}
    BY <1>2, <1>4, <1>7
  <2> QED
    BY <1>1, <1>5, <1>7, <2>1, <2>3, <2>4
<1>8. CASE /\ frame.list # {} /\ failed # {}
           /\ projected' = (projected \ within) \cup {refused}
  <2> DEFINE b == agenda[1].binding
             kept == { m \in projected : ~IsPrefix(b, m.binding) }
  <2>1. agenda[1].left = {} /\ agenda[1].list # {} /\ refused.binding = Front(b)
    BY <1>1, <1>3, <1>4, <1>8 DEF list
  <2>2. projected \ within = kept
    BY <1>3
  <2>3. Asked' = AskedBy(kept) \cup AskedByRoot
    <3> HIDE DEF within, kept
    <3>1. projected' = kept \cup {refused}
      BY <1>8, <2>2
    <3>2. AskedBy({refused}) = {}
      BY <1>4, AskedIs
    <3>3. AskedBy(kept \cup {refused}) = AskedBy(kept) \cup AskedBy({refused})
      BY AskedIs
    <3>4. AskedBy(projected') = AskedBy(kept)
      BY <3>1, <3>2, <3>3
    <3> QED
      BY <3>4, FrozenAsked
  <2>4. IsBinding(b) /\ b # <<>>
    <3>1. /\ IsBinding(b) /\ IsBinding(Front(b)) /\ b = Append(Front(b), Item)
      BY <1>2, <1>3, <2>1 DEF Placement, Stacked, Open, Repeating
    <3> QED
      BY <3>1, AppendIs
  <2>5. \A o \in AskedByRoot : o.binding = <<>>
    <3> SUFFICES ASSUME NEW r \in Roots PROVE AskedOf(r.binding, r.schemas).binding = <<>>
      BY DEF AskedByRoot
    <3>1. r.binding = <<>>
      BY DEF Roots
    <3> QED
      BY <3>1 DEF AskedOf
  <2>6. ~IsPrefix(b, <<>>)
    BY <2>4, PrefixOfNothing
  <2>7. ASSUME NEW o
        PROVE  o \in Asked' <=> o \in Asked /\ ~IsPrefix(b, o.binding)
    <3>1. o \in AskedByRoot => ~IsPrefix(b, o.binding)
      BY <2>5, <2>6
    <3>2. o \in AskedBy(kept) <=> o \in AskedBy(projected) /\ ~IsPrefix(b, o.binding)
      <4>1. \A n : AskedOf(n.binding, n.schemas).binding = n.binding
        BY DEF AskedOf
      <4> QED
        BY <4>1 DEF AskedBy
    <3> QED
      BY <2>3, <3>1, <3>2 DEF Asked
  <2>8. Placement(kept \cup {refused}, Tail(agenda), Asked', {})
    <3> HIDE DEF b
    <3>1. \A o : o \in Asked' <=> o \in Asked /\ ~IsPrefix(agenda[1].binding, o.binding)
      BY <2>7 DEF b
    <3> QED
      BY <1>2, <1>3, <1>4, <2>1, <3>1, GiveUpList DEF b
  <2>9. projected' = kept \cup {refused}
    <3> HIDE DEF within, kept
    <3> QED
      BY <1>8, <2>2
  <2>10. \A n \in projected' : n.what \in {"unsupported", "control", "object", "array"}
    BY <1>2, <1>4, <2>9
  <2> HIDE DEF kept
  <2> QED
    BY <1>1, <1>5, <2>8, <2>9, <2>10
<1> QED
  BY <1>1, <1>6, <1>7, <1>8
-----------------------------------------------------------------------------
LEMMA NamesOfKnown ==
  ASSUME Prepared, NEW S, Known(S) PROVE \A name \in PropertyNames(S) : name # Item
<1> SUFFICES ASSUME NEW name \in PropertyNames(S) PROVE name # Item
  OBVIOUS
<1>1. PICK l \in S : name \in PropertyNames({l})
  BY DEF PropertyNames
<1>2. Bare(l) \in Validating
  BY DEF Known, Bares
<1> QED
  BY <1>1, <1>2, PropertyIs

LEMMA ShapeKind ==
  \A S : Shape(S).kind = InferKind(S)
BY DEF Shape, ShapeWith

LEMMA PlaceRootPlaces ==
  ASSUME ProjectionInv, ExpandingInv, PlacementInv, RootInv, Prepared,
         stage = "expanding", pending = <<>>, subject.of = "root",
         PlaceRoot(Shape(expanded)), UNCHANGED resourceVars
  PROVE  PlacementInv'
<1> DEFINE shape == Shape(expanded)
           frame == Frame(<<>>, expanded, FALSE, {})
           asked == AskedOf(<<>>, expanded)
<1>1. \/ stage' = "panicked" /\ projected' = projected
      \/ /\ projected' = {} \/ \E findings : projected' = {Unsupported(<<>>, expanded, findings)}
         /\ \/ /\ shape.kind = "object" /\ agenda' = <<frame>> /\ stage' = "choosing"
            \/ /\ shape.kind = "object" /\ Using(expanded, "properties") = {}
               /\ stage' \in {"missing-properties", "projected"}
            \/ shape.kind # "object" /\ stage' = "projected"
  BY Zenon DEF PlaceRoot, Panic
<1>2. CASE stage' = "panicked" /\ projected' = projected
  BY <1>2, PlacementStopped
<1>3. shape.kind = InferKind(expanded)
  BY ShapeKind
<1>4. AskedByRoot = IF InferKind(expanded) = "object" THEN {asked} ELSE {}
  BY RootIsFound
<1>5. Known(expanded)
  BY FoundIs
<1>6. \A name \in PropertyNames(expanded) : name # Item
  BY <1>5, NamesOfKnown
<1>7. /\ frame.binding = <<>> /\ frame.list = {} /\ frame.left = PropertyNames(expanded)
      /\ asked.binding = <<>> /\ asked.names = PropertyNames(expanded)
  BY DEF Frame, AskedOf
<1> HIDE DEF shape, frame, asked
<1>8. ASSUME projected' = {} \/ \E findings : projected' = {Unsupported(<<>>, expanded, findings)}
      PROVE  /\ \A n \in projected' : n.binding = <<>> /\ n.what = "unsupported"
             /\ Asked' = AskedByRoot
  <2>1. \A n \in projected' : n.binding = <<>> /\ n.what = "unsupported"
    BY <1>8, NodesAreKinds
  <2>2. AskedBy(projected') = {}
    BY <2>1 DEF AskedBy
  <2> QED
    BY <2>1, <2>2, FrozenAsked
<1>9. CASE /\ projected' = {} \/ \E findings : projected' = {Unsupported(<<>>, expanded, findings)}
           /\ shape.kind = "object" /\ agenda' = <<frame>> /\ stage' = "choosing"
  <2>1. Asked' = {asked} /\ \A n \in projected' : n.binding = <<>> /\ n.what = "unsupported"
    BY <1>3, <1>4, <1>8, <1>9
  <2>2. Placement(projected', <<frame>>, {asked}, {})
    BY <1>6, <1>7, <2>1, RootOpened
  <2>3. <<frame>> # <<>>
    OBVIOUS
  <2>4. agenda' # <<>> /\ Placement(projected', agenda', Asked', {})
    BY <1>9, <2>1, <2>2, <2>3
  <2> QED
    BY <1>9, <2>1, <2>4 DEF PlacementInv
<1>10. CASE /\ projected' = {} \/ \E findings : projected' = {Unsupported(<<>>, expanded, findings)}
            /\ stage' \in {"missing-properties", "projected"}
            /\ shape.kind # "object" \/ Using(expanded, "properties") = {}
  <2>1. Asked' = AskedByRoot /\ \A n \in projected' : n.binding = <<>> /\ n.what = "unsupported"
    BY <1>8, <1>10
  <2>2. Using(expanded, "properties") = {} => PropertyNames(expanded) = {}
    BY DEF Using, Uses, PropertyNames
  <2>3. \A o \in Asked' : o.binding = <<>> /\ o.names = {}
    BY <1>3, <1>4, <1>7, <1>10, <2>1, <2>2
  <2>4. Placement(projected', <<>>, Asked', {})
    BY <2>1, <2>3, RootAlone
  <2> QED
    BY <1>10, <2>1, <2>4 DEF PlacementInv
<1> QED
  BY <1>1, <1>2, <1>9, <1>10

(* Another node, and the next property.                                    *)
LEMMA PlainPlaces ==
  ASSUME PlacementInv, stage = "expanding", subject.of # "root", UNCHANGED resourceVars,
         NEW n, n.binding = subject.binding, n.what \in {"unsupported", "control"},
         Put({n}), agenda' = agenda
  PROVE  PlacementInv'
<1>1. /\ Placement(projected, agenda, Asked, {subject.binding})
      /\ \A m \in projected : m.what \in {"unsupported", "control", "object", "array"}
  BY DEF PlacementInv
<1>2. projected' = projected \cup {n} /\ stage' = "choosing"
  BY DEF Put
<1>3. Asked' = Asked
  BY <1>2, AskedAfter, AskedIs
<1>4. Placement(projected \cup {n}, agenda, Asked, {})
  BY <1>1, PutPlain
<1>5. agenda # <<>>
  BY <1>1, HoleIsApart, FramesAre DEF Placement
<1> QED
  BY <1>1, <1>2, <1>3, <1>4, <1>5 DEF PlacementInv

LEMMA ObjectPlaces ==
  ASSUME PlacementInv, ProjectionInv, Prepared, stage = "expanding", pending = <<>>,
         subject.of # "root", UNCHANGED resourceVars,
         NEW binding, NEW list, NEW template,
         \/ binding = subject.binding /\ list = {} /\ template = agenda[1].template
         \/ /\ binding = Append(subject.binding, Item) /\ list # {} /\ template
            /\ ~agenda[1].template,
         Put({Structure(binding, expanded, "object")}),
         agenda' = <<Frame(binding, expanded, template, list)>> \o agenda
  PROVE  PlacementInv'
<1> DEFINE n == Structure(binding, expanded, "object")
           f == Frame(binding, expanded, template, list)
           o == AskedOf(binding, expanded)
<1>1. /\ Placement(projected, agenda, Asked, {subject.binding})
      /\ \A m \in projected : m.what \in {"unsupported", "control", "object", "array"}
  BY DEF PlacementInv
<1>2. projected' = projected \cup {n} /\ stage' = "choosing"
  BY DEF Put
<1>3. n.what = "object" /\ n.binding = binding /\ n.schemas = expanded
  BY NodesAreKinds
<1>4. /\ f.binding = binding /\ f.list = list /\ f.left = PropertyNames(expanded)
      /\ f.template = template /\ o.binding = binding /\ o.names = PropertyNames(expanded)
  BY DEF Frame, AskedOf
<1>5. \A name \in PropertyNames(expanded) : name # Item
  BY FoundIs, NamesOfKnown
<1>6. agenda' = <<f>> \o agenda
  OBVIOUS
<1> HIDE DEF n, f
<1>7. Asked' = Asked \cup {o}
  <2>1. AskedBy({n}) = {AskedOf(n.binding, n.schemas)}
    BY <1>3, AskedIs
  <2> QED
    BY <1>2, <1>3, <2>1, AskedAfter
<1> HIDE DEF o
<1>8. Placement(projected \cup {n}, <<f>> \o agenda, Asked \cup {o}, {})
  BY <1>1, <1>3, <1>4, <1>5, PutObject
<1>9. agenda' # <<>>
  <2>1. AgendaInv(agenda) /\ agenda \in Seq(Range(agenda))
    BY DEF ProjectionInv, AgendaInv
  <2>2. (<<f>> \o agenda)[1] = f /\ DOMAIN (<<f>> \o agenda) = 1..Len(agenda) + 1
        /\ Len(agenda) \in Nat
    BY <2>1, Pushed
  <2>3. DOMAIN <<>> = {} /\ 1 \in DOMAIN (<<f>> \o agenda)
    BY <2>2
  <2> QED
    BY <1>6, <2>3
<1>10. \A m \in projected' : m.what \in {"unsupported", "control", "object", "array"}
  BY <1>1, <1>2, <1>3
<1> QED
  BY <1>2, <1>6, <1>7, <1>8, <1>9, <1>10 DEF PlacementInv

LEMMA ProjectListPlaces ==
  ASSUME PlacementInv, ProjectionInv, stage = "expanding", pending = <<>>,
         subject.of = "property", UNCHANGED resourceVars, ProjectList, UNCHANGED agenda
  PROVE  PlacementInv'
<1> DEFINE S == { m \in expanded : Below(m, "items") # {} }
           items == { Located(Sub(l, Append(l.at, <<"items">>)), l.memberships) : l \in S }
<1>1. \/ \E findings : Put({Unsupported(subject.binding, expanded, findings)})
      \/ /\ ~Head(agenda).template /\ items # {}
         /\ ExpandNext(SetToSeq(items), "item", subject.binding, expanded)
         /\ UNCHANGED <<projected, stage>>
  BY Zenon DEF ProjectList
<1>2. CASE \E findings : Put({Unsupported(subject.binding, expanded, findings)})
  <2>1. PICK findings : Put({Unsupported(subject.binding, expanded, findings)})
    BY <1>2
  <2> DEFINE n == Unsupported(subject.binding, expanded, findings)
  <2>2. n.binding = subject.binding /\ n.what = "unsupported"
    BY NodesAreKinds
  <2> HIDE DEF n
  <2>3. Put({n})
    BY <2>1 DEF n
  <2> QED
    BY <2>2, <2>3, PlainPlaces
<1>3. CASE /\ ~Head(agenda).template /\ items # {}
           /\ ExpandNext(SetToSeq(items), "item", subject.binding, expanded)
           /\ UNCHANGED <<projected, stage>>
  <2>1. subject' = [of |-> "item", binding |-> subject.binding, list |-> expanded]
    BY <1>3, Zenon DEF ExpandNext
  <2>2. subject'.of = "item" /\ subject'.binding = subject.binding /\ subject'.list = expanded
    BY <2>1
  <2>3. expanded # {}
    BY <1>3
  <2>4. Placement(projected, agenda, Asked, {subject.binding})
    BY DEF PlacementInv
  <2>5. agenda # <<>> /\ AgendaInv(agenda)
    BY <2>4, HoleIsApart, FramesAre DEF Placement, ProjectionInv
  <2>6. Head(agenda) = agenda[1]
    BY <2>5, FirstFrame
  <2>7. Asked' = Asked
    BY <1>3, FrozenAsked DEF Asked
  <2> QED
    BY <1>3, <2>2, <2>3, <2>4, <2>6, <2>7 DEF PlacementInv
<1> QED
  BY <1>1, <1>2, <1>3
-----------------------------------------------------------------------------
LEMMA PlacePropertyPlaces ==
  ASSUME PlacementInv, ProjectionInv, Prepared, stage = "expanding", pending = <<>>,
         subject.of = "property", UNCHANGED resourceVars, PlaceProperty(Shape(expanded))
  PROVE  PlacementInv'
<1> DEFINE shape == Shape(expanded)
           binding == subject.binding
           choices == shape.choices
           control == Control(binding, expanded, shape.kind, choices,
                              ScalarSeed(expanded, ControlKind(shape.kind, choices),
                                         choices.values))
           object == Structure(binding, expanded, "object")
           frame == Frame(binding, expanded, Head(agenda).template, {})
<1>1. \/ stage' = "panicked" /\ projected' = projected
      \/ (\E told : Put({Unsupported(binding, expanded, told)})) /\ UNCHANGED agenda
      \/ Put({control}) /\ UNCHANGED agenda
      \/ Put({object}) /\ agenda' = <<frame>> \o agenda
      \/ ProjectList /\ UNCHANGED agenda
  BY Zenon DEF PlaceProperty, Panic
<1>2. CASE stage' = "panicked" /\ projected' = projected
  BY <1>2, PlacementStopped
<1>3. CASE (\E told : Put({Unsupported(binding, expanded, told)})) /\ UNCHANGED agenda
  <2>1. PICK told : Put({Unsupported(binding, expanded, told)})
    BY <1>3
  <2> DEFINE n == Unsupported(binding, expanded, told)
  <2>2. n.binding = subject.binding /\ n.what = "unsupported"
    BY NodesAreKinds
  <2> HIDE DEF n
  <2>3. Put({n})
    BY <2>1 DEF n
  <2> QED
    BY <1>3, <2>2, <2>3, PlainPlaces
<1>4. CASE Put({control}) /\ UNCHANGED agenda
  <2>1. control.binding = subject.binding /\ control.what = "control"
    BY NodesAreKinds
  <2> HIDE DEF control
  <2> QED
    BY <1>4, <2>1, PlainPlaces
<1>5. CASE Put({object}) /\ agenda' = <<frame>> \o agenda
  <2>1. Placement(projected, agenda, Asked, {subject.binding})
    BY DEF PlacementInv
  <2>2. agenda # <<>> /\ AgendaInv(agenda)
    BY <2>1, HoleIsApart, FramesAre DEF Placement, ProjectionInv
  <2>3. Head(agenda) = agenda[1]
    BY <2>2, FirstFrame
  <2> QED
    BY <1>5, <2>3, ObjectPlaces
<1>6. CASE ProjectList /\ UNCHANGED agenda
  BY <1>6, ProjectListPlaces
<1> HIDE DEF control, object, frame, choices, shape
<1> QED
  BY <1>1, <1>2, <1>3, <1>4, <1>5, <1>6

LEMMA PlaceItemPlaces ==
  ASSUME PlacementInv, ProjectionInv, Prepared, stage = "expanding", pending = <<>>,
         subject.of = "item", UNCHANGED resourceVars, PlaceItem(Shape(expanded))
  PROVE  PlacementInv'
<1> DEFINE shape == Shape(expanded)
           list == subject.binding
           binding == Append(list, Item)
           item == Control(binding, expanded, shape.kind, shape.choices, NoSeed)
           seeded == Seeded(item, expanded, shape)
           whole == Structure(list, subject.list, "array")
           object == Structure(binding, expanded, "object")
           frame == Frame(binding, expanded, TRUE, subject.list)
<1>1. \/ stage' = "panicked" /\ projected' = projected
      \/ (\E told : Put({Unsupported(list, subject.list, told)})) /\ UNCHANGED agenda
      \/ Put({object}) /\ agenda' = <<frame>> \o agenda
      \/ Put({seeded, whole}) /\ UNCHANGED agenda
  BY Zenon DEF PlaceItem, Panic, Seeded
<1>2. /\ Placement(projected, agenda, Asked, {subject.binding})
      /\ ~agenda[1].template /\ subject.list # {}
      /\ \A m \in projected : m.what \in {"unsupported", "control", "object", "array"}
  BY DEF PlacementInv
<1>3. CASE stage' = "panicked" /\ projected' = projected
  BY <1>3, PlacementStopped
<1>4. CASE (\E told : Put({Unsupported(list, subject.list, told)})) /\ UNCHANGED agenda
  <2>1. PICK told : Put({Unsupported(list, subject.list, told)})
    BY <1>4
  <2> DEFINE n == Unsupported(list, subject.list, told)
  <2>2. n.binding = subject.binding /\ n.what = "unsupported"
    BY NodesAreKinds
  <2> HIDE DEF n
  <2>3. Put({n})
    BY <2>1 DEF n
  <2> QED
    BY <1>4, <2>2, <2>3, PlainPlaces
<1>5. CASE Put({object}) /\ agenda' = <<frame>> \o agenda
  BY <1>2, <1>5, ObjectPlaces
<1>6. CASE Put({seeded, whole}) /\ UNCHANGED agenda
  <2>1. item.what = "control" /\ item.binding = binding
    <3> HIDE DEF shape, binding
    <3> QED
      BY NodesAreKinds
  <2>2. seeded.what = "control" /\ seeded.binding = binding
    <3> HIDE DEF item
    <3> QED
      BY <2>1 DEF Seeded
  <2>3. whole.what = "array" /\ whole.binding = list
    BY NodesAreKinds
  <2> DEFINE new == {seeded, whole}
  <2> HIDE DEF seeded, whole
  <2>4. projected' = projected \cup new /\ stage' = "choosing" /\ agenda' = agenda
    BY <1>6 DEF Put
  <2>5. Asked' = Asked
    <3>1. AskedBy(new) = {}
      BY <2>2, <2>3 DEF AskedBy
    <3> HIDE DEF new
    <3>2. Asked' = Asked \cup AskedBy(new)
      BY <2>4, AskedAfter
    <3> QED
      BY <3>1, <3>2
  <2>6. Placement(projected \cup new, agenda, Asked, {})
    BY <1>2, <2>2, <2>3, PutList
  <2>7. agenda # <<>>
    BY <1>2, HoleIsApart, FramesAre DEF Placement
  <2>8. \A m \in projected' : m.what \in {"unsupported", "control", "object", "array"}
    BY <1>2, <2>2, <2>3, <2>4
  <2> HIDE DEF new
  <2> QED
    BY <2>4, <2>5, <2>6, <2>7, <2>8 DEF PlacementInv
<1> HIDE DEF seeded, whole, object, frame, shape, list
<1> QED
  BY <1>1, <1>3, <1>4, <1>5, <1>6

LEMMA ProjectSubjectPlaces ==
  ASSUME PlacementInv, RootInv, ProjectionInv, ExpandingInv, Prepared, ProjectSubject,
         UNCHANGED resourceVars
  PROVE  PlacementInv'
<1>1. /\ stage = "expanding" /\ pending = <<>>
      /\ \/ subject.of = "root" /\ PlaceRoot(Shape(expanded))
         \/ subject.of = "property" /\ PlaceProperty(Shape(expanded))
         \/ subject.of = "item" /\ PlaceItem(Shape(expanded))
  BY Zenon DEF ProjectSubject, PlaceSubject
<1> QED
  BY <1>1, PlaceRootPlaces, PlacePropertyPlaces, PlaceItemPlaces
-----------------------------------------------------------------------------
(* Only the first expansion is for the root.                               *)
LEMMA RootOnlyOnce ==
  ASSUME StartProperty \/ ProjectSubject \/ FinishObject PROVE RootInv'
<1>1. CASE StartProperty
  <2>1. \/ stage' = "limit"
        \/ \E S, b : ExpandNext(S, "property", b, {})
    BY <1>1, Zenon DEF StartProperty
  <2> QED
    BY <2>1 DEF ExpandNext, RootInv
<1>2. CASE ProjectSubject
  <2>1. \/ stage' \in {"panicked", "choosing", "missing-properties", "projected"}
        \/ \E S, b, l : ExpandNext(S, "item", b, l)
    BY <1>2, Zenon DEF ProjectSubject, PlaceSubject, PlaceRoot, PlaceProperty, PlaceItem,
                       ProjectList, Put, Panic
  <2> QED
    BY <2>1 DEF ExpandNext, RootInv
<1>3. CASE FinishObject
  <2>1. stage' \in {"projected", "choosing"}
    BY <1>3, Zenon DEF FinishObject
  <2> QED
    BY <2>1 DEF RootInv
<1> QED
  BY <1>1, <1>2, <1>3

LEMMA NothingPlaced ==
  ASSUME PlacementInv, RootInv, UNCHANGED <<resourceVars, projectionVars>>
  PROVE  PlacementInv' /\ RootInv'
<1>1. UNCHANGED <<pending, expanded, agenda, subject, projected, stage>>
  BY DEF projectionVars, expansionVars
<1>2. PlacementInv'
  BY <1>1, PlacementFrozen
<1>3. RootReached' = RootReached /\ Root(documents, 1)' = Root(documents, 1)
  BY Frozen, FrozenAsked DEF RootReached
<1>4. RootInv'
  BY <1>1, <1>3 DEF RootInv, RootReached
<1> QED
  BY <1>2, <1>4

LEMMA PlacementStep ==
  /\ PlacementInv /\ RootInv /\ ProjectionInv /\ ExpandingInv /\ ResourcesInv /\ CoverageInv
  /\ [PreparingNext \/ ProjectingNext]_<<resourceVars, projectionVars>>
  => PlacementInv' /\ RootInv'
<1> SUFFICES ASSUME PlacementInv, RootInv, ProjectionInv, ExpandingInv, ResourcesInv,
                    CoverageInv,
                    [PreparingNext \/ ProjectingNext]_<<resourceVars, projectionVars>>
             PROVE  PlacementInv' /\ RootInv'
  OBVIOUS
<1>1. CASE PreparingNext
  <2>1. outcome \in {"admitting", "indexing", "following"} /\ UNCHANGED projectionVars
    BY <1>1, Zenon DEF PreparingNext, ResourcesNext, Admit, IndexDocument, StartFollowing,
               FollowDocument, FollowReference, FollowChild, Leave, Prepare
  <2>2. stage = "waiting" /\ UNCHANGED <<agenda, projected, stage>>
    BY <2>1 DEF ProjectionInv, projectionVars
  <2> QED
    BY <2>2 DEF PlacementInv, RootInv
<1>2. CASE ProjectingNext
  <2>1. UNCHANGED resourceVars
    BY <1>2 DEF ProjectingNext
  <2>2. ASSUME stage \in {"expanding", "choosing"} PROVE Prepared
    BY <2>2 DEF ProjectionInv, Prepared
  <2>3. CASE IncludeValidationResources
    BY <2>1, <2>3, IncludePlaces, IncludeReaches
  <2>4. CASE Expand
    <3>1. stage = "expanding"
      BY <2>4 DEF Expand
    <3> QED
      BY <2>1, <2>2, <2>4, <3>1, ExpandPlaces, ExpandReaches
  <2>5. CASE ProjectSubject
    <3>1. stage = "expanding"
      BY <2>5 DEF ProjectSubject
    <3> QED
      BY <2>1, <2>2, <2>5, <3>1, ProjectSubjectPlaces, RootOnlyOnce
  <2>6. CASE StartProperty
    <3>1. stage = "choosing"
      BY <2>6 DEF StartProperty
    <3> QED
      BY <2>1, <2>2, <2>6, <3>1, StartPropertyPlaces, RootOnlyOnce
  <2>7. CASE FinishObject
    <3>1. stage = "choosing"
      BY <2>7 DEF FinishObject
    <3> QED
      BY <2>1, <2>2, <2>7, <3>1, FinishObjectPlaces, RootOnlyOnce
  <2> QED
    BY <1>2, <2>3, <2>4, <2>5, <2>6, <2>7 DEF ProjectingNext, ProjectionNext
<1> QED
  BY <1>1, <1>2, NothingPlaced

(* Whatever the documents say, every property of an object that is edited  *)
(* is placed once, nothing is placed below what is not edited, and a list  *)
(* that is edited has a template without gaps; what was placed in a        *)
(* template that is given up is gone (compile_properties,                  *)
(* compile_homogeneous_array).                                             *)
THEOREM EverythingPlaced == ProjectionSpec => []EveryPropertyIsPlaced
<1>1. ProjectionInit => PlacementInv /\ RootInv
  BY DEF ProjectionInit, PlacementInv, RootInv
<1>2. ProjectionInit => ExpandingInv
  BY DEF ProjectionInit, ExpandingInv
<1> QED
  BY <1>1, <1>2, PlacementStep, EverythingIsPlaced, ExpandingStep, ProjectionSound,
     PreparationFirst, ResourcesSound, Coverage, PTL DEF ProjectionSpec
=============================================================================
