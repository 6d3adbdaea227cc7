-------------------------- MODULE CompilationProofs -------------------------
(***************************************************************************)
(* Proofs about what compiling a data schema rests on.  About Resources,   *)
(* for all documents: the base every schema is read with is the one its    *)
(* place in its document gives it, whichever way it was reached, and every *)
(* reference of a prepared graph leads where it was written to.  About     *)
(* JsonNumbers, for numbers with any digits and exponents: that two        *)
(* spellings are equal, that one is an integer, and the digits an integer  *)
(* is stored with, are decided as the spellings mean it.                   *)
(***************************************************************************)
EXTENDS SpelledNumbers, SequenceLemmas

(* The steps of the pointers into a sequence of documents.                 *)
Steps(docs) ==
  UNION {UNION {Range(at) : at \in DOMAIN docs[d].nodes} : d \in DOMAIN docs}

WellFormed(docs) ==
  /\ docs \in Seq(Range(docs))
  /\ \A d \in DOMAIN docs : IsDocument(docs[d])

(* The pointers of a document are sequences, and so are their prefixes.    *)
LEMMA PointersAre ==
  ASSUME NEW docs, WellFormed(docs), NEW d \in DOMAIN docs,
         NEW at \in DOMAIN docs[d].nodes
  PROVE  /\ at \in Seq(Steps(docs)) /\ Len(at) \in Nat
         /\ \A n \in 0..Len(at) : SubSeq(at, 1, n) \in DOMAIN docs[d].nodes
<1>1. /\ at \in Seq(Range(at))
      /\ \A n \in 0..Len(at) : SubSeq(at, 1, n) \in DOMAIN docs[d].nodes
  BY DEF WellFormed, IsDocument
<1>2. Range(at) \subseteq Steps(docs)
  BY DEF Steps
<1>3. Len(at) \in Nat /\ at \in [1..Len(at) -> Range(at)]
  BY <1>1, LenProperties
<1>4. at \in [1..Len(at) -> Steps(docs)]
  BY <1>2, <1>3
<1> QED
  BY <1>1, <1>3, <1>4, FunctionIsSequence

(* Prefixes by their length.                                               *)
LEMMA PrefixesAre ==
  ASSUME NEW S, NEW s \in Seq(S), NEW n \in 0..Len(s)
  PROVE  /\ SubSeq(s, 1, n) \in Seq(S) /\ Len(SubSeq(s, 1, n)) = n
         /\ IsPrefix(SubSeq(s, 1, n), s)
         /\ \A k \in 0..n : SubSeq(SubSeq(s, 1, n), 1, k) = SubSeq(s, 1, k)
         /\ SubSeq(s, 1, Len(s)) = s
<1>1. Len(s) \in Nat
  BY LenProperties
<1>2. /\ SubSeq(s, 1, n) \in Seq(S) /\ Len(SubSeq(s, 1, n)) = n
      /\ SubSeq(s, 1, Len(s)) = s
  BY <1>1, SubSeqProperties, SubSeqFull
<1>3. \A k \in 0..n : SubSeq(SubSeq(s, 1, n), 1, k) = SubSeq(s, 1, k)
  <2> TAKE k \in 0..n
  <2>1. CASE k = 0
    BY <1>1, <1>2, <2>1, SubSeqEmpty
  <2>2. CASE k > 0
    BY <1>1, <2>2, SubSeqOfSubSeq
  <2> QED
    BY <2>1, <2>2
<1>4. IsPrefix(SubSeq(s, 1, n), s)
  BY <1>1, <1>2, <1>3 DEF IsPrefix
<1> QED
  BY <1>2, <1>3, <1>4

LEMMA PrefixIsCut ==
  ASSUME NEW S, NEW s \in Seq(S), NEW t \in Seq(S)
  PROVE  IsPrefix(s, t) <=> Len(s) <= Len(t) /\ s = SubSeq(t, 1, Len(s))
BY SubSeqFull DEF IsPrefix

-----------------------------------------------------------------------------
(* The recursive functions are what their definitions say: there is such a *)
(* function, built from those on initial segments.                         *)
LEMMA BasesAre ==
  ASSUME NEW docs, NEW doc, NEW at, NEW first, NEW base
  PROVE  /\ Bases(docs, doc, at, first, base)[0] = base
         /\ \A n \in Nat \ {0} :
              Bases(docs, doc, at, first, base)[n] =
                BaseIn(Node(docs, doc, SubSeq(at, 1, first + n - 1)),
                       Bases(docs, doc, at, first, base)[n - 1])
<1> DEFINE After(b, n) == BaseIn(Node(docs, doc, SubSeq(at, 1, first + n - 1)), b)
           Value(f, n) == IF n = 0 THEN base ELSE After(f[n - 1], n)
           Upto(f, n) == \A k \in 0..n : f[k] = Value(f, k)
<1> HIDE DEF After, Upto
<1>1. \A n \in Nat : \E f : Upto(f, n)
  <2> SUFFICES ASSUME NEW bad, bad = {n \in Nat : ~\E f : Upto(f, n)}, bad # {}
               PROVE  FALSE
    OBVIOUS
  <2>1. PICK n \in bad : \A k \in bad : n <= k
    BY LeastElement
  <2>4. n \in Nat
    BY <2>1
  <2>2. CASE n = 0
    <3>1. Upto([k \in {0} |-> base], 0)
      BY DEF Upto
    <3> QED
      BY <2>1, <2>2, <3>1
  <2>3. CASE n # 0
    <3>1. n - 1 \in Nat /\ n - 1 \notin bad
      BY <2>1, <2>4, <2>3
    <3>2. PICK f : Upto(f, n - 1)
      BY <3>1
    <3> DEFINE g == [k \in 0..n |-> IF k < n THEN f[k] ELSE After(f[n - 1], n)]
    <3>3. ASSUME NEW k \in 0..n PROVE g[k] = Value(g, k)
      <4>1. CASE k < n
        <5>1. k \in 0..n - 1 /\ f[k] = Value(f, k)
          BY <2>4, <3>2, <4>1 DEF Upto
        <5>2. g[k] = f[k]
          BY <4>1
        <5>3. k # 0 => k - 1 \in 0..n /\ k - 1 < n /\ g[k - 1] = f[k - 1]
          BY <2>4, <4>1
        <5> QED
          BY <5>1, <5>2, <5>3
      <4>2. CASE k = n
        <5>1. g[n] = After(f[n - 1], n) /\ g[n - 1] = f[n - 1]
          BY <2>4, <2>3
        <5> QED
          BY <2>3, <4>2, <5>1
      <4> QED
        BY <2>4, <4>1, <4>2
    <3> HIDE DEF g
    <3> QED
      BY <2>1, <3>3 DEF Upto
  <2> QED
    BY <2>2, <2>3
<1>2. ASSUME NEW n \in Nat, NEW f, Upto(f, n), NEW g, Upto(g, n)
      PROVE  \A k \in 0..n : f[k] = g[k]
  <2> SUFFICES ASSUME NEW bad, bad = {k \in 0..n : f[k] # g[k]}, bad # {}
               PROVE  FALSE
    OBVIOUS
  <2>1. PICK k \in bad : \A j \in bad : k <= j
    BY LeastElement
  <2>2. k # 0 => k - 1 \in 0..n /\ k - 1 \notin bad
    BY <2>1
  <2>3. k # 0 => f[k - 1] = g[k - 1]
    BY <2>2
  <2> QED
    BY <1>2, <2>1, <2>3 DEF Upto
<1> DEFINE On(n) == CHOOSE f : Upto(f, n)
           whole == [n \in Nat |-> On(n)[n]]
<1>3. \A n \in Nat : Upto(On(n), n)
  BY <1>1
<1> HIDE DEF On
<1>4. ASSUME NEW n \in Nat PROVE whole[n] = Value(whole, n)
  <2>1. CASE n = 0
    BY <1>3, <2>1 DEF Upto
  <2>2. CASE n # 0
    <3>1. n - 1 \in Nat /\ n - 1 \in 0..n - 1 /\ Upto(On(n), n - 1)
      BY <1>3, <2>2 DEF Upto
    <3>2. On(n)[n - 1] = On(n - 1)[n - 1]
      BY <1>2, <1>3, <3>1
    <3>3. On(n)[n] = After(On(n)[n - 1], n)
      BY <1>3, <2>2 DEF Upto
    <3> QED
      BY <2>2, <3>1, <3>2, <3>3
  <2> QED
    BY <2>1, <2>2
<1>5. whole = [n \in Nat |-> Value(whole, n)]
  BY <1>4
<1> DEFINE all == CHOOSE f : f = [n \in Nat |-> Value(f, n)]
<1>6. all = [n \in Nat |-> Value(all, n)]
  <2> HIDE DEF whole, Value
  <2> QED
    BY <1>5
<1>7. Bases(docs, doc, at, first, base) = all
  BY DEF Bases, After
<1> HIDE DEF all
<1> QED
  BY <1>6, <1>7 DEF After

-----------------------------------------------------------------------------
(* The base of a place, from the identities on the way to it.              *)
Lexical(docs, doc, at) ==
  BaseAlong(docs, doc, at, 0, Len(at), docs[doc].uri)

LEMMA LexicalOfPrefix ==
  ASSUME NEW docs, WellFormed(docs), NEW d \in DOMAIN docs,
         NEW at \in DOMAIN docs[d].nodes, NEW m \in 0..Len(at)
  PROVE  Lexical(docs, d, SubSeq(at, 1, m)) = Bases(docs, d, at, 0, docs[d].uri)[m + 1]
<1> DEFINE cut == SubSeq(at, 1, m)
           short(n) == Bases(docs, d, cut, 0, docs[d].uri)[n]
           long(n) == Bases(docs, d, at, 0, docs[d].uri)[n]
<1>1. /\ Len(at) \in Nat /\ Len(cut) = m
      /\ \A k \in 0..m : SubSeq(cut, 1, k) = SubSeq(at, 1, k)
  BY PointersAre, PrefixesAre
<1>2. /\ short(0) = docs[d].uri /\ long(0) = docs[d].uri
      /\ \A n \in 1..m + 1 :
           /\ short(n) = BaseIn(Node(docs, d, SubSeq(cut, 1, n - 1)), short(n - 1))
           /\ long(n) = BaseIn(Node(docs, d, SubSeq(at, 1, n - 1)), long(n - 1))
  <2>1. \A n \in 1..m + 1 : n \in Nat \ {0} /\ 0 + n - 1 = n - 1
    BY <1>1
  <2> QED
    BY <2>1, BasesAre
<1> HIDE DEF cut, short, long
<1>3. \A n \in 0..m + 1 : short(n) = long(n)
  <2> SUFFICES ASSUME NEW bad, bad = {n \in 0..m + 1 : short(n) # long(n)}, bad # {}
               PROVE  FALSE
    BY ZenonT(30)
  <2>1. PICK n \in bad : \A k \in bad : n <= k
    <3>1. bad \subseteq Nat
      OBVIOUS
    <3> QED
      BY <3>1, LeastElement
  <2>2. n \in 1..m + 1 /\ n - 1 \in 0..m /\ n - 1 \notin bad
    BY <1>2, <2>1
  <2>3. short(n - 1) = long(n - 1) /\ SubSeq(cut, 1, n - 1) = SubSeq(at, 1, n - 1)
    BY <1>1, <2>2
  <2> QED
    BY <1>2, <2>1, <2>2, <2>3
<1>4. Lexical(docs, d, cut) = short(m + 1)
  BY <1>1 DEF Lexical, BaseAlong, short
<1> QED
  BY <1>1, <1>3, <1>4 DEF cut, long

(* Where a place is in a resource of its own, or else in that around it.   *)
LEMMA LexicalStep ==
  ASSUME NEW docs, WellFormed(docs), NEW d \in DOMAIN docs,
         NEW at \in DOMAIN docs[d].nodes
  PROVE  /\ Lexical(docs, d, <<>>) = BaseIn(Node(docs, d, <<>>), docs[d].uri)
         /\ \A n \in 1..Len(at) :
              Lexical(docs, d, SubSeq(at, 1, n)) =
                BaseIn(Node(docs, d, SubSeq(at, 1, n)), Lexical(docs, d, SubSeq(at, 1, n - 1)))
<1> DEFINE along(n) == Bases(docs, d, at, 0, docs[d].uri)[n]
<1>1. Len(at) \in Nat /\ SubSeq(at, 1, 0) = <<>>
  BY PointersAre, SubSeqEmpty
<1>2. \A m \in 0..Len(at) : Lexical(docs, d, SubSeq(at, 1, m)) = along(m + 1)
  BY LexicalOfPrefix
<1>3. /\ along(0) = docs[d].uri
      /\ \A n \in 1..Len(at) + 1 :
           along(n) = BaseIn(Node(docs, d, SubSeq(at, 1, n - 1)), along(n - 1))
  <2>1. \A n \in 1..Len(at) + 1 : n \in Nat \ {0} /\ 0 + n - 1 = n - 1
    BY <1>1
  <2> QED
    BY <2>1, BasesAre
<1> HIDE DEF along
<1>4. Lexical(docs, d, <<>>) = along(1) /\ along(1) = BaseIn(Node(docs, d, <<>>), along(0))
  <2>1. 0 \in 0..Len(at) /\ 1 \in 1..Len(at) + 1 /\ 1 - 1 = 0 /\ 0 + 1 = 1
    BY <1>1
  <2> QED
    BY <1>1, <1>2, <1>3, <2>1
<1>5. ASSUME NEW n \in 1..Len(at)
      PROVE  Lexical(docs, d, SubSeq(at, 1, n)) =
               BaseIn(Node(docs, d, SubSeq(at, 1, n)), Lexical(docs, d, SubSeq(at, 1, n - 1)))
  <2>1. n \in 0..Len(at) /\ n - 1 \in 0..Len(at) /\ n + 1 \in 1..Len(at) + 1
        /\ n + 1 - 1 = n /\ n - 1 + 1 = n
    BY <1>1
  <2> QED
    BY <1>2, <1>3, <2>1
<1> QED
  BY <1>3, <1>4, <1>5

(* Rewriting references leaves the rest of the documents as it is.         *)
Agrees(docs, now) ==
  /\ now \in Seq(Range(now)) /\ DOMAIN now = DOMAIN docs
  /\ \A d \in DOMAIN docs :
       /\ DOMAIN now[d] = DOMAIN docs[d] /\ now[d].uri = docs[d].uri
       /\ DOMAIN now[d].nodes = DOMAIN docs[d].nodes
       /\ \A at \in DOMAIN docs[d].nodes :
            /\ DOMAIN now[d].nodes[at] = DOMAIN docs[d].nodes[at]
            /\ \A keyword \in DOMAIN docs[d].nodes[at] \ {"ref"} :
                 now[d].nodes[at][keyword] = docs[d].nodes[at][keyword]

LEMMA AgreeingBase ==
  ASSUME NEW docs, NEW now, Agrees(docs, now), NEW d \in DOMAIN docs,
         NEW at \in DOMAIN docs[d].nodes, NEW base
  PROVE  BaseIn(Node(now, d, at), base) = BaseIn(Node(docs, d, at), base)
BY DEF Agrees, BaseIn, Node, Has

(* Going on along a pointer from the base somewhere on it.                 *)
LEMMA AlongIsLexical ==
  ASSUME NEW docs, WellFormed(docs), NEW now, Agrees(docs, now),
         NEW d \in DOMAIN docs, NEW at \in DOMAIN docs[d].nodes,
         NEW first \in 1..Len(at) + 1, NEW last \in first - 1..Len(at)
  PROVE  BaseAlong(now, d, at, first, last, Lexical(docs, d, SubSeq(at, 1, first - 1)))
           = Lexical(docs, d, SubSeq(at, 1, last))
<1> DEFINE base == Lexical(docs, d, SubSeq(at, 1, first - 1))
           along(n) == Bases(now, d, at, first, base)[n]
           goal(n) == along(n) = Lexical(docs, d, SubSeq(at, 1, first + n - 1))
<1>1. Len(at) \in Nat /\ \A n \in 0..Len(at) : SubSeq(at, 1, n) \in DOMAIN docs[d].nodes
  BY PointersAre
<1>2. /\ along(0) = base
      /\ \A n \in Nat \ {0} :
           along(n) = BaseIn(Node(now, d, SubSeq(at, 1, first + n - 1)), along(n - 1))
  BY BasesAre, SMTT(30)
<1> HIDE DEF along
<1>3. \A n \in 0..last - first + 1 : goal(n)
  <2> HIDE DEF goal
  <2> SUFFICES ASSUME NEW bad, bad = {n \in 0..last - first + 1 : ~goal(n)}, bad # {}
               PROVE  FALSE
    OBVIOUS
  <2>1. PICK n \in bad : \A k \in bad : n <= k
    <3>1. bad \subseteq Nat
      OBVIOUS
    <3> QED
      BY <3>1, LeastElement
  <2>2. n \in Nat /\ n <= last - first + 1 /\ ~goal(n)
    BY <2>1
  <2>3. n # 0
    <3>1. goal(0)
      BY <1>2 DEF goal
    <3> QED
      BY <2>2, <3>1
  <2>4. n - 1 \in 0..last - first + 1 /\ n - 1 \notin bad
    BY <1>1, <2>1, <2>2, <2>3
  <2>5. goal(n - 1)
    BY <2>4
  <2> DEFINE m == first + n - 1
  <2>6. m \in 1..Len(at) /\ m \in 0..Len(at) /\ first + (n - 1) - 1 = m - 1
    BY <1>1, <2>2, <2>3
  <2>7. along(n - 1) = Lexical(docs, d, SubSeq(at, 1, m - 1))
    BY <2>5, <2>6 DEF goal
  <2>8. along(n) = BaseIn(Node(now, d, SubSeq(at, 1, m)), along(n - 1))
    BY <1>2, <2>2, <2>3
  <2>9. along(n) = Lexical(docs, d, SubSeq(at, 1, m))
    <3> HIDE DEF m
    <3>1. BaseIn(Node(now, d, SubSeq(at, 1, m)), along(n - 1))
            = BaseIn(Node(docs, d, SubSeq(at, 1, m)), along(n - 1))
      BY <1>1, <2>6, AgreeingBase
    <3> QED
      BY <2>6, <2>7, <2>8, <3>1, LexicalStep
  <2> QED
    BY <2>2, <2>9 DEF goal
<1>4. BaseAlong(now, d, at, first, last, base) = along(last - first + 1)
  BY <1>1 DEF BaseAlong, along
<1> DEFINE n == last - first + 1
<1>5. n \in 0..last - first + 1 /\ first + n - 1 = last
  BY <1>1
<1> QED
  BY <1>3, <1>4, <1>5

-----------------------------------------------------------------------------
(* A schema by its place, in the resource that its place gives it.         *)
PlaceAt(docs, d, at) == [doc |-> d, at |-> at, base |-> Lexical(docs, d, at)]

IsLocated(docs, l) ==
  /\ l.doc \in DOMAIN docs /\ l.at \in DOMAIN docs[l.doc].nodes
  /\ l = PlaceAt(docs, l.doc, l.at)

Identified(docs, d, at) == Has(Node(docs, d, at), "id")

(* A resource is known by its identity.                                    *)
Aliased(docs, graph, d, at) ==
  /\ Lexical(docs, d, at) \in DOMAIN graph.aliases
  /\ graph.aliases[Lexical(docs, d, at)] = PlaceAt(docs, d, at)

(* Below the root of the resource it is in.                                *)
InResource(graph, l) ==
  /\ l.base \in DOMAIN graph.aliases
  /\ graph.aliases[l.base].doc = l.doc
  /\ IsPrefix(graph.aliases[l.base].at, l.at)

(* What a URI can be that a resource is known by.                          *)
IsIdentity(docs, uri, d, at) ==
  IF at = <<>> THEN uri \in {docs[d].uri, Lexical(docs, d, at)}
  ELSE Identified(docs, d, at) /\ Lexical(docs, d, at) = uri

IsResource(docs, graph, uri, root) ==
  /\ IsLocated(docs, root)
  /\ Aliased(docs, graph, root.doc, root.at)
  /\ IsIdentity(docs, uri, root.doc, root.at)

IsAnchor(docs, graph, key, l) ==
  /\ IsLocated(docs, l) /\ InResource(graph, l)
  /\ key[1] = l.base
  /\ Has(Node(docs, l.doc, l.at), "anchors")
  /\ key[2] \in Node(docs, l.doc, l.at).anchors

(* Whatever has been indexed is known as what its place makes it.          *)
GraphInv(docs, graph) ==
  /\ \A uri \in DOMAIN graph.aliases : IsResource(docs, graph, uri, graph.aliases[uri])
  /\ \A key \in DOMAIN graph.anchors : IsAnchor(docs, graph, key, graph.anchors[key])
  /\ \A e \in graph.indexed :
       e.at # <<>> /\ Identified(docs, e.doc, e.at) => Aliased(docs, graph, e.doc, e.at)

Extends(graph, larger) ==
  /\ \A uri \in DOMAIN graph.aliases :
       uri \in DOMAIN larger.aliases /\ larger.aliases[uri] = graph.aliases[uri]
  /\ \A key \in DOMAIN graph.anchors :
       key \in DOMAIN larger.anchors /\ larger.anchors[key] = graph.anchors[key]

(* Every identity on the way to a place is known, from some resource on.   *)
Charted(docs, graph, d, at) ==
  \E m \in 0..Len(at) :
    /\ Aliased(docs, graph, d, SubSeq(at, 1, m))
    /\ \A n \in m + 1..Len(at) :
         Identified(docs, d, SubSeq(at, 1, n)) =>
           Aliased(docs, graph, d, SubSeq(at, 1, n))

-----------------------------------------------------------------------------
LEMMA ResolvedUri ==
  ASSUME NEW base, IsUri(base), base.dir # "", NEW reference, IsUri(reference)
  PROVE  /\ IsUri(ResolveUri(base, reference))
         /\ ResolveUri(base, reference).dir # ""
         /\ reference.dir # "" => ResolveUri(base, reference) = reference
<1>1. CASE reference = Here
  <2>1. ResolveUri(base, reference) = base /\ reference.dir = ""
    BY <1>1 DEF ResolveUri, Here
  <2> QED
    BY <2>1
<1>2. CASE reference # Here /\ reference.dir = ""
  <2>1. ResolveUri(base, reference) = [dir |-> base.dir, file |-> reference.file]
    BY <1>2 DEF ResolveUri
  <2>2. \A a, b : IsUri([dir |-> a, file |-> b]) /\ [dir |-> a, file |-> b].dir = a
    BY DEF IsUri
  <2> QED
    BY <1>2, <2>1, <2>2
<1>3. CASE reference # Here /\ reference.dir # ""
  <2>1. ResolveUri(base, reference) = reference
    BY <1>3 DEF ResolveUri
  <2> QED
    BY <1>3, <2>1
<1> QED
  BY <1>1, <1>2, <1>3

(* The base of a place is absolute.                                        *)
LEMMA LexicalIsAbsolute ==
  ASSUME NEW docs, WellFormed(docs), NEW d \in DOMAIN docs,
         NEW at \in DOMAIN docs[d].nodes
  PROVE  IsUri(Lexical(docs, d, at)) /\ Lexical(docs, d, at).dir # ""
<1> DEFINE absolute(uri) == IsUri(uri) /\ uri.dir # ""
           goal(n) == absolute(Lexical(docs, d, SubSeq(at, 1, n)))
<1>1. Len(at) \in Nat /\ \A n \in 0..Len(at) : SubSeq(at, 1, n) \in DOMAIN docs[d].nodes
  BY PointersAre
<1>2. SubSeq(at, 1, 0) = <<>> /\ SubSeq(at, 1, Len(at)) = at
  BY PointersAre, SubSeqEmpty, SubSeqFull
<1>3. ASSUME NEW n \in 0..Len(at), NEW base, absolute(base)
      PROVE  absolute(BaseIn(Node(docs, d, SubSeq(at, 1, n)), base))
  <2>1. SubSeq(at, 1, n) \in DOMAIN docs[d].nodes /\ IsDocument(docs[d])
    BY <1>1 DEF WellFormed
  <2>2. Has(Node(docs, d, SubSeq(at, 1, n)), "id") =>
          IsUri(Node(docs, d, SubSeq(at, 1, n)).id)
    BY <2>1 DEF IsDocument, Has, Node
  <2> QED
    BY <1>3, <2>2, ResolvedUri DEF BaseIn
<1> HIDE DEF absolute
<1>4. goal(0)
  <2>1. absolute(docs[d].uri)
    BY DEF WellFormed, IsDocument, absolute
  <2>2. 0 \in 0..Len(at) /\ absolute(BaseIn(Node(docs, d, SubSeq(at, 1, 0)), docs[d].uri))
    BY <1>1, <1>3, <2>1
  <2>3. Lexical(docs, d, <<>>) = BaseIn(Node(docs, d, <<>>), docs[d].uri)
    BY LexicalStep
  <2> QED
    BY <1>2, <2>2, <2>3
<1>5. \A n \in 1..Len(at) : goal(n - 1) => goal(n)
  BY <1>1, <1>3, LexicalStep
<1> HIDE DEF goal
<1>6. \A n \in 0..Len(at) : goal(n)
  <2> SUFFICES ASSUME NEW bad, bad = {n \in 0..Len(at) : ~goal(n)}, bad # {}
               PROVE  FALSE
    OBVIOUS
  <2>1. PICK n \in bad : \A k \in bad : n <= k
    <3>1. bad \subseteq Nat
      OBVIOUS
    <3> QED
      BY <3>1, LeastElement
  <2>2. n \in 1..Len(at) /\ n - 1 \in 0..Len(at) /\ n - 1 \notin bad
    BY <1>1, <1>4, <2>1
  <2> QED
    BY <1>5, <2>1, <2>2
<1>7. goal(Len(at))
  BY <1>1, <1>6
<1> QED
  BY <1>2, <1>7 DEF goal, absolute

(* A stretch without an identity is in one resource.                       *)
LEMMA LexicalUnidentified ==
  ASSUME NEW docs, WellFormed(docs), NEW d \in DOMAIN docs,
         NEW at \in DOMAIN docs[d].nodes, NEW m \in 0..Len(at), NEW l \in m..Len(at),
         \A n \in m + 1..l : ~Identified(docs, d, SubSeq(at, 1, n))
  PROVE  Lexical(docs, d, SubSeq(at, 1, l)) = Lexical(docs, d, SubSeq(at, 1, m))
<1> DEFINE base(n) == Lexical(docs, d, SubSeq(at, 1, n))
           goal(n) == base(n) = base(m)
<1>1. Len(at) \in Nat
  BY PointersAre
<1>2. \A n \in m + 1..l : base(n) = base(n - 1)
  <2> TAKE n \in m + 1..l
  <2>1. n \in 1..Len(at)
    BY <1>1
  <2> QED
    BY <2>1, LexicalStep DEF Identified, BaseIn
<1> HIDE DEF base
<1>3. goal(m) /\ \A n \in m + 1..l : goal(n - 1) => goal(n)
  BY <1>1, <1>2 DEF goal
<1> HIDE DEF goal
<1>4. \A n \in m..l : goal(n)
  <2> SUFFICES ASSUME NEW bad, bad = {n \in m..l : ~goal(n)}, bad # {}
               PROVE  FALSE
    OBVIOUS
  <2>1. PICK n \in bad : \A k \in bad : n <= k
    <3>1. bad \subseteq Nat
      BY <1>1
    <3> QED
      BY <3>1, LeastElement
  <2>2. n \in m + 1..l /\ n - 1 \in m..l /\ n - 1 \notin bad
    BY <1>1, <1>3, <2>1
  <2> QED
    BY <1>3, <2>1, <2>2
<1>5. l \in m..l
  BY <1>1
<1> QED
  BY <1>4, <1>5 DEF base, goal

(* The resource a charted place is in.                                     *)
LEMMA ChartedBase ==
  ASSUME NEW docs, WellFormed(docs), NEW graph, NEW d \in DOMAIN docs,
         NEW at \in DOMAIN docs[d].nodes, Charted(docs, graph, d, at)
  PROVE  \E m \in 0..Len(at) :
           /\ Aliased(docs, graph, d, SubSeq(at, 1, m))
           /\ Lexical(docs, d, at) = Lexical(docs, d, SubSeq(at, 1, m))
           /\ \A n \in m + 1..Len(at) : ~Identified(docs, d, SubSeq(at, 1, n))
<1> DEFINE known(n) == Aliased(docs, graph, d, SubSeq(at, 1, n))
<1>1. Len(at) \in Nat /\ SubSeq(at, 1, Len(at)) = at
  BY PointersAre, SubSeqFull
<1>2. PICK k \in 0..Len(at) :
        /\ known(k)
        /\ \A n \in k + 1..Len(at) : Identified(docs, d, SubSeq(at, 1, n)) => known(n)
  BY DEF Charted
<1> HIDE DEF known
<1> DEFINE left == {j \in 0..Len(at) : known(Len(at) - j)}
<1>3. PICK j \in left : \A i \in left : j <= i
  <2>1. Len(at) - k \in left /\ left \subseteq Nat
    BY <1>1, <1>2
  <2> QED
    BY <2>1, LeastElement
<1> DEFINE m == Len(at) - j
<1>4. m \in 0..Len(at) /\ known(m) /\ \A n \in m + 1..Len(at) : ~known(n)
  <2>1. ASSUME NEW n \in m + 1..Len(at), known(n) PROVE FALSE
    <3>1. Len(at) - n \in 0..Len(at) /\ Len(at) - (Len(at) - n) = n /\ Len(at) - n < j
      BY <1>1, <1>3
    <3>2. Len(at) - n \in left
      BY <2>1, <3>1
    <3> QED
      BY <1>1, <1>3, <3>1, <3>2
  <2> QED
    BY <1>1, <1>3, <2>1
<1>5. k <= m
  BY <1>1, <1>2, <1>4
<1>6. \A n \in m + 1..Len(at) : ~Identified(docs, d, SubSeq(at, 1, n))
  BY <1>1, <1>2, <1>4, <1>5
<1>7. Lexical(docs, d, SubSeq(at, 1, Len(at))) = Lexical(docs, d, SubSeq(at, 1, m))
  <2> HIDE DEF m
  <2> QED
    BY <1>1, <1>4, <1>6, LexicalUnidentified
<1> QED
  BY <1>1, <1>4, <1>6, <1>7 DEF known

-----------------------------------------------------------------------------
LEMMA AgreeingNode ==
  ASSUME NEW docs, NEW now, Agrees(docs, now), NEW d \in DOMAIN docs,
         NEW at \in DOMAIN docs[d].nodes
  PROVE  /\ d \in DOMAIN now /\ DOMAIN now[d].nodes = DOMAIN docs[d].nodes
         /\ now[d].uri = docs[d].uri
         /\ References(Node(now, d, at)) = References(Node(docs, d, at))
         /\ \A keyword :
              /\ Has(Node(now, d, at), keyword) <=> Has(Node(docs, d, at), keyword)
              /\ keyword # "ref" /\ Has(Node(docs, d, at), keyword) =>
                   Node(now, d, at)[keyword] = Node(docs, d, at)[keyword]
BY DEF Agrees, Node, Has, References

LEMMA LongerPrefix ==
  ASSUME NEW S, NEW s \in Seq(S), NEW t \in Seq(S), IsPrefix(s, t)
  PROVE  /\ Len(s) \in 0..Len(t) /\ Len(t) \in Nat
         /\ s = SubSeq(t, 1, Len(s))
         /\ s # t => Len(s) < Len(t)
         /\ \A k \in 0..Len(s) : SubSeq(s, 1, k) = SubSeq(t, 1, k)
<1>1. Len(s) \in Nat /\ Len(t) \in Nat /\ Len(s) <= Len(t) /\ s = SubSeq(t, 1, Len(s))
  BY LenProperties, PrefixIsCut
<1>2. Len(s) \in 0..Len(t)
  BY <1>1
<1>3. \A k \in 0..Len(s) : SubSeq(SubSeq(t, 1, Len(s)), 1, k) = SubSeq(t, 1, k)
  BY <1>2, PrefixesAre
<1>4. SubSeq(t, 1, Len(t)) = t
  BY SubSeqFull
<1> QED
  BY <1>1, <1>2, <1>3, <1>4

(* Where a schema is to be indexed: below the root of the resource it is   *)
(* in, or at the root of the document.                                     *)
Indexable(docs, at, root) ==
  /\ IsLocated(docs, root)
  /\ at \in DOMAIN docs[root.doc].nodes
  /\ IsPrefix(root.at, at)
  /\ at = root.at => at = <<>>
  /\ \A n \in Len(root.at) + 1..Len(at) - 1 : ~Identified(docs, root.doc, SubSeq(at, 1, n))

(* What is indexed, and as what.                                           *)
LEMMA EntriesAre ==
  ASSUME NEW docs, WellFormed(docs), NEW now, Agrees(docs, now),
         NEW root, NEW at, Indexable(docs, at, root), NEW e \in Entries(now, at, root)
  PROVE  /\ e.doc = root.doc /\ e.at \in DOMAIN docs[root.doc].nodes
         /\ IsPrefix(at, e.at)
         /\ Own(now, root, e) = PlaceAt(docs, root.doc, e.at)
         /\ StartsResource(now, root, e) <=>
              e.at # <<>> /\ Identified(docs, root.doc, e.at)
<1> DEFINE d == root.doc
           first == IF at = root.at THEN Len(at) + 1 ELSE Len(at)
<1>1. PICK below \in Descendants(now, d, at) :
        e = [ doc |-> d, at |-> below,
              base |-> BaseAlong(now, d, below, first, Len(below) - 1, root.base) ]
  BY DEF Entries
<1>2. /\ d \in DOMAIN docs /\ at \in DOMAIN docs[d].nodes /\ root.at \in DOMAIN docs[d].nodes
      /\ IsPrefix(root.at, at)
      /\ root.base = Lexical(docs, d, root.at)
  BY DEF Indexable, IsLocated, PlaceAt
<1>3. below \in DOMAIN docs[d].nodes /\ IsPrefix(at, below)
  BY <1>1, <1>2, AgreeingNode DEF Descendants
<1>4. /\ root.at \in Seq(Steps(docs)) /\ at \in Seq(Steps(docs))
      /\ below \in Seq(Steps(docs))
  BY <1>2, <1>3, PointersAre
<1>5. /\ Len(root.at) \in 0..Len(at) /\ Len(at) \in 0..Len(below)
      /\ Len(at) \in Nat /\ Len(below) \in Nat /\ Len(root.at) \in Nat
      /\ root.at = SubSeq(at, 1, Len(root.at))
      /\ root.at # at => Len(root.at) < Len(at)
      /\ \A k \in 0..Len(at) : SubSeq(at, 1, k) = SubSeq(below, 1, k)
      /\ SubSeq(below, 1, Len(below)) = below
  BY <1>2, <1>3, <1>4, LongerPrefix, SubSeqFull
<1>6. CASE below = root.at
  <2>1. at = root.at /\ at = <<>> /\ first = 1 /\ Len(below) - 1 < 1
    <3>1. at = root.at
      BY <1>5, <1>6
    <3>2. at = <<>> /\ Len(at) = 0
      BY <3>1 DEF Indexable
    <3> QED
      BY <1>5, <1>6, <3>1, <3>2
  <2>2. e.base = root.base
    BY <1>1, <2>1, BasesAre DEF BaseAlong
  <2>3. ~StartsResource(now, root, e) /\ Own(now, root, e) = e
    BY <1>1, <1>6 DEF StartsResource, Own
  <2> QED
    BY <1>1, <1>2, <1>3, <1>6, <2>1, <2>2, <2>3 DEF PlaceAt
<1>7. CASE below # root.at
  <2>1. Len(below) >= 1 /\ below # <<>>
    <3>1. at # root.at => Len(at) >= 1
      BY <1>5
    <3>2. at = root.at => root.at = <<>> /\ Len(root.at) = 0
      BY DEF Indexable
    <3>3. Len(below) = 0 => below = <<>>
      BY <1>4, EmptySeq
    <3> QED
      BY <1>5, <1>7, <3>1, <3>2, <3>3
  <2>2. e.base = Lexical(docs, d, SubSeq(below, 1, Len(below) - 1))
    <3>1. /\ first \in 1..Len(below) + 1
          /\ Len(below) - 1 \in first - 1..Len(below)
          /\ root.base = Lexical(docs, d, SubSeq(below, 1, first - 1))
      <4>1. CASE at = root.at
        <5>1. at = <<>> /\ Len(at) = 0
          BY <4>1 DEF Indexable
        <5>2. first = 1 /\ first - 1 = 0 /\ SubSeq(below, 1, 0) = at
          BY <1>5, <4>1, <5>1, SubSeqEmpty
        <5>3. root.base = Lexical(docs, d, SubSeq(below, 1, first - 1))
          BY <1>2, <4>1, <5>2
        <5> HIDE DEF first
        <5> QED
          BY <1>5, <2>1, <5>2, <5>3
      <4>2. CASE at # root.at
        <5>1. first = Len(at) /\ Len(root.at) < Len(at)
          BY <1>5, <4>2
        <5>2. Lexical(docs, d, SubSeq(at, 1, Len(at) - 1))
                = Lexical(docs, d, SubSeq(at, 1, Len(root.at)))
          <6>1. /\ Len(root.at) \in 0..Len(at)
                /\ Len(at) - 1 \in Len(root.at)..Len(at)
                /\ \A n \in Len(root.at) + 1..Len(at) - 1 :
                     ~Identified(docs, d, SubSeq(at, 1, n))
            BY <1>5, <5>1 DEF Indexable
          <6> QED
            BY <1>2, <6>1, LexicalUnidentified
        <5>3. Len(at) - 1 \in 0..Len(at)
          BY <1>5, <5>1
        <5>4. SubSeq(at, 1, Len(at) - 1) = SubSeq(below, 1, Len(at) - 1)
          BY <1>5, <5>3
        <5>5. root.base = Lexical(docs, d, SubSeq(below, 1, first - 1))
          BY <1>2, <1>5, <5>1, <5>2, <5>4
        <5> HIDE DEF first
        <5> QED
          BY <1>5, <2>1, <5>1, <5>5
      <4> QED
        BY <4>1, <4>2
    <3> HIDE DEF first
    <3>2. BaseAlong(now, d, below, first, Len(below) - 1,
                    Lexical(docs, d, SubSeq(below, 1, first - 1)))
            = Lexical(docs, d, SubSeq(below, 1, Len(below) - 1))
      BY <1>2, <1>3, <3>1, AlongIsLexical
    <3> QED
      BY <1>1, <3>1, <3>2
  <2>3. Lexical(docs, d, below) = BaseIn(Node(docs, d, below), e.base)
    <3>1. Len(below) \in 1..Len(below)
      BY <1>5, <2>1
    <3> QED
      BY <1>2, <1>3, <1>5, <2>2, <3>1, LexicalStep
  <2>4. StartsResource(now, root, e) <=> Identified(docs, d, below)
    BY <1>1, <1>2, <1>3, <1>7, AgreeingNode DEF StartsResource, Identified
  <2>5. Own(now, root, e) = PlaceAt(docs, d, below)
    <3>1. CASE Identified(docs, d, below)
      <4>1. Node(now, d, below).id = Node(docs, d, below).id
        BY <1>2, <1>3, <3>1, AgreeingNode DEF Identified
      <4>2. Lexical(docs, d, below) = ResolveUri(e.base, Node(now, d, below).id)
        BY <2>3, <3>1, <4>1 DEF BaseIn, Identified
      <4> QED
        BY <1>1, <2>4, <3>1, <4>2 DEF Own, PlaceAt
    <3>2. CASE ~Identified(docs, d, below)
      <4>1. Lexical(docs, d, below) = e.base
        BY <2>3, <3>2 DEF BaseIn, Identified
      <4> QED
        BY <1>1, <2>4, <3>2, <4>1 DEF Own, PlaceAt
    <3> QED
      BY <3>1, <3>2
  <2> QED
    BY <1>1, <1>3, <2>1, <2>4, <2>5
<1> QED
  BY <1>6, <1>7

-----------------------------------------------------------------------------
(* What indexing comes to, where it is not refused.                        *)
Fresh(docs, graph, at, root) == Entries(docs, at, root) \ graph.indexed

NewRoots(docs, graph, at, root) ==
  { Own(docs, root, e) :
      e \in { f \in Fresh(docs, graph, at, root) : StartsResource(docs, root, f) } }

NewAnchors(docs, graph, at, root) ==
  UNION { { <<Own(docs, root, e), name>> :
              name \in IF Has(Node(docs, e.doc, e.at), "anchors")
                       THEN Node(docs, e.doc, e.at).anchors ELSE {} } :
            e \in Fresh(docs, graph, at, root) }

LEMMA IndexedAs ==
  ASSUME NEW docs, NEW graph, NEW at, NEW root, Index(docs, graph, at, root) # NoGraph
  PROVE  LET larger == Index(docs, graph, at, root)
         IN /\ Extends(graph, larger)
            /\ \A r \in NewRoots(docs, graph, at, root) :
                 /\ r.base \in DOMAIN larger.aliases /\ larger.aliases[r.base] = r
                 /\ r.base \notin BuiltIn
            /\ \A uri \in DOMAIN larger.aliases :
                 \/ uri \in DOMAIN graph.aliases
                 \/ \E r \in NewRoots(docs, graph, at, root) : uri = r.base
            /\ \A key \in DOMAIN larger.anchors :
                 \/ key \in DOMAIN graph.anchors
                 \/ \E n \in NewAnchors(docs, graph, at, root) :
                      key = <<n[1].base, n[2]>> /\ larger.anchors[key] = n[1]
            /\ larger.indexed = graph.indexed \cup Fresh(docs, graph, at, root)
<1> DEFINE larger == Index(docs, graph, at, root)
           roots  == NewRoots(docs, graph, at, root)
           named  == NewAnchors(docs, graph, at, root)
           key(n) == <<n[1].base, n[2]>>
           refused == \/ \E r \in roots : \/ Taken(docs, graph, r.base, r)
                                          \/ \E s \in roots : s # r /\ s.base = r.base
                      \/ \E n \in named : \/ key(n) \in DOMAIN graph.anchors
                                          \/ \E o \in named : o # n /\ key(o) = key(n)
<1>1. larger = IF refused THEN NoGraph
               ELSE [ aliases |-> [ uri \in DOMAIN graph.aliases \cup { r.base : r \in roots } |->
                                      IF uri \in DOMAIN graph.aliases THEN graph.aliases[uri]
                                      ELSE CHOOSE r \in roots : r.base = uri ],
                      anchors |-> [ k \in DOMAIN graph.anchors \cup { key(n) : n \in named } |->
                                      IF k \in DOMAIN graph.anchors THEN graph.anchors[k]
                                      ELSE (CHOOSE n \in named : key(n) = k)[1] ],
                      indexed |-> graph.indexed \cup Fresh(docs, graph, at, root) ]
  BY DEF Index, NewRoots, NewAnchors, Fresh
<1> HIDE DEF larger, roots, named, key
<1>2. /\ ~refused
      /\ larger.aliases = [ uri \in DOMAIN graph.aliases \cup { r.base : r \in roots } |->
                              IF uri \in DOMAIN graph.aliases THEN graph.aliases[uri]
                              ELSE CHOOSE r \in roots : r.base = uri ]
      /\ larger.anchors = [ k \in DOMAIN graph.anchors \cup { key(n) : n \in named } |->
                              IF k \in DOMAIN graph.anchors THEN graph.anchors[k]
                              ELSE (CHOOSE n \in named : key(n) = k)[1] ]
      /\ larger.indexed = graph.indexed \cup Fresh(docs, graph, at, root)
  <2> HIDE DEF refused
  <2>1. larger # NoGraph
    BY DEF larger
  <2> QED
    BY <1>1, <2>1
<1>3. /\ DOMAIN larger.aliases = DOMAIN graph.aliases \cup { r.base : r \in roots }
      /\ DOMAIN larger.anchors = DOMAIN graph.anchors \cup { key(n) : n \in named }
  BY <1>2
<1>4. ASSUME NEW r \in roots
      PROVE  r.base \in DOMAIN larger.aliases /\ larger.aliases[r.base] = r
  <2>1. r.base \in DOMAIN larger.aliases
    BY <1>3
  <2>2. CASE r.base \in DOMAIN graph.aliases
    <3>1. graph.aliases[r.base] = r
      BY <1>2, <2>2 DEF Taken
    <3> QED
      BY <1>2, <2>1, <2>2, <3>1
  <2>3. CASE r.base \notin DOMAIN graph.aliases
    <3>1. \A s \in roots : s.base = r.base => s = r
      BY <1>2
    <3>2. larger.aliases[r.base] = CHOOSE s \in roots : s.base = r.base
      BY <1>2, <2>1, <2>3
    <3> QED
      BY <2>1, <3>1, <3>2
  <2> QED
    BY <2>2, <2>3
<1>5. ASSUME NEW k \in DOMAIN larger.anchors, k \notin DOMAIN graph.anchors
      PROVE  \E n \in named : k = key(n) /\ larger.anchors[k] = n[1]
  <2>1. PICK n \in named : k = key(n)
    BY <1>3, <1>5
  <2>2. larger.anchors[k] = (CHOOSE o \in named : key(o) = k)[1]
    BY <1>2, <1>5
  <2>3. \A o \in named : key(o) = k => o = n
    BY <1>2, <2>1
  <2> QED
    BY <2>1, <2>2, <2>3
<1>6. Extends(graph, larger)
  BY <1>2, <1>3 DEF Extends
<1>7. \A r \in roots : r.base \notin BuiltIn
  BY <1>2 DEF Taken
<1> QED
  BY <1>2, <1>3, <1>4, <1>5, <1>6, <1>7 DEF larger, roots, named, key

LEMMA EntryAt ==
  ASSUME NEW docs, NEW at, NEW root, NEW below \in Descendants(docs, root.doc, at)
  PROVE  \E e \in Entries(docs, at, root) : e.at = below
<1> DEFINE first == IF at = root.at THEN Len(at) + 1 ELSE Len(at)
           base(b) == BaseAlong(docs, root.doc, b, first, Len(b) - 1, root.base)
           e == [doc |-> root.doc, at |-> below, base |-> base(below)]
<1>1. Entries(docs, at, root) =
        { [doc |-> root.doc, at |-> b, base |-> base(b)] : b \in Descendants(docs, root.doc, at) }
  BY DEF Entries
<1> HIDE DEF base
<1>2. e \in Entries(docs, at, root) /\ e.at = below
  BY <1>1
<1> QED
  BY <1>2

(* A schema below the place, with an identity, is known by it.             *)
LEMMA IndexedAliases ==
  ASSUME NEW docs, WellFormed(docs), NEW now, Agrees(docs, now),
         NEW graph, GraphInv(docs, graph), NEW root, NEW at, Indexable(docs, at, root),
         Index(now, graph, at, root) # NoGraph,
         NEW e \in Entries(now, at, root), e.at # <<>>, Identified(docs, root.doc, e.at)
  PROVE  Aliased(docs, Index(now, graph, at, root), root.doc, e.at)
<1> DEFINE larger == Index(now, graph, at, root)
<1>1. e.doc = root.doc /\ Own(now, root, e) = PlaceAt(docs, root.doc, e.at)
      /\ StartsResource(now, root, e)
  BY EntriesAre
<1>2. CASE e \in graph.indexed
  <2>1. Aliased(docs, graph, root.doc, e.at)
    BY <1>1, <1>2 DEF GraphInv
  <2>2. Extends(graph, larger)
    BY IndexedAs
  <2> QED
    BY <2>1, <2>2 DEF Aliased, Extends
<1>3. CASE e \notin graph.indexed
  <2>1. PlaceAt(docs, root.doc, e.at) \in NewRoots(now, graph, at, root)
    BY <1>1, <1>3 DEF NewRoots, Fresh
  <2>2. \A r \in NewRoots(now, graph, at, root) :
          r.base \in DOMAIN larger.aliases /\ larger.aliases[r.base] = r
    BY IndexedAs
  <2>3. PlaceAt(docs, root.doc, e.at).base = Lexical(docs, root.doc, e.at)
    BY DEF PlaceAt
  <2> HIDE DEF larger
  <2>4. Aliased(docs, larger, root.doc, e.at)
    BY <2>1, <2>2, <2>3 DEF Aliased
  <2> QED
    BY <2>4 DEF larger
<1> QED
  BY <1>2, <1>3

(* So whatever is below it is in a resource that is known.                 *)
LEMMA IndexedCharted ==
  ASSUME NEW docs, WellFormed(docs), NEW now, Agrees(docs, now),
         NEW graph, GraphInv(docs, graph), NEW root, NEW at, Indexable(docs, at, root),
         root.base \in DOMAIN graph.aliases, graph.aliases[root.base] = root,
         Index(now, graph, at, root) # NoGraph, NEW e \in Entries(now, at, root)
  PROVE  /\ Charted(docs, Index(now, graph, at, root), root.doc, e.at)
         /\ InResource(Index(now, graph, at, root), PlaceAt(docs, root.doc, e.at))
<1> DEFINE larger == Index(now, graph, at, root)
           d == root.doc
<1>1. /\ d \in DOMAIN docs /\ root.at \in DOMAIN docs[d].nodes /\ at \in DOMAIN docs[d].nodes
      /\ root = PlaceAt(docs, d, root.at) /\ root.base = Lexical(docs, d, root.at)
      /\ IsPrefix(root.at, at)
  BY DEF Indexable, IsLocated, PlaceAt
<1>2. e.at \in DOMAIN docs[d].nodes /\ IsPrefix(at, e.at) /\ e.at \in Descendants(now, d, at)
  BY EntriesAre DEF Entries
<1>3. /\ root.at \in Seq(Steps(docs)) /\ at \in Seq(Steps(docs)) /\ e.at \in Seq(Steps(docs))
      /\ \A n \in 0..Len(e.at) : SubSeq(e.at, 1, n) \in DOMAIN docs[d].nodes
  BY <1>1, <1>2, PointersAre
<1>4. /\ Len(root.at) \in 0..Len(at) /\ Len(at) \in 0..Len(e.at)
      /\ Len(at) \in Nat /\ Len(e.at) \in Nat
      /\ root.at = SubSeq(at, 1, Len(root.at)) /\ at = SubSeq(e.at, 1, Len(at))
      /\ \A k \in 0..Len(at) : SubSeq(at, 1, k) = SubSeq(e.at, 1, k)
  BY <1>1, <1>2, <1>3, LongerPrefix
<1>5. Len(root.at) \in 0..Len(e.at) /\ SubSeq(e.at, 1, Len(root.at)) = root.at
  BY <1>4
<1>6. Aliased(docs, larger, d, root.at)
  <2>1. Extends(graph, larger)
    BY IndexedAs
  <2> HIDE DEF larger
  <2> QED
    BY <1>1, <2>1 DEF Extends, Aliased
<1>7. ASSUME NEW n \in Len(root.at) + 1..Len(e.at),
             Identified(docs, d, SubSeq(e.at, 1, n))
      PROVE  Aliased(docs, larger, d, SubSeq(e.at, 1, n))
  <2> DEFINE cut == SubSeq(e.at, 1, n)
  <2>1. n \in 0..Len(e.at) /\ cut \in Seq(Steps(docs)) /\ Len(cut) = n
        /\ \A k \in 0..n : SubSeq(cut, 1, k) = SubSeq(e.at, 1, k)
    BY <1>3, <1>4, PrefixesAre
  <2>2. n >= Len(at)
    <3> SUFFICES ASSUME n < Len(at) PROVE FALSE
      BY <1>4, <2>1
    <3>1. n \in Len(root.at) + 1..Len(at) - 1 /\ SubSeq(at, 1, n) = cut
      BY <1>4
    <3> QED
      BY <1>7, <3>1 DEF Indexable
  <2>3. cut \in Descendants(now, d, at)
    <3>1. cut \in DOMAIN now[d].nodes
      BY <1>1, <1>3, <2>1, AgreeingNode
    <3>2. IsPrefix(at, cut)
      <4>1. at = SubSeq(cut, 1, Len(at)) /\ Len(at) <= Len(cut)
        BY <1>4, <2>1, <2>2
      <4> QED
        BY <1>3, <2>1, <4>1, PrefixIsCut
    <3>3. \A i \in Len(at) + 1..Len(cut) : cut[i][1] \in SchemaKeywords
      <4> TAKE i \in Len(at) + 1..Len(cut)
      <4>1. i \in 1..n /\ i \in Len(at) + 1..Len(e.at)
        BY <1>4, <2>1
      <4>2. cut[i] = e.at[i]
        BY <1>3, <1>4, <2>1, <4>1, SubSeqProperties
      <4> QED
        BY <1>2, <4>1, <4>2 DEF Descendants
    <3> QED
      BY <3>1, <3>2, <3>3 DEF Descendants
  <2>4. PICK f \in Entries(now, at, root) : f.at = cut
    <3> HIDE DEF cut
    <3> QED
      BY <2>3, EntryAt, SMTT(30)
  <2>5. cut # <<>>
    BY <1>4, <2>1
  <2> QED
    BY <1>7, <2>4, <2>5, IndexedAliases
<1>8. Charted(docs, larger, d, e.at)
  <2> HIDE DEF larger
  <2> QED
    BY <1>5, <1>6, <1>7 DEF Charted
<1>9. PICK m \in 0..Len(e.at) :
        /\ Aliased(docs, larger, d, SubSeq(e.at, 1, m))
        /\ Lexical(docs, d, e.at) = Lexical(docs, d, SubSeq(e.at, 1, m))
  <2> HIDE DEF larger, d
  <2>1. e.at \in DOMAIN docs[d].nodes /\ d \in DOMAIN docs
    BY <1>1, <1>2
  <2>2. \E m \in 0..Len(e.at) :
          /\ Aliased(docs, larger, d, SubSeq(e.at, 1, m))
          /\ Lexical(docs, d, e.at) = Lexical(docs, d, SubSeq(e.at, 1, m))
          /\ \A n \in m + 1..Len(e.at) : ~Identified(docs, d, SubSeq(e.at, 1, n))
    BY <1>8, <2>1, ChartedBase
  <2> QED
    BY <2>2
<1>10. InResource(larger, PlaceAt(docs, d, e.at))
  <2> HIDE DEF larger
  <2>1. IsPrefix(SubSeq(e.at, 1, m), e.at)
    BY <1>3, PrefixesAre
  <2>2. /\ PlaceAt(docs, d, e.at).base \in DOMAIN larger.aliases
        /\ larger.aliases[PlaceAt(docs, d, e.at).base] = PlaceAt(docs, d, SubSeq(e.at, 1, m))
    BY <1>9 DEF PlaceAt, Aliased
  <2> QED
    BY <2>1, <2>2 DEF InResource, PlaceAt
<1> QED
  BY <1>8, <1>10

LEMMA IndexKeeps ==
  ASSUME NEW docs, WellFormed(docs), NEW now, Agrees(docs, now),
         NEW graph, GraphInv(docs, graph), NEW root, NEW at, Indexable(docs, at, root),
         root.base \in DOMAIN graph.aliases, graph.aliases[root.base] = root,
         Index(now, graph, at, root) # NoGraph
  PROVE  /\ GraphInv(docs, Index(now, graph, at, root))
         /\ Extends(graph, Index(now, graph, at, root))
         /\ at # <<>> /\ Identified(docs, root.doc, at) =>
              Aliased(docs, Index(now, graph, at, root), root.doc, at)
<1> DEFINE larger == Index(now, graph, at, root)
           d == root.doc
<1>1. /\ Extends(graph, larger)
      /\ \A uri \in DOMAIN larger.aliases :
           \/ uri \in DOMAIN graph.aliases
           \/ \E r \in NewRoots(now, graph, at, root) : uri = r.base
      /\ \A key \in DOMAIN larger.anchors :
           \/ key \in DOMAIN graph.anchors
           \/ \E n \in NewAnchors(now, graph, at, root) :
                key = <<n[1].base, n[2]>> /\ larger.anchors[key] = n[1]
      /\ larger.indexed = graph.indexed \cup Fresh(now, graph, at, root)
  BY IndexedAs
<1>2. \A e \in Entries(now, at, root) :
        /\ e.doc = d /\ e.at \in DOMAIN docs[d].nodes
        /\ Own(now, root, e) = PlaceAt(docs, d, e.at)
        /\ StartsResource(now, root, e) <=> e.at # <<>> /\ Identified(docs, d, e.at)
        /\ e.at # <<>> /\ Identified(docs, d, e.at) => Aliased(docs, larger, d, e.at)
        /\ InResource(larger, PlaceAt(docs, d, e.at))
  BY EntriesAre, IndexedAliases, IndexedCharted
<1>3. d \in DOMAIN docs
  BY DEF Indexable, IsLocated
<1> HIDE DEF larger
<1>4. ASSUME NEW uri \in DOMAIN larger.aliases
      PROVE  IsResource(docs, larger, uri, larger.aliases[uri])
  <2>1. CASE uri \in DOMAIN graph.aliases
    <3>1. IsResource(docs, graph, uri, graph.aliases[uri])
      BY <2>1 DEF GraphInv
    <3> QED
      BY <1>1, <2>1, <3>1 DEF IsResource, Extends, Aliased
  <2>2. CASE uri \notin DOMAIN graph.aliases
    <3>1. PICK r \in NewRoots(now, graph, at, root) : uri = r.base
      BY <1>1, <2>2
    <3>2. PICK e \in Entries(now, at, root) :
            r = Own(now, root, e) /\ StartsResource(now, root, e)
      BY <3>1 DEF NewRoots, Fresh
    <3>3. /\ r = PlaceAt(docs, d, e.at) /\ e.at # <<>> /\ Identified(docs, d, e.at)
          /\ Aliased(docs, larger, d, e.at) /\ e.at \in DOMAIN docs[d].nodes
      BY <1>2, <3>2
    <3>4. uri = Lexical(docs, d, e.at) /\ r.doc = d /\ r.at = e.at
      BY <3>1, <3>3 DEF PlaceAt
    <3>5. larger.aliases[uri] = r
      BY <3>3, <3>4 DEF Aliased
    <3> QED
      BY <1>3, <3>3, <3>4, <3>5 DEF IsResource, IsLocated, IsIdentity
  <2> QED
    BY <2>1, <2>2
<1>5. ASSUME NEW key \in DOMAIN larger.anchors
      PROVE  IsAnchor(docs, larger, key, larger.anchors[key])
  <2>1. CASE key \in DOMAIN graph.anchors
    <3>1. IsAnchor(docs, graph, key, graph.anchors[key])
      BY <2>1 DEF GraphInv
    <3> QED
      BY <1>1, <2>1, <3>1 DEF IsAnchor, InResource, Extends
  <2>2. CASE key \notin DOMAIN graph.anchors
    <3>1. PICK n \in NewAnchors(now, graph, at, root) :
            key = <<n[1].base, n[2]>> /\ larger.anchors[key] = n[1]
      BY <1>1, <2>2
    <3>2. PICK e \in Entries(now, at, root) :
            /\ Has(Node(now, e.doc, e.at), "anchors")
            /\ n = <<Own(now, root, e), n[2]>>
            /\ n[2] \in Node(now, e.doc, e.at).anchors
      BY <3>1 DEF NewAnchors, Fresh
    <3>3. /\ n[1] = PlaceAt(docs, d, e.at) /\ e.doc = d /\ e.at \in DOMAIN docs[d].nodes
          /\ InResource(larger, n[1])
      BY <1>2, <3>2
    <3>4. n[1].doc = d /\ n[1].at = e.at /\ IsLocated(docs, n[1])
      BY <1>3, <3>3 DEF IsLocated, PlaceAt
    <3>5. Has(Node(docs, d, e.at), "anchors") /\ n[2] \in Node(docs, d, e.at).anchors
      <4>1. Has(Node(docs, d, e.at), "anchors")
        BY <1>3, <3>2, <3>3, AgreeingNode
      <4>2. Node(now, d, e.at)["anchors"] = Node(docs, d, e.at)["anchors"]
        BY <1>3, <3>3, <4>1, AgreeingNode
      <4> QED
        BY <3>2, <3>3, <4>1, <4>2
    <3>6. key[1] = n[1].base /\ key[2] = n[2]
      BY <3>1
    <3> QED
      BY <3>1, <3>3, <3>4, <3>5, <3>6 DEF IsAnchor
  <2> QED
    BY <2>1, <2>2
<1>6. ASSUME NEW e \in larger.indexed, e.at # <<>>, Identified(docs, e.doc, e.at)
      PROVE  Aliased(docs, larger, e.doc, e.at)
  <2>1. CASE e \in graph.indexed
    <3>1. Aliased(docs, graph, e.doc, e.at)
      BY <1>6, <2>1 DEF GraphInv
    <3> QED
      BY <1>1, <3>1 DEF Aliased, Extends
  <2>2. CASE e \in Entries(now, at, root)
    BY <1>2, <1>6, <2>2
  <2> QED
    BY <1>1, <2>1, <2>2 DEF Fresh
<1>7. GraphInv(docs, larger)
  BY <1>4, <1>5, <1>6 DEF GraphInv
<1>8. ASSUME at # <<>>, Identified(docs, d, at) PROVE Aliased(docs, larger, d, at)
  <2>1. at \in Descendants(now, d, at)
    <3>1. at \in DOMAIN docs[d].nodes /\ at \in Seq(Steps(docs)) /\ Len(at) \in Nat
      BY <1>3, PointersAre DEF Indexable
    <3>2. IsPrefix(at, at)
      BY <3>1, PrefixIsCut, SubSeqFull
    <3>3. at \in DOMAIN now[d].nodes
      BY <1>3, <3>1, AgreeingNode
    <3> QED
      BY <3>1, <3>2, <3>3 DEF Descendants
  <2>2. PICK e \in Entries(now, at, root) : e.at = at
    BY <2>1, EntryAt
  <2> QED
    BY <1>2, <1>8, <2>2
<1> QED
  BY <1>1, <1>7, <1>8 DEF larger

-----------------------------------------------------------------------------
LEMMA ExtendsIsTransitive ==
  ASSUME NEW f, NEW g, NEW h, Extends(f, g), Extends(g, h)
  PROVE  Extends(f, h)
BY DEF Extends

LEMMA AliasedIsKept ==
  ASSUME NEW docs, NEW graph, NEW larger, Extends(graph, larger), NEW d, NEW at,
         Aliased(docs, graph, d, at)
  PROVE  Aliased(docs, larger, d, at)
BY DEF Extends, Aliased

LEMMA ChartedIsKept ==
  ASSUME NEW docs, NEW graph, NEW larger, Extends(graph, larger), NEW d, NEW at,
         Charted(docs, graph, d, at)
  PROVE  Charted(docs, larger, d, at)
BY AliasedIsKept DEF Charted

(* A schema whose own identity and those below it are known; one of the    *)
(* dialect is not, and what is known as a resource is known with all below *)
(* it.                                                                     *)
Covered(docs, graph, d, at) ==
  \A below \in Descendants(docs, d, at) :
    below # <<>> /\ Identified(docs, d, below) => Aliased(docs, graph, d, below)

Spread(docs, graph) ==
  \A uri \in DOMAIN graph.aliases :
    /\ uri \notin BuiltIn
    /\ Covered(docs, graph, graph.aliases[uri].doc, graph.aliases[uri].at)

LEMMA CoveredIsKept ==
  ASSUME NEW docs, NEW graph, NEW larger, Extends(graph, larger), NEW d, NEW at,
         Covered(docs, graph, d, at)
  PROVE  Covered(docs, larger, d, at)
BY AliasedIsKept DEF Covered

(* What is below what is below.                                            *)
LEMMA DescendantsGoOn ==
  ASSUME NEW docs, WellFormed(docs), NEW d \in DOMAIN docs, NEW at \in DOMAIN docs[d].nodes,
         NEW below \in Descendants(docs, d, at)
  PROVE  Descendants(docs, d, below) \subseteq Descendants(docs, d, at)
<1> SUFFICES ASSUME NEW further \in Descendants(docs, d, below)
             PROVE  further \in Descendants(docs, d, at)
  OBVIOUS
<1>1. /\ below \in DOMAIN docs[d].nodes /\ IsPrefix(at, below)
      /\ \A i \in Len(at) + 1..Len(below) : below[i][1] \in SchemaKeywords
      /\ further \in DOMAIN docs[d].nodes /\ IsPrefix(below, further)
      /\ \A i \in Len(below) + 1..Len(further) : further[i][1] \in SchemaKeywords
  BY DEF Descendants
<1>2. /\ at \in Seq(Steps(docs)) /\ below \in Seq(Steps(docs)) /\ further \in Seq(Steps(docs))
  BY <1>1, PointersAre
<1>3. /\ Len(at) \in 0..Len(below) /\ Len(below) \in 0..Len(further)
      /\ Len(at) \in Nat /\ Len(below) \in Nat /\ Len(further) \in Nat
      /\ at = SubSeq(below, 1, Len(at)) /\ below = SubSeq(further, 1, Len(below))
  BY <1>1, <1>2, LongerPrefix
<1>4. at = SubSeq(further, 1, Len(at))
  BY <1>1, <1>2, <1>3, LongerPrefix
<1>5. IsPrefix(at, further)
  BY <1>2, <1>3, <1>4, PrefixIsCut
<1>6. \A i \in 1..Len(below) : further[i] = below[i]
  BY <1>2, <1>3, SubSeqProperties
<1>7. \A i \in Len(at) + 1..Len(further) : further[i][1] \in SchemaKeywords
  <2> TAKE i \in Len(at) + 1..Len(further)
  <2>1. CASE i <= Len(below)
    <3>1. i \in Len(at) + 1..Len(below) /\ i \in 1..Len(below)
      BY <1>3, <2>1
    <3> QED
      BY <1>1, <1>6, <3>1
  <2>2. CASE ~(i <= Len(below))
    <3>1. i \in Len(below) + 1..Len(further)
      BY <1>3, <2>2
    <3> QED
      BY <1>1, <3>1
  <2> QED
    BY <2>1, <2>2
<1> QED
  BY <1>1, <1>5, <1>7 DEF Descendants

LEMMA ItselfBelow ==
  ASSUME NEW docs, WellFormed(docs), NEW d \in DOMAIN docs, NEW at \in DOMAIN docs[d].nodes
  PROVE  at \in Descendants(docs, d, at)
<1>1. at \in Seq(Steps(docs)) /\ Len(at) \in Nat
  BY PointersAre
<1>2. IsPrefix(at, at)
  BY <1>1, PrefixIsCut, SubSeqFull
<1> QED
  BY <1>1, <1>2 DEF Descendants

(* Indexing covers the place that is indexed, and what it makes known.     *)
LEMMA IndexSpreads ==
  ASSUME NEW docs, WellFormed(docs), NEW now, Agrees(docs, now),
         NEW graph, GraphInv(docs, graph), NEW root, NEW at, Indexable(docs, at, root),
         root.base \in DOMAIN graph.aliases, graph.aliases[root.base] = root,
         Index(now, graph, at, root) # NoGraph,
         \A uri \in DOMAIN graph.aliases :
           /\ uri \notin BuiltIn
           /\ \/ Covered(docs, graph, graph.aliases[uri].doc, graph.aliases[uri].at)
              \/ graph.aliases[uri] = PlaceAt(docs, root.doc, at)
  PROVE  /\ Spread(docs, Index(now, graph, at, root))
         /\ Covered(docs, Index(now, graph, at, root), root.doc, at)
<1> DEFINE larger == Index(now, graph, at, root)
           d == root.doc
<1>1. /\ Extends(graph, larger)
      /\ \A r \in NewRoots(now, graph, at, root) :
           larger.aliases[r.base] = r /\ r.base \notin BuiltIn
      /\ \A uri \in DOMAIN larger.aliases :
           \/ uri \in DOMAIN graph.aliases
           \/ \E r \in NewRoots(now, graph, at, root) : uri = r.base
  BY IndexedAs
<1>2. \A e \in Entries(now, at, root) :
        /\ e.doc = d /\ e.at \in Descendants(now, d, at)
        /\ Own(now, root, e) = PlaceAt(docs, d, e.at)
        /\ e.at # <<>> /\ Identified(docs, d, e.at) => Aliased(docs, larger, d, e.at)
  BY EntriesAre, IndexedAliases DEF Entries
<1>3. d \in DOMAIN docs /\ at \in DOMAIN docs[d].nodes
  BY DEF Indexable, IsLocated
<1>4. Descendants(now, d, at) = Descendants(docs, d, at)
  BY <1>3, AgreeingNode DEF Descendants
<1>7. ASSUME NEW below \in Descendants(now, root.doc, at)
      PROVE  \E e \in Entries(now, at, root) : e.at = below
  BY <1>7, EntryAt
<1> HIDE DEF larger
<1>5. Covered(docs, larger, d, at)
  <2> SUFFICES ASSUME NEW below \in Descendants(docs, d, at), below # <<>>,
                      Identified(docs, d, below)
               PROVE  Aliased(docs, larger, d, below)
    BY DEF Covered
  <2>1. below \in Descendants(now, root.doc, at)
    BY <1>4
  <2>2. PICK e \in Entries(now, at, root) : e.at = below
    BY <1>7, <2>1
  <2> QED
    BY <1>2, <2>2
<1>6. ASSUME NEW uri \in DOMAIN larger.aliases
      PROVE  /\ uri \notin BuiltIn
             /\ Covered(docs, larger, larger.aliases[uri].doc, larger.aliases[uri].at)
  <2>1. CASE uri \in DOMAIN graph.aliases
    <3>1. larger.aliases[uri] = graph.aliases[uri]
      BY <1>1, <2>1 DEF Extends
    <3>2. CASE graph.aliases[uri] = PlaceAt(docs, d, at)
      <4>1. graph.aliases[uri].doc = d /\ graph.aliases[uri].at = at
        BY <3>2 DEF PlaceAt
      <4> QED
        BY <1>5, <2>1, <3>1, <4>1
    <3> QED
      BY <1>1, <2>1, <3>1, <3>2, CoveredIsKept
  <2>2. CASE uri \notin DOMAIN graph.aliases
    <3>1. PICK r \in NewRoots(now, graph, at, root) : uri = r.base
      BY <1>1, <2>2
    <3>2. PICK e \in Entries(now, at, root) : r = Own(now, root, e)
      BY <3>1 DEF NewRoots, Fresh
    <3>3. r = PlaceAt(docs, d, e.at) /\ e.at \in Descendants(docs, d, at)
      BY <1>2, <1>4, <3>2
    <3>4. r.doc = d /\ r.at = e.at
      BY <3>3 DEF PlaceAt
    <3>5. Descendants(docs, d, e.at) \subseteq Descendants(docs, d, at)
      BY <1>3, <3>3, DescendantsGoOn
    <3>6. Covered(docs, larger, d, e.at)
      BY <1>5, <3>5 DEF Covered
    <3> QED
      BY <1>1, <3>1, <3>4, <3>6
  <2> QED
    BY <2>1, <2>2
<1> QED
  BY <1>5, <1>6 DEF Spread, larger

-----------------------------------------------------------------------------
LEMMA IndexStepsAre ==
  ASSUME NEW docs, NEW graph, NEW target
  PROVE  /\ IndexSteps(docs, graph, target)[0].graph = graph
         /\ IndexSteps(docs, graph, target)[0].root = graph.aliases[target.base]
         /\ \A n \in Nat \ {0} :
              IndexSteps(docs, graph, target)[n] =
                IndexStep(docs, target,
                          SubSeq(target.at, 1, Len(graph.aliases[target.base].at) + n),
                          IndexSteps(docs, graph, target)[n - 1])
<1> DEFINE first == graph.aliases[target.base]
           begin == [graph |-> graph, root |-> first]
           After(b, n) == IndexStep(docs, target, SubSeq(target.at, 1, Len(first.at) + n), b)
           Value(f, n) == IF n = 0 THEN begin ELSE After(f[n - 1], n)
           Upto(f, n) == \A k \in 0..n : f[k] = Value(f, k)
<1> HIDE DEF first, begin, After, Upto
<1>1. \A n \in Nat : \E f : Upto(f, n)
  <2> SUFFICES ASSUME NEW bad, bad = {n \in Nat : ~\E f : Upto(f, n)}, bad # {}
               PROVE  FALSE
    OBVIOUS
  <2>1. PICK n \in bad : \A k \in bad : n <= k
    BY LeastElement
  <2>4. n \in Nat
    BY <2>1
  <2>2. CASE n = 0
    <3>1. Upto([k \in {0} |-> begin], 0)
      BY DEF Upto
    <3> QED
      BY <2>1, <2>2, <3>1
  <2>3. CASE n # 0
    <3>1. n - 1 \in Nat /\ n - 1 \notin bad
      BY <2>1, <2>4, <2>3
    <3>2. PICK f : Upto(f, n - 1)
      BY <3>1
    <3> DEFINE g == [k \in 0..n |-> IF k < n THEN f[k] ELSE After(f[n - 1], n)]
    <3>3. ASSUME NEW k \in 0..n PROVE g[k] = Value(g, k)
      <4>1. CASE k < n
        <5>1. k \in 0..n - 1 /\ f[k] = Value(f, k)
          BY <2>4, <3>2, <4>1 DEF Upto
        <5>2. g[k] = f[k]
          BY <4>1
        <5>3. k # 0 => k - 1 \in 0..n /\ k - 1 < n /\ g[k - 1] = f[k - 1]
          BY <2>4, <4>1
        <5> QED
          BY <5>1, <5>2, <5>3
      <4>2. CASE k = n
        <5>1. g[n] = After(f[n - 1], n) /\ g[n - 1] = f[n - 1]
          BY <2>4, <2>3
        <5> QED
          BY <2>3, <4>2, <5>1
      <4> QED
        BY <2>4, <4>1, <4>2
    <3> HIDE DEF g
    <3> QED
      BY <2>1, <3>3 DEF Upto
  <2> QED
    BY <2>2, <2>3
<1>2. ASSUME NEW n \in Nat, NEW f, Upto(f, n), NEW g, Upto(g, n)
      PROVE  \A k \in 0..n : f[k] = g[k]
  <2> SUFFICES ASSUME NEW bad, bad = {k \in 0..n : f[k] # g[k]}, bad # {}
               PROVE  FALSE
    OBVIOUS
  <2>1. PICK k \in bad : \A j \in bad : k <= j
    BY LeastElement
  <2>2. k # 0 => k - 1 \in 0..n /\ k - 1 \notin bad
    BY <2>1
  <2>3. k # 0 => f[k - 1] = g[k - 1]
    BY <2>2
  <2> QED
    BY <1>2, <2>1, <2>3 DEF Upto
<1> DEFINE On(n) == CHOOSE f : Upto(f, n)
           whole == [n \in Nat |-> On(n)[n]]
<1>3. \A n \in Nat : Upto(On(n), n)
  BY <1>1
<1> HIDE DEF On
<1>4. ASSUME NEW n \in Nat PROVE whole[n] = Value(whole, n)
  <2>1. CASE n = 0
    BY <1>3, <2>1 DEF Upto
  <2>2. CASE n # 0
    <3>1. n - 1 \in Nat /\ n - 1 \in 0..n - 1 /\ Upto(On(n), n - 1)
      BY <1>3, <2>2 DEF Upto
    <3>2. On(n)[n - 1] = On(n - 1)[n - 1]
      BY <1>2, <1>3, <3>1
    <3>3. On(n)[n] = After(On(n)[n - 1], n)
      BY <1>3, <2>2 DEF Upto
    <3> QED
      BY <2>2, <3>1, <3>2, <3>3
  <2> QED
    BY <2>1, <2>2
<1>5. whole = [n \in Nat |-> Value(whole, n)]
  BY <1>4
<1> DEFINE all == CHOOSE f : f = [n \in Nat |-> Value(f, n)]
<1>6. all = [n \in Nat |-> Value(all, n)]
  <2> HIDE DEF whole, Value
  <2> QED
    BY <1>5
<1>7. IndexSteps(docs, graph, target) = all
  BY DEF IndexSteps, After, first, begin
<1>8. \A n \in Nat : all[n] = Value(all, n)
  <2> HIDE DEF all, Value
  <2> QED
    BY <1>6
<1> HIDE DEF all, whole, On
<1>9. all[0] = begin
  <2> HIDE DEF begin, After
  <2> QED
    BY <1>8
<1>10. ASSUME NEW n \in Nat \ {0}
       PROVE  all[n] = IndexStep(docs, target, SubSeq(target.at, 1, Len(first.at) + n), all[n - 1])
  <2>1. all[n] = After(all[n - 1], n)
    <3> HIDE DEF begin, After
    <3> QED
      BY <1>8
  <2> QED
    BY <2>1 DEF After
<1> QED
  BY <1>7, <1>9, <1>10 DEF first, begin

(* On the way to a target: where it is, and in which resource.             *)
OnTheWay(docs, graph, target, from, now, state) ==
  LET cut(n) == SubSeq(target.at, 1, n)
  IN state.graph # NoGraph =>
       /\ GraphInv(docs, state.graph) /\ Extends(graph, state.graph)
       /\ \E m \in from..now :
            /\ state.root = PlaceAt(docs, target.doc, cut(m))
            /\ Aliased(docs, state.graph, target.doc, cut(m))
            /\ \A k \in m + 1..now : ~Identified(docs, target.doc, cut(k))
       /\ Aliased(docs, state.graph, target.doc, cut(from))
       /\ \A k \in from + 1..now :
            Identified(docs, target.doc, cut(k)) => Aliased(docs, state.graph, target.doc, cut(k))
       /\ Spread(docs, graph) =>
            /\ Spread(docs, state.graph)
            /\ from < now /\ cut(now) = target.at => Covered(docs, state.graph, target.doc, target.at)

LEMMA IndexStepGoesOn ==
  ASSUME NEW docs, WellFormed(docs), NEW now, Agrees(docs, now), NEW graph,
         NEW target, target.doc \in DOMAIN docs,
         target.at \in DOMAIN docs[target.doc].nodes,
         NEW from \in Nat, NEW n \in from + 1..Len(target.at), NEW state,
         OnTheWay(docs, graph, target, from, n - 1, state)
  PROVE  OnTheWay(docs, graph, target, from, n,
                  IndexStep(now, target, SubSeq(target.at, 1, n), state))
<1> DEFINE d == target.doc
           cut(k) == SubSeq(target.at, 1, k)
           at == cut(n)
           schema == Node(now, d, at)
           result == IF Has(schema, "id") \/ at = target.at
                     THEN Index(now, state.graph, at, state.root) ELSE state.graph
           after == IndexStep(now, target, at, state)
<1>1. /\ Len(target.at) \in Nat /\ target.at \in Seq(Steps(docs))
      /\ \A k \in 0..Len(target.at) : cut(k) \in DOMAIN docs[d].nodes
  BY PointersAre
<1>2. /\ n \in 0..Len(target.at) /\ n - 1 \in 0..Len(target.at) /\ n \in Nat
      /\ at \in Seq(Steps(docs)) /\ Len(at) = n
      /\ \A k \in 0..n : SubSeq(at, 1, k) = cut(k)
  BY <1>1, PrefixesAre
<1>3. after = IF state.graph = NoGraph \/ result = NoGraph
              THEN [graph |-> NoGraph, root |-> state.root]
              ELSE [ graph |-> result,
                     root  |-> IF Has(schema, "id")
                               THEN result.aliases[ResolveUri(state.root.base, schema.id)]
                               ELSE state.root ]
  BY DEF IndexStep
<1>4. SUFFICES ASSUME state.graph # NoGraph, result # NoGraph
               PROVE  OnTheWay(docs, graph, target, from, n, after)
  <2>1. CASE state.graph = NoGraph \/ result = NoGraph
    <3> HIDE DEF result, after
    <3>1. after.graph = NoGraph
      BY <1>3, <2>1
    <3> QED
      BY <3>1 DEF OnTheWay, after
  <2> QED
    BY <1>4, <2>1
<1>5. /\ after.graph = result
      /\ after.root = IF Has(schema, "id")
                      THEN result.aliases[ResolveUri(state.root.base, schema.id)]
                      ELSE state.root
  <2> HIDE DEF result, after
  <2> QED
    BY <1>3, <1>4
<1> HIDE DEF after
<1>6. /\ GraphInv(docs, state.graph) /\ Extends(graph, state.graph)
      /\ Aliased(docs, state.graph, d, cut(from))
      /\ \A k \in from + 1..n - 1 : Identified(docs, d, cut(k)) => Aliased(docs, state.graph, d, cut(k))
  BY <1>4 DEF OnTheWay
<1>7. PICK m \in from..n - 1 :
        /\ state.root = PlaceAt(docs, d, cut(m))
        /\ Aliased(docs, state.graph, d, cut(m))
        /\ \A k \in m + 1..n - 1 : ~Identified(docs, d, cut(k))
  BY <1>4 DEF OnTheWay
<1>8. /\ m \in 0..n /\ m \in 0..Len(target.at) /\ n - 1 \in m..Len(target.at)
  BY <1>1, <1>2
<1>9. Has(schema, "id") <=> Identified(docs, d, at)
  BY <1>1, <1>2, AgreeingNode DEF Identified
<1>10. Indexable(docs, at, state.root)
  <2>1. state.root.doc = d /\ state.root.at = cut(m) /\ IsLocated(docs, state.root)
    BY <1>1, <1>7, <1>8 DEF PlaceAt, IsLocated
  <2>2. IsPrefix(cut(m), at) /\ Len(cut(m)) = m /\ at # cut(m)
    <3>1. Len(cut(m)) = m /\ SubSeq(at, 1, m) = cut(m)
      BY <1>1, <1>2, <1>8, PrefixesAre
    <3>2. IsPrefix(SubSeq(at, 1, m), at)
      BY <1>2, <1>8, PrefixesAre
    <3>3. m # n
      BY <1>2
    <3> HIDE DEF at, cut
    <3> QED
      BY <1>2, <3>1, <3>2, <3>3
  <2>3. \A k \in m + 1..Len(at) - 1 : ~Identified(docs, d, SubSeq(at, 1, k))
    <3> TAKE k \in m + 1..Len(at) - 1
    <3>1. k \in m + 1..n - 1 /\ k \in 0..n
      BY <1>2, <1>8
    <3> QED
      BY <1>2, <1>7, <3>1
  <2> HIDE DEF at
  <2> QED
    BY <1>1, <1>2, <2>1, <2>2, <2>3 DEF Indexable, at
<1>11. state.root.base \in DOMAIN state.graph.aliases
       /\ state.graph.aliases[state.root.base] = state.root
  <2>1. state.root.base = Lexical(docs, d, cut(m))
    BY <1>7 DEF PlaceAt
  <2> QED
    BY <1>7, <2>1 DEF Aliased
<1>12. at # <<>>
  BY <1>2
<1>13. /\ GraphInv(docs, result) /\ Extends(state.graph, result)
       /\ Identified(docs, d, at) => Aliased(docs, result, d, at)
  <2>1. CASE Has(schema, "id") \/ at = target.at
    <3>1. result = Index(now, state.graph, at, state.root)
      BY <2>1
    <3>2. state.root.doc = d
      BY <1>7 DEF PlaceAt
    <3> HIDE DEF result, at, d
    <3>3. Index(now, state.graph, at, state.root) # NoGraph
      BY <1>4, <3>1
    <3> QED
      BY <1>6, <1>10, <1>11, <1>12, <3>1, <3>2, <3>3, IndexKeeps
  <2>2. CASE ~(Has(schema, "id") \/ at = target.at)
    BY <1>6, <1>9, <2>2 DEF Extends
  <2> QED
    BY <2>1, <2>2
<1>17. ASSUME Spread(docs, graph)
       PROVE  Spread(docs, result) /\ (at = target.at => Covered(docs, result, d, target.at))
  <2>1. Spread(docs, state.graph)
    BY <1>4, <1>17 DEF OnTheWay
  <2>2. CASE Has(schema, "id") \/ at = target.at
    <3>1. result = Index(now, state.graph, at, state.root)
      BY <2>2
    <3>2. state.root.doc = d
      BY <1>7 DEF PlaceAt
    <3> HIDE DEF result, at, d
    <3>3. Index(now, state.graph, at, state.root) # NoGraph
      BY <1>4, <3>1
    <3>4. \A uri \in DOMAIN state.graph.aliases :
            /\ uri \notin BuiltIn
            /\ Covered(docs, state.graph, state.graph.aliases[uri].doc, state.graph.aliases[uri].at)
      BY <2>1 DEF Spread
    <3>5. Spread(docs, result)
      BY <1>6, <1>10, <1>11, <3>1, <3>3, <3>4, IndexSpreads
    <3>6. Covered(docs, result, d, at)
      BY <1>6, <1>10, <1>11, <3>1, <3>2, <3>3, <3>4, IndexSpreads
    <3> QED
      BY <3>5, <3>6
  <2>3. CASE ~(Has(schema, "id") \/ at = target.at)
    BY <2>1, <2>3
  <2> QED
    BY <2>2, <2>3
<1> HIDE DEF result
<1>14. Extends(graph, result)
  BY <1>6, <1>13, ExtendsIsTransitive
<1>15. /\ Aliased(docs, result, d, cut(from)) /\ Aliased(docs, result, d, cut(m))
       /\ \A k \in from + 1..n : Identified(docs, d, cut(k)) => Aliased(docs, result, d, cut(k))
  <2>1. \A k \in from + 1..n : k = n \/ k \in from + 1..n - 1
    BY <1>2
  <2> QED
    BY <1>6, <1>7, <1>13, <2>1, AliasedIsKept
<1>16. \E l \in from..n :
         /\ after.root = PlaceAt(docs, d, cut(l))
         /\ Aliased(docs, result, d, cut(l))
         /\ \A k \in l + 1..n : ~Identified(docs, d, cut(k))
  <2>1. CASE Identified(docs, d, at)
    <3>1. Lexical(docs, d, cut(n - 1)) = Lexical(docs, d, cut(m))
      BY <1>1, <1>7, <1>8, LexicalUnidentified
    <3>2. Lexical(docs, d, at) = ResolveUri(Lexical(docs, d, cut(m)), schema.id)
      <4>1. n \in 1..Len(target.at)
        BY <1>1
      <4>2. Lexical(docs, d, at) = BaseIn(Node(docs, d, at), Lexical(docs, d, cut(n - 1)))
        BY <4>1, LexicalStep
      <4>3. Node(docs, d, at)["id"] = schema["id"]
        BY <1>1, <1>2, <2>1, AgreeingNode DEF Identified
      <4> QED
        BY <2>1, <3>1, <4>2, <4>3 DEF BaseIn, Identified
    <3>3. state.root.base = Lexical(docs, d, cut(m))
      BY <1>7 DEF PlaceAt
    <3>4. after.root = result.aliases[Lexical(docs, d, at)]
      BY <1>5, <1>9, <2>1, <3>2, <3>3
    <3>5. after.root = PlaceAt(docs, d, at) /\ Aliased(docs, result, d, at)
      BY <1>13, <2>1, <3>4 DEF Aliased
    <3>6. n \in from..n /\ \A k \in n + 1..n : FALSE
      BY <1>2
    <3> QED
      BY <3>5, <3>6
  <2>2. CASE ~Identified(docs, d, at)
    <3>1. after.root = PlaceAt(docs, d, cut(m))
      BY <1>5, <1>7, <1>9, <2>2
    <3>2. m \in from..n /\ \A k \in m + 1..n : k = n \/ k \in m + 1..n - 1
      BY <1>2
    <3> QED
      BY <1>7, <1>15, <2>2, <3>1, <3>2
  <2> QED
    BY <2>1, <2>2
<1> QED
  BY <1>5, <1>13, <1>14, <1>15, <1>16, <1>17 DEF OnTheWay

(* The place a reference leads to, and everything on the way to it, is     *)
(* known from then on.                                                     *)
LEMMA IndexTargetKeeps ==
  ASSUME NEW docs, WellFormed(docs), NEW now, Agrees(docs, now),
         NEW graph, GraphInv(docs, graph), NEW target, target.doc \in DOMAIN docs,
         target.at \in DOMAIN docs[target.doc].nodes, InResource(graph, target),
         IndexTarget(now, graph, target) # NoGraph
  PROVE  /\ GraphInv(docs, IndexTarget(now, graph, target))
         /\ Extends(graph, IndexTarget(now, graph, target))
         /\ Charted(docs, IndexTarget(now, graph, target), target.doc, target.at)
         /\ Spread(docs, graph) =>
              /\ Spread(docs, IndexTarget(now, graph, target))
              /\ Covered(docs, IndexTarget(now, graph, target), target.doc, target.at)
<1> DEFINE first == graph.aliases[target.base]
           from == Len(first.at)
           steps(n) == IndexSteps(now, graph, target)[n]
           goal(n) == OnTheWay(docs, graph, target, from, from + n, steps(n))
           left == Len(target.at) - from
<1>1. /\ IsLocated(docs, first) /\ Aliased(docs, graph, first.doc, first.at)
      /\ first.doc = target.doc /\ IsPrefix(first.at, target.at)
  BY DEF InResource, GraphInv, IsResource
<1>2. /\ first.at \in Seq(Steps(docs)) /\ target.at \in Seq(Steps(docs))
      /\ Len(target.at) \in Nat
  BY <1>1, PointersAre DEF IsLocated
<1>3. /\ from \in 0..Len(target.at) /\ from \in Nat /\ left \in Nat
      /\ first.at = SubSeq(target.at, 1, from)
  BY <1>1, <1>2, LongerPrefix
<1>4. /\ steps(0).graph = graph /\ steps(0).root = first
      /\ \A n \in Nat \ {0} :
           steps(n) = IndexStep(now, target, SubSeq(target.at, 1, from + n), steps(n - 1))
  BY IndexStepsAre
<1> HIDE DEF steps
<1>5. goal(0)
  <2>1. first = PlaceAt(docs, target.doc, SubSeq(target.at, 1, from))
    BY <1>1, <1>3 DEF IsLocated
  <2>2. Aliased(docs, graph, target.doc, SubSeq(target.at, 1, from))
    BY <1>1, <1>3
  <2>3. steps(0).graph = graph /\ steps(0).root = first /\ Extends(graph, graph)
    BY <1>4 DEF Extends
  <2>4. from + 0 = from /\ from \in from..from /\ \A k \in from + 1..from : FALSE
    BY <1>3
  <2>5. ~(from < from)
    BY <1>3
  <2> HIDE DEF first, from
  <2> QED
    BY <2>1, <2>2, <2>3, <2>4, <2>5 DEF OnTheWay
<1>6. ASSUME NEW n \in 1..left, goal(n - 1) PROVE goal(n)
  <2>1. /\ from + n \in from + 1..Len(target.at) /\ from + (n - 1) = from + n - 1
        /\ n \in Nat \ {0}
    BY <1>2, <1>3
  <2> DEFINE k == from + n
  <2>2. OnTheWay(docs, graph, target, from, k - 1, steps(n - 1))
    BY <1>6, <2>1
  <2>3. k \in from + 1..Len(target.at)
    BY <2>1
  <2>4. steps(n) = IndexStep(now, target, SubSeq(target.at, 1, k), steps(n - 1))
    BY <1>4, <2>1
  <2> HIDE DEF first, from, k
  <2>5. OnTheWay(docs, graph, target, from, k,
                 IndexStep(now, target, SubSeq(target.at, 1, k), steps(n - 1)))
    BY <1>3, <2>2, <2>3, IndexStepGoesOn
  <2> QED
    BY <2>4, <2>5 DEF k
<1> HIDE DEF goal
<1>7. \A n \in 0..left : goal(n)
  <2> HIDE DEF left
  <2> SUFFICES ASSUME NEW bad, bad = {n \in 0..left : ~goal(n)}, bad # {}
               PROVE  FALSE
    OBVIOUS
  <2>1. PICK n \in bad : \A k \in bad : n <= k
    <3>1. bad \subseteq Nat
      BY <1>3
    <3> QED
      BY <3>1, LeastElement
  <2>2. n \in 1..left /\ n - 1 \in 0..left /\ n - 1 \notin bad
    BY <1>3, <1>5, <2>1
  <2> QED
    BY <1>6, <2>1, <2>2
<1>8. IndexTarget(now, graph, target) = steps(left).graph
  BY DEF IndexTarget, steps
<1>9. OnTheWay(docs, graph, target, from, Len(target.at), steps(left))
  <2>1. from + left = Len(target.at)
    BY <1>2, <1>3
  <2>2. goal(left)
    <3> HIDE DEF left
    <3> QED
      BY <1>3, <1>7
  <2> QED
    BY <2>1, <2>2 DEF goal
<1> HIDE DEF left
<1>10. steps(left).graph # NoGraph
  BY <1>8
<1>11. ASSUME Spread(docs, graph), from = Len(target.at)
       PROVE  Covered(docs, graph, target.doc, target.at)
  <2>1. first.at = target.at
    BY <1>2, <1>3, <1>11, SubSeqFull
  <2>2. target.base \in DOMAIN graph.aliases
    BY DEF InResource
  <2>3. Covered(docs, graph, first.doc, first.at)
    BY <1>11, <2>2 DEF Spread
  <2> QED
    BY <1>1, <2>1, <2>3
<1> HIDE DEF first, from
<1>12. SubSeq(target.at, 1, Len(target.at)) = target.at
  BY <1>2, SubSeqFull
<1>13. ASSUME Spread(docs, graph)
       PROVE  /\ Spread(docs, IndexTarget(now, graph, target))
              /\ Covered(docs, IndexTarget(now, graph, target), target.doc, target.at)
  <2>1. /\ Extends(graph, steps(left).graph) /\ Spread(docs, steps(left).graph)
        /\ from < Len(target.at) => Covered(docs, steps(left).graph, target.doc, target.at)
    BY <1>9, <1>10, <1>12, <1>13 DEF OnTheWay
  <2>2. from < Len(target.at) \/ from = Len(target.at)
    BY <1>2, <1>3
  <2> QED
    BY <1>8, <1>11, <1>13, <2>1, <2>2, CoveredIsKept
<1> QED
  BY <1>3, <1>8, <1>9, <1>10, <1>13 DEF OnTheWay, Charted

-----------------------------------------------------------------------------
(* A sequence that is put together, taken apart.                           *)
LEMMA JoinedPointers ==
  ASSUME NEW S, NEW s \in Seq(S), NEW T, NEW t \in Seq(T)
  PROVE  /\ Len(s \o t) = Len(s) + Len(t) /\ Len(s) \in Nat /\ Len(t) \in Nat
         /\ IsPrefix(s, s \o t)
         /\ SubSeq(s \o t, Len(s) + 1, Len(s \o t)) = t
<1>1. /\ Len(s) \in Nat /\ s \in [1..Len(s) -> S]
      /\ Len(t) \in Nat /\ t \in [1..Len(t) -> T]
  BY LenProperties
<1>2. s \in [1..Len(s) -> S \cup T] /\ t \in [1..Len(t) -> S \cup T]
  BY <1>1
<1>3. s \in Seq(S \cup T) /\ t \in Seq(S \cup T)
  BY <1>1, <1>2, FunctionIsSequence
<1> DEFINE u == s \o t
<1>4. /\ u \in Seq(S \cup T) /\ Len(u) = Len(s) + Len(t)
      /\ \A i \in 1..Len(s) + Len(t) :
           u[i] = IF i <= Len(s) THEN s[i] ELSE t[i - Len(s)]
  BY <1>3, ConcatProperties
<1> HIDE DEF u
<1>5. SubSeq(u, 1, Len(s)) = s
  <2>1. /\ SubSeq(u, 1, Len(s)) \in Seq(S \cup T) /\ Len(SubSeq(u, 1, Len(s))) = Len(s)
    BY <1>1, <1>4, SubSeqProperties
  <2>2. \A i \in 1..Len(s) : SubSeq(u, 1, Len(s))[i] = s[i]
    <3> TAKE i \in 1..Len(s)
    <3>1. i \in 1..Len(s) + Len(t) /\ i <= Len(s) /\ 1 + i - 1 = i
      BY <1>1
    <3>2. SubSeq(u, 1, Len(s))[i] = u[i]
      BY <1>1, <1>4, <3>1, SubSeqProperties
    <3> QED
      BY <1>4, <3>1, <3>2
  <2> QED
    BY <1>3, <2>1, <2>2, SeqEqual
<1>6. SubSeq(u, Len(s) + 1, Len(u)) = t
  <2> DEFINE v == SubSeq(u, Len(s) + 1, Len(u))
  <2>1. v \in Seq(S \cup T) /\ Len(v) = Len(t)
    BY <1>1, <1>4, SubSeqProperties
  <2>2. \A i \in 1..Len(t) : v[i] = t[i]
    <3> TAKE i \in 1..Len(t)
    <3>1. /\ Len(s) + i \in 1..Len(s) + Len(t) /\ ~(Len(s) + i <= Len(s))
          /\ Len(s) + i - Len(s) = i /\ i \in Nat
      BY <1>1
    <3>2. v[i] = u[Len(s) + i]
      BY <1>1, <1>4, <2>1, <3>1, SubSeqProperties
    <3> QED
      BY <1>4, <3>1, <3>2
  <2> HIDE DEF v
  <2>3. v = t
    BY <1>3, <2>1, <2>2, SeqEqual
  <2> QED
    BY <2>3 DEF v
<1>7. IsPrefix(s, u)
  <2>1. Len(s) <= Len(u) /\ SubSeq(s, 1, Len(s)) = s
    BY <1>1, <1>4, SubSeqFull
  <2> QED
    BY <1>5, <2>1 DEF IsPrefix
<1> QED
  BY <1>1, <1>4, <1>6, <1>7 DEF u

(* There is a deepest resource around a place that is in one.              *)
LEMMA DeepestRootIs ==
  ASSUME NEW docs, WellFormed(docs), NEW graph, GraphInv(docs, graph),
         NEW d \in DOMAIN docs, NEW at \in DOMAIN docs[d].nodes, NEW fallback,
         NEW known \in DOMAIN graph.aliases,
         graph.aliases[known].doc = d, IsPrefix(graph.aliases[known].at, at)
  PROVE  LET r == DeepestRoot(graph, d, at, fallback)
         IN /\ \E uri \in DOMAIN graph.aliases : r = graph.aliases[uri]
            /\ r.doc = d /\ IsPrefix(r.at, at)
            /\ \A uri \in DOMAIN graph.aliases :
                 LET s == graph.aliases[uri]
                 IN s.doc = d /\ IsPrefix(s.at, at) => Len(s.at) <= Len(r.at)
<1> DEFINE around == {graph.aliases[uri] : uri \in DOMAIN graph.aliases}
           roots == {r \in around : r.doc = d /\ IsPrefix(r.at, at)}
           deepest(r) == \A s \in roots : Len(s.at) <= Len(r.at)
<1>1. graph.aliases[known] \in roots
  OBVIOUS
<1>2. DeepestRoot(graph, d, at, fallback) = CHOOSE r \in roots : deepest(r)
  BY <1>1 DEF DeepestRoot
<1>3. \A r \in roots : Len(r.at) \in 0..Len(at)
  <2> TAKE r \in roots
  <2>1. r.at \in DOMAIN docs[d].nodes /\ IsPrefix(r.at, at)
    BY DEF GraphInv, IsResource, IsLocated
  <2>2. r.at \in Seq(Steps(docs)) /\ at \in Seq(Steps(docs))
    BY <2>1, PointersAre
  <2> QED
    BY <2>1, <2>2, LongerPrefix
<1>4. Len(at) \in Nat
  BY PointersAre
<1> HIDE DEF roots
<1>5. \E r \in roots : deepest(r)
  <2> DEFINE left == {Len(at) - Len(r.at) : r \in roots}
  <2>1. left \subseteq Nat /\ left # {}
    BY <1>1, <1>3, <1>4
  <2>2. PICK l \in left : \A k \in left : l <= k
    BY <2>1, LeastElement
  <2>3. PICK r \in roots : l = Len(at) - Len(r.at)
    BY <2>2
  <2>4. ASSUME NEW s \in roots PROVE Len(s.at) <= Len(r.at)
    <3>1. Len(at) - Len(s.at) \in left
      OBVIOUS
    <3>2. Len(at) - Len(r.at) <= Len(at) - Len(s.at)
      BY <2>2, <2>3, <3>1
    <3> QED
      BY <1>3, <1>4, <3>2
  <2> QED
    BY <2>4
<1> DEFINE it == CHOOSE r \in roots : deepest(r)
<1>6. it \in roots /\ deepest(it)
  BY <1>5
<1> HIDE DEF it
<1>7. DeepestRoot(graph, d, at, fallback) = it
  BY <1>2 DEF it
<1> QED
  BY <1>6, <1>7 DEF roots

LEMMA DocumentsAreNumbered ==
  ASSUME NEW docs, WellFormed(docs)
  PROVE  DOMAIN docs = 1..Len(docs) /\ Len(docs) \in Nat /\ 0 \notin DOMAIN docs
<1>1. docs \in Seq(Range(docs))
  BY DEF WellFormed
<1> QED
  BY <1>1, LenProperties

(* What a reference names: an anchor of a resource that is known, or a     *)
(* place below its root.                                                   *)
RawOf(docs, graph, reference, root, raw) ==
  /\ raw.doc = root.doc /\ raw.doc \in DOMAIN docs
  /\ raw.at \in DOMAIN docs[raw.doc].nodes
  /\ InResource(graph, raw)
  /\ IsPrefix(root.at, raw.at)
  /\ IF Has(reference, "anchor")
     THEN /\ IsLocated(docs, raw) /\ raw.base = root.base
          /\ Has(Node(docs, raw.doc, raw.at), "anchors")
          /\ reference.anchor \in Node(docs, raw.doc, raw.at).anchors
     ELSE /\ SubSeq(raw.at, Len(root.at) + 1, Len(raw.at)) = reference.pointer
          /\ raw = [ doc |-> root.doc, at |-> raw.at,
                     base |-> IF reference.pointer = <<>> THEN root.base
                              ELSE DeepestRoot(graph, root.doc, raw.at, root).base ]
          /\ reference.pointer = <<>> => raw.at = root.at

LEMMA RawIs ==
  ASSUME NEW docs, WellFormed(docs), NEW now, Agrees(docs, now),
         NEW graph, GraphInv(docs, graph), NEW base, NEW reference, IsReference(reference),
         ResolveRaw(now, graph, base, reference) # NoLocation
  PROVE  LET uri == ResolveUri(base, reference.to)
         IN /\ uri \in DOMAIN graph.aliases
            /\ RawOf(docs, graph, reference, graph.aliases[uri],
                     ResolveRaw(now, graph, base, reference))
<1> DEFINE uri == ResolveUri(base, reference.to)
           root == graph.aliases[uri]
           raw == ResolveRaw(now, graph, base, reference)
           key == <<root.base, reference.anchor>>
           at == root.at \o reference.pointer
<1>1. uri \in DOMAIN graph.aliases
  BY DEF ResolveRaw
<1>2. /\ IsLocated(docs, root) /\ Aliased(docs, graph, root.doc, root.at)
      /\ root.doc \in DOMAIN docs /\ root.at \in DOMAIN docs[root.doc].nodes
  BY <1>1 DEF GraphInv, IsResource, IsLocated
<1>3. root.base = Lexical(docs, root.doc, root.at)
  BY <1>2 DEF IsLocated, PlaceAt
<1>4. root.base \in DOMAIN graph.aliases /\ graph.aliases[root.base] = root
  BY <1>2, <1>3 DEF Aliased, IsLocated
<1>5. CASE Has(reference, "anchor")
  <2>1. key \in DOMAIN graph.anchors /\ raw = graph.anchors[key]
    BY <1>1, <1>5 DEF ResolveRaw
  <2>2. IsAnchor(docs, graph, key, raw)
    BY <2>1 DEF GraphInv
  <2>3. key[1] = root.base /\ key[2] = reference.anchor
    OBVIOUS
  <2> HIDE DEF uri, root, raw, key
  <2>4. raw.base = root.base /\ raw.doc = root.doc /\ IsPrefix(root.at, raw.at)
    BY <1>4, <2>2, <2>3 DEF IsAnchor, InResource
  <2>5. RawOf(docs, graph, reference, root, raw)
    BY <1>2, <1>5, <2>2, <2>3, <2>4 DEF RawOf, IsAnchor, IsLocated
  <2> QED
    BY <1>1, <2>5 DEF uri, root, raw
<1>6. CASE ~Has(reference, "anchor")
  <2>1. at \in DOMAIN now[root.doc].nodes
        /\ raw = [ doc |-> root.doc, at |-> at,
                   base |-> IF reference.pointer = <<>> THEN root.base
                            ELSE DeepestRoot(graph, root.doc, at, root).base ]
    <3> HIDE DEF at
    <3> QED
      BY <1>1, <1>6 DEF ResolveRaw, at
  <2>2. at \in DOMAIN docs[root.doc].nodes
    <3> HIDE DEF at, root
    <3> QED
      BY <1>2, <2>1, AgreeingNode
  <2>3. /\ reference.pointer \in Seq(Range(reference.pointer))
        /\ root.at \in Seq(Steps(docs)) /\ at \in Seq(Steps(docs))
    BY <1>2, <1>6, <2>2, PointersAre DEF IsReference, Has
  <2>4. /\ IsPrefix(root.at, at) /\ Len(at) = Len(root.at) + Len(reference.pointer)
        /\ SubSeq(at, Len(root.at) + 1, Len(at)) = reference.pointer
        /\ Len(root.at) \in Nat
    BY <2>3, JoinedPointers
  <2> HIDE DEF uri, root, raw, at
  <2>5. reference.pointer = <<>> => at = root.at
    <3> SUFFICES ASSUME reference.pointer = <<>> PROVE at = root.at
      OBVIOUS
    <3>1. Len(at) = Len(root.at)
      BY <2>4
    <3> QED
      BY <2>3, <2>4, <3>1, LongerPrefix
  <2>6. InResource(graph, raw)
    <3>1. CASE reference.pointer = <<>>
      <4>1. raw.base = root.base /\ raw.doc = root.doc /\ raw.at = at
        BY <2>1, <3>1
      <4> QED
        BY <1>4, <2>4, <4>1 DEF InResource
    <3>2. CASE reference.pointer # <<>>
      <4> DEFINE r == DeepestRoot(graph, root.doc, at, root)
      <4>1. /\ \E u \in DOMAIN graph.aliases : r = graph.aliases[u]
            /\ r.doc = root.doc /\ IsPrefix(r.at, at)
        <5>1. /\ uri \in DOMAIN graph.aliases
              /\ graph.aliases[uri].doc = root.doc /\ IsPrefix(graph.aliases[uri].at, at)
          BY <1>1, <2>4 DEF root
        <5>2. root.doc \in DOMAIN docs /\ at \in DOMAIN docs[root.doc].nodes
          BY <1>2, <2>2
        <5> QED
          BY <5>1, <5>2, DeepestRootIs
      <4>2. raw.base = r.base /\ raw.doc = root.doc /\ raw.at = at
        BY <2>1, <3>2
      <4> HIDE DEF r
      <4>3. PICK u \in DOMAIN graph.aliases : r = graph.aliases[u]
        BY <4>1
      <4>4. IsLocated(docs, r) /\ Aliased(docs, graph, r.doc, r.at)
        BY <4>3 DEF GraphInv, IsResource
      <4>5. r.base = Lexical(docs, r.doc, r.at) /\ r = PlaceAt(docs, r.doc, r.at)
        BY <4>4 DEF IsLocated, PlaceAt
      <4>6. r.base \in DOMAIN graph.aliases /\ graph.aliases[r.base] = r
        BY <4>4, <4>5 DEF Aliased
      <4> QED
        BY <4>1, <4>2, <4>6 DEF InResource
    <3> QED
      BY <3>1, <3>2
  <2>7. raw.doc = root.doc /\ raw.at = at
    BY <2>1
  <2>8. RawOf(docs, graph, reference, root, raw)
    BY <1>2, <1>6, <2>1, <2>2, <2>4, <2>5, <2>6, <2>7 DEF RawOf
  <2> QED
    BY <1>1, <2>8 DEF uri, root, raw
<1> QED
  BY <1>5, <1>6

(* A place that is charted is resolved to what it is.                      *)
LEMMA ResolvesToPlace ==
  ASSUME NEW docs, WellFormed(docs), NEW now, Agrees(docs, now),
         NEW graph, GraphInv(docs, graph), NEW base, NEW reference, IsReference(reference),
         ResolveRaw(now, graph, base, reference) # NoLocation,
         LET raw == ResolveRaw(now, graph, base, reference)
         IN Charted(docs, graph, raw.doc, raw.at)
  PROVE  LET raw == ResolveRaw(now, graph, base, reference)
         IN Resolve(now, graph, base, reference) = PlaceAt(docs, raw.doc, raw.at)
<1> DEFINE uri == ResolveUri(base, reference.to)
           root == graph.aliases[uri]
           raw == ResolveRaw(now, graph, base, reference)
           d == raw.doc
           at == raw.at
<1>1. uri \in DOMAIN graph.aliases /\ RawOf(docs, graph, reference, root, raw)
  BY RawIs
<1>2. Resolve(now, graph, base, reference) = Normalize(now, graph, raw)
  BY DEF Resolve
<1>3. Charted(docs, graph, d, at)
  OBVIOUS
<1> HIDE DEF raw
<1>4. /\ d \in DOMAIN docs /\ at \in DOMAIN docs[d].nodes /\ root.doc = d
      /\ Len(at) \in Nat /\ at \in Seq(Steps(docs)) /\ SubSeq(at, 1, Len(at)) = at
  BY <1>1, PointersAre, SubSeqFull DEF RawOf
<1>5. \E m \in 0..Len(at) :
        /\ Aliased(docs, graph, d, SubSeq(at, 1, m))
        /\ Lexical(docs, d, at) = Lexical(docs, d, SubSeq(at, 1, m))
        /\ \A n \in m + 1..Len(at) : ~Identified(docs, d, SubSeq(at, 1, n))
  BY <1>3, <1>4, ChartedBase
<1>6. PICK m \in 0..Len(at) :
        /\ Aliased(docs, graph, d, SubSeq(at, 1, m))
        /\ Lexical(docs, d, at) = Lexical(docs, d, SubSeq(at, 1, m))
        /\ \A n \in m + 1..Len(at) : ~Identified(docs, d, SubSeq(at, 1, n))
  BY <1>5
<1>7. raw = PlaceAt(docs, d, at)
  <2>1. CASE Has(reference, "anchor")
    BY <1>1, <2>1 DEF RawOf, IsLocated
  <2>2. CASE ~Has(reference, "anchor") /\ reference.pointer = <<>>
    <3>1. raw = [doc |-> root.doc, at |-> at, base |-> root.base] /\ at = root.at
      BY <1>1, <2>2 DEF RawOf
    <3>2. root = PlaceAt(docs, root.doc, root.at)
      BY <1>1 DEF GraphInv, IsResource, IsLocated
    <3>3. root.base = Lexical(docs, root.doc, root.at)
      BY <3>2 DEF PlaceAt
    <3> QED
      BY <1>4, <3>1, <3>3 DEF PlaceAt
  <2>3. CASE ~Has(reference, "anchor") /\ reference.pointer # <<>>
    <3> DEFINE r == DeepestRoot(graph, d, at, root)
    <3>1. raw = [doc |-> d, at |-> at, base |-> r.base]
      <4>1. raw = [ doc |-> root.doc, at |-> at,
                    base |-> DeepestRoot(graph, root.doc, at, root).base ]
        BY <1>1, <2>3 DEF RawOf
      <4> QED
        BY <1>4, <4>1
    <3>2. /\ \E u \in DOMAIN graph.aliases : r = graph.aliases[u]
          /\ r.doc = d /\ IsPrefix(r.at, at)
          /\ \A u \in DOMAIN graph.aliases :
               LET s == graph.aliases[u]
               IN s.doc = d /\ IsPrefix(s.at, at) => Len(s.at) <= Len(r.at)
      <4>1. IsPrefix(graph.aliases[uri].at, at) /\ graph.aliases[uri].doc = d
        BY <1>1, <1>4 DEF RawOf
      <4> HIDE DEF uri, root, d, at
      <4> QED
        BY <1>1, <1>4, <4>1, DeepestRootIs
    <3> HIDE DEF r
    <3>3. PICK u \in DOMAIN graph.aliases : r = graph.aliases[u]
      BY <3>2
    <3>4. /\ r = PlaceAt(docs, d, r.at) /\ r.at \in DOMAIN docs[d].nodes
          /\ r.at # <<>> => Identified(docs, d, r.at)
      BY <3>2, <3>3 DEF GraphInv, IsResource, IsLocated, IsIdentity
    <3>5. /\ Len(r.at) \in 0..Len(at) /\ r.at = SubSeq(at, 1, Len(r.at))
      BY <1>4, <3>2, <3>4, PointersAre, LongerPrefix
    <3>6. m <= Len(r.at)
      <4> DEFINE cut == SubSeq(at, 1, m)
      <4>1. IsPrefix(cut, at) /\ Len(cut) = m
        BY <1>4, PrefixesAre
      <4>2. /\ Lexical(docs, d, cut) \in DOMAIN graph.aliases
            /\ graph.aliases[Lexical(docs, d, cut)] = PlaceAt(docs, d, cut)
        BY <1>6 DEF Aliased
      <4>3. PlaceAt(docs, d, cut).doc = d /\ PlaceAt(docs, d, cut).at = cut
        BY DEF PlaceAt
      <4> HIDE DEF cut
      <4> QED
        BY <3>2, <4>1, <4>2, <4>3
    <3>7. r.base = Lexical(docs, d, at)
      <4>1. r.base = Lexical(docs, d, r.at)
        BY <3>4 DEF PlaceAt
      <4>2. CASE Len(r.at) = m
        BY <1>6, <3>5, <4>1, <4>2
      <4>3. CASE Len(r.at) # m
        <5>1. Len(r.at) \in m + 1..Len(at) /\ r.at # <<>>
          BY <1>4, <3>5, <3>6, <4>3
        <5> QED
          BY <1>6, <3>4, <3>5, <5>1
      <4> QED
        BY <4>2, <4>3
    <3> QED
      BY <3>1, <3>7 DEF PlaceAt
  <2> QED
    BY <2>1, <2>2, <2>3
<1>8. CASE ~Identified(docs, d, at)
  <2>1. ~Has(Node(now, d, at), "id")
    BY <1>4, <1>8, AgreeingNode DEF Identified
  <2> QED
    BY <1>2, <1>7, <2>1 DEF Normalize, raw
<1>9. CASE Identified(docs, d, at)
  <2>1. m = Len(at)
    <3> SUFFICES ASSUME m # Len(at) PROVE FALSE
      OBVIOUS
    <3>1. Len(at) \in m + 1..Len(at)
      BY <1>4
    <3>2. ~Identified(docs, d, SubSeq(at, 1, Len(at)))
      BY <1>6, <3>1
    <3> QED
      BY <1>4, <1>9, <3>2
  <2>2. Aliased(docs, graph, d, at)
    BY <1>4, <1>6, <2>1
  <2>3. /\ raw.base = Lexical(docs, d, at) /\ PlaceAt(docs, d, at).doc = d
        /\ PlaceAt(docs, d, at).at = at
    BY <1>7 DEF PlaceAt
  <2>4. /\ raw.base \in DOMAIN graph.aliases
        /\ graph.aliases[raw.base].doc = raw.doc /\ graph.aliases[raw.base].at = raw.at
    BY <2>2, <2>3 DEF Aliased
  <2>5. Normalize(now, graph, raw) = raw
    BY <2>4 DEF Normalize
  <2> QED
    BY <1>2, <1>7, <2>5 DEF raw
<1> QED
  BY <1>8, <1>9

(* What it resolved to, it still does when more is known.                  *)
LEMMA RawIsKept ==
  ASSUME NEW docs, WellFormed(docs), NEW now, Agrees(docs, now),
         NEW later, Agrees(docs, later),
         NEW graph, GraphInv(docs, graph), NEW larger, Extends(graph, larger),
         NEW base, NEW reference,
         ResolveRaw(now, graph, base, reference) # NoLocation
  PROVE  LET raw == ResolveRaw(now, graph, base, reference)
             after == ResolveRaw(later, larger, base, reference)
         IN after # NoLocation /\ after.doc = raw.doc /\ after.at = raw.at
<1> DEFINE uri == ResolveUri(base, reference.to)
           root == graph.aliases[uri]
           raw == ResolveRaw(now, graph, base, reference)
           after == ResolveRaw(later, larger, base, reference)
           key == <<root.base, reference.anchor>>
           at == root.at \o reference.pointer
<1>1. uri \in DOMAIN graph.aliases
  BY DEF ResolveRaw
<1>2. uri \in DOMAIN larger.aliases /\ larger.aliases[uri] = root
  BY <1>1 DEF Extends
<1>3. root.doc \in DOMAIN docs /\ root.doc # 0
  BY <1>1, DocumentsAreNumbered DEF GraphInv, IsResource, IsLocated
<1>4. CASE Has(reference, "anchor")
  <2>1. key \in DOMAIN graph.anchors /\ raw = graph.anchors[key]
    BY <1>1, <1>4 DEF ResolveRaw
  <2>2. key \in DOMAIN larger.anchors /\ larger.anchors[key] = graph.anchors[key]
    BY <2>1 DEF Extends
  <2>3. after = graph.anchors[key]
    BY <1>2, <1>4, <2>2 DEF ResolveRaw
  <2>4. raw # NoLocation
    OBVIOUS
  <2> HIDE DEF raw, after, key
  <2>5. after # NoLocation /\ after.doc = raw.doc /\ after.at = raw.at
    BY <2>1, <2>3, <2>4
  <2> QED
    BY <2>5 DEF raw, after
<1>5. CASE ~Has(reference, "anchor")
  <2>1. at \in DOMAIN now[root.doc].nodes /\ raw.doc = root.doc /\ raw.at = at
    <3> HIDE DEF at
    <3> QED
      BY <1>1, <1>5 DEF ResolveRaw, at
  <2>2. at \in DOMAIN later[root.doc].nodes
    BY <1>3, <2>1 DEF Agrees
  <2>3. after.doc = root.doc /\ after.at = at
    <3> HIDE DEF at, root
    <3> QED
      BY <1>2, <1>5, <2>2 DEF ResolveRaw, at, root
  <2>4. NoLocation.doc = 0
    BY DEF NoLocation
  <2> HIDE DEF raw, after, root, at
  <2>5. after # NoLocation /\ after.doc = raw.doc /\ after.at = raw.at
    BY <1>3, <2>1, <2>3, <2>4
  <2> QED
    BY <2>5 DEF raw, after
<1> QED
  BY <1>4, <1>5

-----------------------------------------------------------------------------
(* A frame is about a schema that was entered, and what is left of it.     *)
IsFrame(docs, seen, frame) ==
  /\ frame = [ place |-> frame.place, references |-> frame.references,
               children |-> frame.children ]
  /\ frame.place \in seen
  /\ frame.references \subseteq References(Node(docs, frame.place.doc, frame.place.at))
  /\ frame.children \subseteq Children(docs, frame.place.doc, frame.place.at, SchemaKeywords)

Frames(docs, seen, frames) ==
  /\ frames \in Seq(Range(frames))
  /\ \A i \in DOMAIN frames : IsFrame(docs, seen, frames[i])
  /\ \A i, j \in DOMAIN frames : frames[i].place = frames[j].place => i = j

Pending(frames, place, keyword) ==
  \E i \in DOMAIN frames : frames[i].place = place /\ keyword \in frames[i].references

LEMMA SequenceOfItsRange ==
  ASSUME NEW k \in Nat, NEW f, f = [i \in 1..k |-> f[i]]
  PROVE  f \in Seq(Range(f)) /\ DOMAIN f = 1..k /\ Len(f) = k
<1>1. DOMAIN f = 1..k
  OBVIOUS
<1>2. f \in [1..k -> Range(f)]
  BY <1>1 DEF Range
<1> QED
  BY <1>1, <1>2, FunctionIsSequence

(* One frame more.                                                         *)
LEMMA Pushed ==
  ASSUME NEW frames, frames \in Seq(Range(frames)), NEW f
  PROVE  LET more == <<f>> \o frames
         IN /\ more \in Seq(Range(more))
            /\ DOMAIN frames = 1..Len(frames) /\ Len(frames) \in Nat
            /\ DOMAIN more = 1..Len(frames) + 1
            /\ more[1] = f
            /\ \A i \in 1..Len(frames) : i + 1 \in DOMAIN more /\ more[i + 1] = frames[i]
            /\ \A i \in DOMAIN more : i = 1 \/ (i - 1 \in 1..Len(frames) /\ more[i] = frames[i - 1])
<1> DEFINE S == Range(frames) \cup {f}
           more == <<f>> \o frames
<1>1. Len(frames) \in Nat /\ DOMAIN frames = 1..Len(frames) /\ frames \in [1..Len(frames) -> Range(frames)]
  BY LenProperties
<1>2. frames \in [1..Len(frames) -> S]
  BY <1>1
<1>3. frames \in Seq(S) /\ <<f>> \in Seq(S) /\ Len(<<f>>) = 1 /\ <<f>>[1] = f
  <2>1. f \in S
    OBVIOUS
  <2> HIDE DEF S
  <2> QED
    BY <1>1, <1>2, <2>1, FunctionIsSequence
<1>4. /\ more \in Seq(S) /\ Len(more) = 1 + Len(frames)
      /\ \A i \in 1..1 + Len(frames) : more[i] = IF i <= 1 THEN <<f>>[i] ELSE frames[i - 1]
  <2> HIDE DEF S
  <2> QED
    BY <1>3, ConcatProperties
<1> HIDE DEF more, S
<1>5. DOMAIN more = 1..Len(frames) + 1 /\ more = [i \in 1..Len(frames) + 1 |-> more[i]]
  BY <1>1, <1>4, LenProperties
<1>6. more \in Seq(Range(more))
  <2>1. Len(frames) + 1 \in Nat
    BY <1>1
  <2> QED
    BY <1>5, <2>1, SequenceOfItsRange
<1>7. more[1] = f
  BY <1>1, <1>3, <1>4
<1>8. \A i \in 1..Len(frames) : i + 1 \in DOMAIN more /\ more[i + 1] = frames[i]
  <2> TAKE i \in 1..Len(frames)
  <2>1. /\ i + 1 \in 1..Len(frames) + 1 /\ i + 1 \in 1..1 + Len(frames)
        /\ ~(i + 1 <= 1) /\ i + 1 - 1 = i
    BY <1>1
  <2>2. more[i + 1] = frames[i + 1 - 1]
    BY <1>4, <2>1
  <2> QED
    BY <1>5, <2>1, <2>2, SMTT(30)
<1>9. \A i \in DOMAIN more : i = 1 \/ (i - 1 \in 1..Len(frames) /\ more[i] = frames[i - 1])
  BY <1>1, <1>4, <1>5, SMTT(30)
<1> QED
  BY <1>1, <1>5, <1>6, <1>7, <1>8, <1>9 DEF more

(* One frame less.                                                         *)
LEMMA Popped ==
  ASSUME NEW frames, frames \in Seq(Range(frames)), frames # <<>>
  PROVE  /\ Tail(frames) \in Seq(Range(Tail(frames)))
         /\ Len(frames) \in Nat \ {0} /\ DOMAIN frames = 1..Len(frames)
         /\ Head(frames) = frames[1]
         /\ DOMAIN Tail(frames) = 1..Len(frames) - 1 /\ Len(Tail(frames)) = Len(frames) - 1
         /\ \A i \in 1..Len(frames) - 1 : i + 1 \in DOMAIN frames /\ Tail(frames)[i] = frames[i + 1]
<1>1. Len(frames) \in Nat \ {0} /\ DOMAIN frames = 1..Len(frames)
  BY LenProperties, EmptySeq
<1>2. /\ Tail(frames) \in Seq(Range(frames)) /\ Len(Tail(frames)) = Len(frames) - 1
      /\ \A i \in 1..Len(Tail(frames)) : Tail(frames)[i] = frames[i + 1]
      /\ Head(frames) = frames[1]
  BY <1>1, HeadTailProperties
<1> DEFINE rest == Tail(frames)
<1> HIDE DEF rest
<1>3. DOMAIN rest = 1..Len(frames) - 1 /\ rest = [i \in 1..Len(frames) - 1 |-> rest[i]]
  BY <1>1, <1>2, LenProperties DEF rest
<1>4. Len(frames) - 1 \in Nat
  BY <1>1
<1>5. rest \in Seq(Range(rest))
  BY <1>3, <1>4, SequenceOfItsRange
<1> QED
  BY <1>1, <1>2, <1>3, <1>5 DEF rest

(* What is left of the innermost frame when something in it was done.      *)
LEMMA Reduced ==
  ASSUME NEW docs, NEW seen, NEW frames, Frames(docs, seen, frames), frames # <<>>,
         NEW f, IsFrame(docs, seen, f), f.place = Head(frames).place,
         f.references \subseteq Head(frames).references
  PROVE  /\ Frames(docs, seen, <<f>> \o Tail(frames))
         /\ \A place, keyword :
              /\ Pending(<<f>> \o Tail(frames), place, keyword) => Pending(frames, place, keyword)
              /\ Pending(frames, place, keyword) =>
                   \/ Pending(<<f>> \o Tail(frames), place, keyword)
                   \/ /\ place = f.place
                      /\ keyword \in Head(frames).references \ f.references
         /\ \A keyword : Pending(<<f>> \o Tail(frames), f.place, keyword) => keyword \in f.references
<1> DEFINE inner == Tail(frames)
           rest == <<f>> \o inner
<1>1. /\ inner \in Seq(Range(inner))
      /\ Len(frames) \in Nat \ {0} /\ DOMAIN frames = 1..Len(frames)
      /\ Head(frames) = frames[1]
      /\ Len(inner) = Len(frames) - 1
      /\ \A i \in 1..Len(frames) - 1 : inner[i] = frames[i + 1]
  BY Popped DEF Frames
<1> HIDE DEF inner
<1>2. /\ rest \in Seq(Range(rest))
      /\ DOMAIN rest = 1..Len(inner) + 1
      /\ rest[1] = f
      /\ \A i \in DOMAIN rest : i = 1 \/ (i - 1 \in 1..Len(inner) /\ rest[i] = inner[i - 1])
  <2>1. rest \in Seq(Range(rest))
    BY <1>1, Pushed
  <2>2. DOMAIN rest = 1..Len(inner) + 1
    BY <1>1, Pushed
  <2>3. rest[1] = f
    BY <1>1, Pushed
  <2>4. \A i \in DOMAIN rest : i = 1 \/ (i - 1 \in 1..Len(inner) /\ rest[i] = inner[i - 1])
    BY <1>1, Pushed
  <2> QED
    BY <2>1, <2>2, <2>3, <2>4
<1> HIDE DEF rest
<1>3. DOMAIN rest = DOMAIN frames /\ 1 \in DOMAIN frames
  BY <1>1, <1>2
<1>4. \A i \in DOMAIN frames : i # 1 => rest[i] = frames[i]
  <2> TAKE i \in DOMAIN frames
  <2> HAVE i # 1
  <2>1. i - 1 \in 1..Len(inner) /\ rest[i] = inner[i - 1]
    BY <1>2, <1>3
  <2>2. i - 1 \in 1..Len(frames) - 1 /\ i - 1 + 1 = i
    BY <1>1
  <2>3. inner[i - 1] = frames[i - 1 + 1]
    BY <1>1, <2>2
  <2> QED
    BY <2>1, <2>2, <2>3
<1>5. \A i \in DOMAIN frames : rest[i].place = frames[i].place
  BY <1>1, <1>2, <1>4
<1>6. Frames(docs, seen, rest)
  BY <1>2, <1>3, <1>4, <1>5 DEF Frames
<1>7. \A place, keyword : Pending(rest, place, keyword) => Pending(frames, place, keyword)
  BY <1>1, <1>2, <1>3, <1>4 DEF Pending
<1>8. \A place, keyword :
        Pending(frames, place, keyword) =>
          \/ Pending(rest, place, keyword)
          \/ place = f.place /\ keyword \in Head(frames).references \ f.references
  BY <1>1, <1>2, <1>3, <1>4 DEF Pending
<1>9. \A keyword : Pending(rest, f.place, keyword) => keyword \in f.references
  <2>1. \A i \in DOMAIN rest : rest[i].place = f.place => i = 1
    BY <1>2, <1>3, <1>6 DEF Frames
  <2> QED
    BY <1>2, <2>1 DEF Pending
<1> QED
  BY <1>6, <1>7, <1>8, <1>9 DEF rest, inner

(* Leaving a schema of which nothing is left.                              *)
LEMMA Finished ==
  ASSUME NEW docs, NEW seen, NEW frames, Frames(docs, seen, frames), frames # <<>>,
         Head(frames).references = {}
  PROVE  /\ Frames(docs, seen, Tail(frames))
         /\ \A place, keyword : Pending(frames, place, keyword) <=> Pending(Tail(frames), place, keyword)
<1> DEFINE rest == Tail(frames)
<1>1. /\ rest \in Seq(Range(rest))
      /\ Len(frames) \in Nat \ {0} /\ DOMAIN frames = 1..Len(frames)
      /\ frames[1].references = {}
      /\ DOMAIN rest = 1..Len(frames) - 1
      /\ \A i \in 1..Len(frames) - 1 : i + 1 \in DOMAIN frames /\ rest[i] = frames[i + 1]
  BY Popped DEF Frames
<1> HIDE DEF rest
<1>2. Frames(docs, seen, rest)
  <2>1. \A i \in DOMAIN rest : IsFrame(docs, seen, rest[i])
    BY <1>1 DEF Frames
  <2>2. \A i, j \in DOMAIN rest : rest[i].place = rest[j].place => i = j
    <3> TAKE i, j \in DOMAIN rest
    <3> HAVE rest[i].place = rest[j].place
    <3>1. i + 1 \in DOMAIN frames /\ j + 1 \in DOMAIN frames /\ i \in Nat /\ j \in Nat
      BY <1>1
    <3>2. frames[i + 1].place = frames[j + 1].place
      BY <1>1
    <3>3. i + 1 = j + 1
      BY <3>1, <3>2 DEF Frames
    <3> QED
      BY <3>1, <3>3
  <2> QED
    BY <1>1, <2>1, <2>2 DEF Frames
<1>3. \A place, keyword : Pending(rest, place, keyword) => Pending(frames, place, keyword)
  BY <1>1 DEF Pending
<1>4. ASSUME NEW place, NEW keyword, Pending(frames, place, keyword)
      PROVE  Pending(rest, place, keyword)
  <2>1. PICK i \in DOMAIN frames : frames[i].place = place /\ keyword \in frames[i].references
    BY <1>4 DEF Pending
  <2>2. i # 1
    BY <1>1, <2>1
  <2>3. i - 1 \in 1..Len(frames) - 1 /\ i - 1 + 1 = i
    BY <1>1, <2>2
  <2>4. rest[i - 1] = frames[i] /\ i - 1 \in DOMAIN rest
    <3>1. rest[i - 1] = frames[i - 1 + 1]
      BY <1>1, <2>3
    <3> QED
      BY <1>1, <2>3, <3>1
  <2> QED
    BY <2>1, <2>4 DEF Pending
<1> QED
  BY <1>2, <1>3, <1>4 DEF rest

(* A schema is entered with all its references and all below it.           *)
LEMMA Entering ==
  ASSUME NEW docs, NEW now, Agrees(docs, now), NEW location, IsLocated(docs, location),
         NEW frames, Frames(docs, visited, frames)
  PROVE  LET entered == Entered(now, location, frames)
         IN /\ Frames(docs, visited \cup {location}, entered)
            /\ \A place, keyword : Pending(frames, place, keyword) => Pending(entered, place, keyword)
            /\ \A place \in visited : \A keyword :
                 Pending(entered, place, keyword) => Pending(frames, place, keyword)
            /\ location \notin visited =>
                 \A keyword \in References(Node(docs, location.doc, location.at)) :
                   Pending(entered, location, keyword)
<1> DEFINE entered == Entered(now, location, frames)
           f == [ place |-> location,
                  references |-> References(Node(now, location.doc, location.at)),
                  children |-> Children(now, location.doc, location.at, SchemaKeywords) ]
<1>1. \A i \in DOMAIN frames : IsFrame(docs, visited \cup {location}, frames[i])
  BY DEF Frames, IsFrame
<1>2. CASE location \in visited
  <2>1. entered = frames
    BY <1>2 DEF Entered
  <2> HIDE DEF entered
  <2>2. Frames(docs, visited \cup {location}, entered)
    BY <1>1, <2>1 DEF Frames
  <2> QED
    BY <1>2, <2>1, <2>2 DEF entered
<1>3. CASE location \notin visited
  <2>1. entered = <<f>> \o frames
    BY <1>3 DEF Entered
  <2>2. IsFrame(docs, visited \cup {location}, f)
    <3>1. /\ f.place = location
          /\ f.references = References(Node(now, location.doc, location.at))
          /\ f.children = Children(now, location.doc, location.at, SchemaKeywords)
          /\ f = [place |-> f.place, references |-> f.references, children |-> f.children]
      OBVIOUS
    <3>2. location.doc \in DOMAIN docs /\ location.at \in DOMAIN docs[location.doc].nodes
      BY DEF IsLocated
    <3>3. f.references = References(Node(docs, location.doc, location.at))
      BY <3>1, <3>2, AgreeingNode
    <3>4. f.children = Children(docs, location.doc, location.at, SchemaKeywords)
      BY <3>1, <3>2, AgreeingNode DEF Children
    <3> HIDE DEF f
    <3> QED
      BY <3>1, <3>3, <3>4 DEF IsFrame
  <2>3. /\ f.place = location
        /\ f.references = References(Node(docs, location.doc, location.at))
    BY AgreeingNode DEF IsLocated
  <2> HIDE DEF f, entered
  <2>4. frames \in Seq(Range(frames))
    BY DEF Frames
  <2>5. entered \in Seq(Range(entered))
    BY <2>1, <2>4, Pushed
  <2>6. /\ DOMAIN frames = 1..Len(frames) /\ Len(frames) \in Nat
        /\ DOMAIN entered = 1..Len(frames) + 1
    BY <2>1, <2>4, Pushed
  <2>7. entered[1] = f
    BY <2>1, <2>4, Pushed
  <2>8. \A i \in 1..Len(frames) : i + 1 \in DOMAIN entered /\ entered[i + 1] = frames[i]
    BY <2>1, <2>4, Pushed
  <2>9. \A i \in DOMAIN entered : i = 1 \/ (i - 1 \in 1..Len(frames) /\ entered[i] = frames[i - 1])
    BY <2>1, <2>4, Pushed
  <2>10. \A i \in DOMAIN frames : frames[i].place \in visited /\ frames[i].place # location
    BY <1>3 DEF Frames, IsFrame
  <2>11. \A i, j \in DOMAIN entered : entered[i].place = entered[j].place => i = j
    <3> TAKE i, j \in DOMAIN entered
    <3> HAVE entered[i].place = entered[j].place
    <3>1. CASE i = 1 \/ j = 1
      BY <2>3, <2>6, <2>7, <2>9, <2>10, <3>1
    <3>2. CASE i # 1 /\ j # 1
      <4>1. /\ i - 1 \in DOMAIN frames /\ j - 1 \in DOMAIN frames
            /\ entered[i] = frames[i - 1] /\ entered[j] = frames[j - 1]
        BY <2>6, <2>9, <3>2
      <4>2. frames[i - 1].place = frames[j - 1].place
        BY <4>1
      <4>3. i - 1 = j - 1
        BY <4>1, <4>2 DEF Frames
      <4> QED
        BY <2>6, <4>3
    <3> QED
      BY <3>1, <3>2
  <2>12. Frames(docs, visited \cup {location}, entered)
    BY <1>1, <2>2, <2>5, <2>6, <2>7, <2>9, <2>11 DEF Frames
  <2>13. \A place, keyword : Pending(frames, place, keyword) => Pending(entered, place, keyword)
    BY <2>6, <2>8 DEF Pending
  <2>14. \A place \in visited : \A keyword : Pending(entered, place, keyword) => Pending(frames, place, keyword)
    BY <1>3, <2>3, <2>6, <2>7, <2>9 DEF Pending
  <2>15. \A keyword \in References(Node(docs, location.doc, location.at)) :
           Pending(entered, location, keyword)
    BY <2>3, <2>6, <2>7 DEF Pending
  <2> QED
    BY <2>12, <2>13, <2>14, <2>15 DEF entered
<1> QED
  BY <1>2, <1>3

-----------------------------------------------------------------------------
(* A reference that leads to a schema that was followed, where it was      *)
(* written to; it will, whatever else is indexed.                          *)
Leads(now, graph, seen, place, keyword) ==
  LET raw == ResolveRaw(now, graph, place.base, Node(now, place.doc, place.at)[keyword])
  IN /\ raw # NoLocation
     /\ Charted(input.documents, graph, raw.doc, raw.at)
     /\ PlaceAt(input.documents, raw.doc, raw.at) \in seen
     /\ Written(place, keyword, raw.doc, raw.at)

Settled(now, graph, seen, frames, place, keyword) ==
  \/ Pending(frames, place, keyword)
  \/ BuiltInReferenceResolves(place.base, Node(now, place.doc, place.at)[keyword])
  \/ Leads(now, graph, seen, place, keyword)

FollowingInv ==
  \A place \in visited :
    \A keyword \in References(Node(input.documents, place.doc, place.at)) :
      Settled(documents, Graph, visited, stack, place, keyword)

(* Only a reference that was followed is rewritten.                        *)
RewritingInv ==
  \A d \in DOMAIN input.documents : \A at \in DOMAIN input.documents[d].nodes :
    LET place == PlaceAt(input.documents, d, at)
    IN Has(Node(input.documents, d, at), "ref") =>
         /\ IsReference(Node(documents, d, at).ref)
         /\ place \notin visited \/ Pending(stack, place, "ref") =>
              Node(documents, d, at).ref = Node(input.documents, d, at).ref

ResourcesInv ==
  /\ WellFormed(input.documents) /\ Agrees(input.documents, documents)
  /\ next \in Nat \ {0}
  /\ GraphInv(input.documents, Graph)
  /\ \A location \in visited : IsLocated(input.documents, location)
  /\ Frames(input.documents, visited, stack)
  /\ outcome = "prepared" => stack = <<>>
  /\ FollowingInv
  /\ RewritingInv

LEMMA ReferenceIs ==
  ASSUME ResourcesInv, NEW place, IsLocated(input.documents, place),
         NEW keyword \in References(Node(input.documents, place.doc, place.at))
  PROVE  IsReference(Node(documents, place.doc, place.at)[keyword])
<1> DEFINE docs == input.documents
<1>1. /\ place.doc \in DOMAIN docs /\ place.at \in DOMAIN docs[place.doc].nodes
      /\ Has(Node(docs, place.doc, place.at), keyword)
      /\ keyword \in {"ref", "dynamicRef"}
  BY DEF IsLocated, References, ReferenceKeywords, Has
<1>2. CASE keyword = "ref"
  BY <1>1, <1>2 DEF ResourcesInv, RewritingInv
<1>3. CASE keyword # "ref"
  <2>1. Node(documents, place.doc, place.at)[keyword] = Node(docs, place.doc, place.at)[keyword]
    BY <1>1, <1>3, AgreeingNode DEF ResourcesInv
  <2>2. IsReference(Node(docs, place.doc, place.at)[keyword])
    BY <1>1 DEF ResourcesInv, WellFormed, IsDocument, Node, Has
  <2> QED
    BY <2>1, <2>2
<1> QED
  BY <1>2, <1>3

LEMMA LeadsIsKept ==
  ASSUME ResourcesInv, NEW later, Agrees(input.documents, later),
         NEW larger, Extends(Graph, larger), NEW seen, visited \subseteq seen,
         NEW place, NEW keyword,
         Node(later, place.doc, place.at)[keyword] = Node(documents, place.doc, place.at)[keyword],
         Leads(documents, Graph, visited, place, keyword)
  PROVE  Leads(later, larger, seen, place, keyword)
<1> DEFINE reference == Node(documents, place.doc, place.at)[keyword]
           raw == ResolveRaw(documents, Graph, place.base, reference)
           after == ResolveRaw(later, larger, place.base, reference)
<1>1. /\ raw # NoLocation
      /\ Charted(input.documents, Graph, raw.doc, raw.at)
      /\ PlaceAt(input.documents, raw.doc, raw.at) \in visited
      /\ Written(place, keyword, raw.doc, raw.at)
  BY DEF Leads
<1>2. after # NoLocation /\ after.doc = raw.doc /\ after.at = raw.at
  BY <1>1, RawIsKept DEF ResourcesInv
<1>3. ResolveRaw(later, larger, place.base, Node(later, place.doc, place.at)[keyword]) = after
  OBVIOUS
<1> HIDE DEF after, raw, reference
<1>4. Charted(input.documents, larger, raw.doc, raw.at)
  BY <1>1, ChartedIsKept
<1> QED
  BY <1>1, <1>2, <1>3, <1>4 DEF Leads

(* What a step has to keep.                                                *)
LEMMA ResourcesInvIsKept ==
  ASSUME ResourcesInv, input' = input, Agrees(input.documents, documents'),
         next' \in Nat \ {0},
         GraphInv(input.documents, Graph'), Extends(Graph, Graph'),
         visited \subseteq visited',
         \A location \in visited' : IsLocated(input.documents, location),
         Frames(input.documents, visited', stack'),
         outcome' = "prepared" => stack' = <<>>,
         \A place \in visited' \ visited :
           \A keyword \in References(Node(input.documents, place.doc, place.at)) :
             Pending(stack', place, keyword),
         \A place \in visited :
           \A keyword \in References(Node(input.documents, place.doc, place.at)) :
             IF Pending(stack, place, keyword)
             THEN Settled(documents', Graph', visited', stack', place, keyword)
             ELSE Node(documents', place.doc, place.at)[keyword]
                    = Node(documents, place.doc, place.at)[keyword],
         \A place \in visited : \A keyword :
           Pending(stack', place, keyword) => Pending(stack, place, keyword),
         \A d \in DOMAIN input.documents : \A at \in DOMAIN input.documents[d].nodes :
           Has(Node(input.documents, d, at), "ref") =>
             \/ Node(documents', d, at).ref = Node(documents, d, at).ref
             \/ /\ IsReference(Node(documents', d, at).ref)
                /\ PlaceAt(input.documents, d, at) \in visited
                /\ ~Pending(stack', PlaceAt(input.documents, d, at), "ref")
  PROVE  ResourcesInv'
<1> DEFINE docs == input.documents
<1>1. \A place, keyword, d, at : Written(place, keyword, d, at)' <=> Written(place, keyword, d, at)
  BY DEF Written, Identifies, LexicalBase
<1>2. ASSUME NEW place \in visited',
             NEW keyword \in References(Node(docs, place.doc, place.at))
      PROVE  Settled(documents', Graph', visited', stack', place, keyword)
  <2>1. CASE place \notin visited
    BY <2>1 DEF Settled
  <2>2. CASE place \in visited /\ Pending(stack, place, keyword)
    BY <2>2
  <2>3. CASE place \in visited /\ ~Pending(stack, place, keyword)
    <3>1. Node(documents', place.doc, place.at)[keyword]
            = Node(documents, place.doc, place.at)[keyword]
      BY <2>3
    <3>2. Settled(documents, Graph, visited, stack, place, keyword)
      BY <2>3 DEF ResourcesInv, FollowingInv
    <3>3. CASE BuiltInReferenceResolves(place.base, Node(documents, place.doc, place.at)[keyword])
      BY <3>1, <3>3 DEF Settled
    <3>4. CASE Leads(documents, Graph, visited, place, keyword)
      BY <3>1, <3>4, LeadsIsKept DEF Settled
    <3> QED
      BY <2>3, <3>2, <3>3, <3>4 DEF Settled
  <2> QED
    BY <2>1, <2>2, <2>3
<1>3. FollowingInv'
  BY <1>1, <1>2 DEF FollowingInv, Settled, Leads
<1>4. ASSUME NEW d \in DOMAIN docs, NEW at \in DOMAIN docs[d].nodes,
             Has(Node(docs, d, at), "ref")
      PROVE  /\ IsReference(Node(documents', d, at).ref)
             /\ (PlaceAt(docs, d, at) \notin visited' \/ Pending(stack', PlaceAt(docs, d, at), "ref")) =>
                  Node(documents', d, at).ref = Node(docs, d, at).ref
  <2> DEFINE place == PlaceAt(docs, d, at)
  <2>1. /\ IsReference(Node(documents, d, at).ref)
        /\ place \notin visited \/ Pending(stack, place, "ref") =>
             Node(documents, d, at).ref = Node(docs, d, at).ref
    BY <1>4 DEF ResourcesInv, RewritingInv
  <2>2. place \notin visited' \/ Pending(stack', place, "ref") =>
          place \notin visited \/ Pending(stack, place, "ref")
    OBVIOUS
  <2>3. CASE Node(documents', d, at).ref = Node(documents, d, at).ref
    BY <2>1, <2>2, <2>3
  <2>4. CASE Node(documents', d, at).ref # Node(documents, d, at).ref
    BY <1>4, <2>4
  <2> QED
    BY <2>3, <2>4
<1>5. RewritingInv'
  BY <1>4 DEF RewritingInv
<1> QED
  BY <1>3, <1>5 DEF ResourcesInv

-----------------------------------------------------------------------------
LEMMA ExtendsItself == ASSUME NEW graph PROVE Extends(graph, graph)
BY DEF Extends

LEMMA DocumentsStay ==
  ASSUME ResourcesInv, documents' = documents
  PROVE  /\ Agrees(input.documents, documents')
         /\ \A d \in DOMAIN input.documents : \A at \in DOMAIN input.documents[d].nodes :
              Node(documents', d, at).ref = Node(documents, d, at).ref
         /\ \A place, keyword :
              Node(documents', place.doc, place.at)[keyword]
                = Node(documents, place.doc, place.at)[keyword]
BY DEF ResourcesInv

LEMMA GraphStays ==
  ASSUME ResourcesInv, UNCHANGED <<aliases, anchors, indexed>>
  PROVE  Graph' = Graph /\ GraphInv(input.documents, Graph') /\ Extends(Graph, Graph')
<1>1. Graph' = Graph
  BY DEF Graph
<1> QED
  BY <1>1, ExtendsItself DEF ResourcesInv

(* A step that follows nothing.                                            *)
LEMMA NothingFollowed ==
  ASSUME ResourcesInv, UNCHANGED <<input, documents, visited, stack>>,
         GraphInv(input.documents, Graph'), Extends(Graph, Graph'),
         next' \in Nat \ {0}, outcome' = "prepared" => stack = <<>>
  PROVE  ResourcesInv'
<1>1. /\ \A location \in visited' : IsLocated(input.documents, location)
      /\ Frames(input.documents, visited', stack')
  BY DEF ResourcesInv
<1>2. \A place, keyword :
        Pending(stack, place, keyword) =>
          Settled(documents', Graph', visited', stack', place, keyword)
  BY DEF Settled
<1> QED
  BY <1>1, <1>2, DocumentsStay, ResourcesInvIsKept

LEMMA InitHolds ==
  ASSUME ResourcesInit
  PROVE  ResourcesInv
<1>1. input \in Input /\ documents = input.documents
  BY DEF ResourcesInit
<1>2. WellFormed(input.documents)
  BY <1>1, ResourcesAssumption DEF WellFormed
<1>3. Agrees(input.documents, documents)
  BY <1>1, <1>2 DEF Agrees, WellFormed
<1>4. DOMAIN aliases = {} /\ DOMAIN anchors = {} /\ indexed = {}
  <2>1. \A f : f = << >> => DOMAIN f = {}
    OBVIOUS
  <2> QED
    BY <2>1 DEF ResourcesInit
<1>5. GraphInv(input.documents, Graph)
  BY <1>4 DEF GraphInv, Graph
<1>6. /\ visited = {} /\ stack = <<>> /\ next = 1 /\ outcome = "admitting"
  BY DEF ResourcesInit
<1>7. Frames(input.documents, visited, stack)
  <2>1. stack \in Seq(Range(stack)) /\ DOMAIN stack = {}
    BY <1>6
  <2> QED
    BY <2>1 DEF Frames
<1>8. FollowingInv
  BY <1>6 DEF FollowingInv
<1>9. RewritingInv
  <2> SUFFICES ASSUME NEW d \in DOMAIN input.documents,
                      NEW at \in DOMAIN input.documents[d].nodes,
                      Has(Node(input.documents, d, at), "ref")
               PROVE  IsReference(Node(input.documents, d, at).ref)
    BY <1>1 DEF RewritingInv
  <2> QED
    BY <1>2 DEF WellFormed, IsDocument, Node, Has
<1> QED
  BY <1>2, <1>3, <1>5, <1>6, <1>7, <1>8, <1>9 DEF ResourcesInv

LEMMA RootIs ==
  ASSUME NEW docs, WellFormed(docs), NEW now, Agrees(docs, now), NEW d \in DOMAIN docs
  PROVE  Root(now, d) = PlaceAt(docs, d, <<>>) /\ IsLocated(docs, Root(now, d))
<1>1. <<>> \in DOMAIN docs[d].nodes
  BY DEF WellFormed, IsDocument
<1>2. Lexical(docs, d, <<>>) = BaseIn(Node(docs, d, <<>>), docs[d].uri)
  BY <1>1, LexicalStep
<1>3. BaseIn(Node(now, d, <<>>), now[d].uri) = BaseIn(Node(docs, d, <<>>), docs[d].uri)
  <2>1. now[d].uri = docs[d].uri
    BY DEF Agrees
  <2> QED
    BY <1>1, <2>1, AgreeingBase
<1>4. Root(now, d) = PlaceAt(docs, d, <<>>)
  BY <1>2, <1>3 DEF Root, PlaceAt
<1>5. PlaceAt(docs, d, <<>>).doc = d /\ PlaceAt(docs, d, <<>>).at = <<>>
  BY DEF PlaceAt
<1> QED
  BY <1>1, <1>4, <1>5 DEF IsLocated

LEMMA AdmitKeeps == ASSUME ResourcesInv, Admit PROVE ResourcesInv'
<1>1. outcome' # "prepared"
  BY DEF Admit, Refusals
<1>2. next' \in Nat \ {0}
  BY DEF Admit, ResourcesInv
<1> QED
  BY <1>1, <1>2, GraphStays, NothingFollowed DEF Admit

LEMMA StartFollowingKeeps == ASSUME ResourcesInv, StartFollowing PROVE ResourcesInv'
BY GraphStays, NothingFollowed DEF StartFollowing

LEMMA PrepareKeeps == ASSUME ResourcesInv, Prepare PROVE ResourcesInv'
<1>1. next' \in Nat \ {0}
  BY DEF Prepare, ResourcesInv
<1> QED
  BY <1>1, GraphStays, NothingFollowed DEF Prepare

LEMMA NextDocument ==
  ASSUME ResourcesInv, next <= Len(documents)
  PROVE  next \in DOMAIN input.documents
<1>1. documents \in Seq(Range(documents)) /\ DOMAIN documents = DOMAIN input.documents
  BY DEF ResourcesInv, Agrees
<1>2. DOMAIN documents = 1..Len(documents) /\ Len(documents) \in Nat
  BY <1>1, LenProperties
<1> QED
  BY <1>1, <1>2 DEF ResourcesInv

LEMMA AnchorIsKept ==
  ASSUME NEW docs, NEW graph, NEW larger, Extends(graph, larger), NEW key, NEW l,
         IsAnchor(docs, graph, key, l)
  PROVE  IsAnchor(docs, larger, key, l)
BY DEF IsAnchor, InResource, Extends

(* A document is known by where it was retrieved from and by its identity. *)
WithDocument(docs, graph, d, known) ==
  LET root == Root(docs, d)
      own  == {docs[d].uri, root.base}
  IN /\ ~Taken(docs, graph, root.base, root)
     /\ docs[d].uri \notin DOMAIN graph.aliases
     /\ known.anchors = graph.anchors /\ known.indexed = graph.indexed
     /\ known.aliases = [ uri \in own \cup DOMAIN graph.aliases |->
                             IF uri \in own THEN root ELSE graph.aliases[uri] ]

LEMMA DocumentIsKnown ==
  ASSUME NEW docs, WellFormed(docs), NEW now, Agrees(docs, now),
         NEW graph, GraphInv(docs, graph), NEW d \in DOMAIN docs,
         NEW known, WithDocument(now, graph, d, known)
  PROVE  /\ GraphInv(docs, known) /\ Extends(graph, known)
         /\ Root(now, d).base \in DOMAIN known.aliases
         /\ known.aliases[Root(now, d).base] = Root(now, d)
         /\ Indexable(docs, <<>>, Root(now, d))
<1> DEFINE root == Root(now, d)
           own == {now[d].uri, root.base}
<1>1. root = PlaceAt(docs, d, <<>>) /\ IsLocated(docs, root)
  BY RootIs
<1>2. root.doc = d /\ root.at = <<>> /\ root.base = Lexical(docs, d, <<>>)
  BY <1>1 DEF PlaceAt
<1>3. now[d].uri = docs[d].uri
  BY DEF Agrees
<1>4. root.base \in DOMAIN graph.aliases => graph.aliases[root.base] = root
  BY DEF Taken, WithDocument
<1>5. /\ DOMAIN known.aliases = own \cup DOMAIN graph.aliases
      /\ \A uri \in own : known.aliases[uri] = root
      /\ \A uri \in DOMAIN graph.aliases \ own : known.aliases[uri] = graph.aliases[uri]
      /\ own = {docs[d].uri, root.base}
      /\ docs[d].uri \notin DOMAIN graph.aliases
      /\ known.anchors = graph.anchors /\ known.indexed = graph.indexed
  <2> HIDE DEF root
  <2> QED
    BY <1>3 DEF WithDocument, root
<1> HIDE DEF root, own
<1>6. Extends(graph, known)
  BY <1>4, <1>5 DEF Extends
<1>7. Aliased(docs, known, d, <<>>)
  BY <1>1, <1>2, <1>5 DEF Aliased
<1>8. ASSUME NEW uri \in DOMAIN known.aliases
      PROVE  IsResource(docs, known, uri, known.aliases[uri])
  <2>1. CASE uri \in own
    BY <1>1, <1>2, <1>5, <1>7, <2>1 DEF IsResource, IsIdentity
  <2>2. CASE uri \notin own
    <3>1. IsResource(docs, graph, uri, graph.aliases[uri]) /\ known.aliases[uri] = graph.aliases[uri]
      BY <1>5, <2>2 DEF GraphInv
    <3> QED
      BY <1>6, <3>1, AliasedIsKept DEF IsResource
  <2> QED
    BY <2>1, <2>2
<1>9. ASSUME NEW key \in DOMAIN known.anchors
      PROVE  IsAnchor(docs, known, key, known.anchors[key])
  <2>1. IsAnchor(docs, graph, key, known.anchors[key])
    BY <1>5 DEF GraphInv
  <2> QED
    BY <1>6, <2>1, AnchorIsKept
<1>10. \A e \in known.indexed :
         e.at # <<>> /\ Identified(docs, e.doc, e.at) => Aliased(docs, known, e.doc, e.at)
  BY <1>5, <1>6, AliasedIsKept DEF GraphInv
<1>11. GraphInv(docs, known)
  BY <1>8, <1>9, <1>10 DEF GraphInv
<1>12. Indexable(docs, <<>>, root)
  <2>1. <<>> \in DOMAIN docs[root.doc].nodes /\ <<>> \in Seq(Steps(docs)) /\ Len(<<>>) = 0
    BY <1>1, <1>2, PointersAre DEF IsLocated
  <2>2. IsPrefix(<<>>, <<>>)
    BY <2>1 DEF IsPrefix
  <2> QED
    BY <1>1, <1>2, <2>1, <2>2 DEF Indexable
<1> QED
  BY <1>5, <1>6, <1>11, <1>12 DEF root

(* A document is refused, or its schemas are indexed.                      *)
DocumentIndexed(known, root) ==
  /\ GraphInv(input.documents, known) /\ Extends(Graph, known)
  /\ root = PlaceAt(input.documents, next, <<>>)
  /\ root.base \in DOMAIN known.aliases /\ known.aliases[root.base] = root
  /\ \A uri \in DOMAIN known.aliases :
       \/ uri \in DOMAIN Graph.aliases /\ known.aliases[uri] = Graph.aliases[uri]
       \/ known.aliases[uri] = root /\ uri \notin BuiltIn
  /\ Indexable(input.documents, <<>>, root)
  /\ Index(documents, known, <<>>, root) # NoGraph
  /\ Graph' = Index(documents, known, <<>>, root)
  /\ UNCHANGED outcome

LEMMA IndexingDocument ==
  ASSUME ResourcesInv, IndexDocument
  PROVE  /\ next <= Len(documents) /\ next' = next + 1
         /\ next \in DOMAIN input.documents /\ next' \in Nat \ {0}
         /\ UNCHANGED <<input, documents, visited, stack>>
         /\ \/ outcome' = "identity-taken" /\ UNCHANGED <<aliases, anchors, indexed>>
            \/ \E known, root : DocumentIndexed(known, root)
<1> DEFINE docs == input.documents
           root == Root(documents, next)
           own == {documents[next].uri, root.base}
           known == [ Graph EXCEPT !.aliases =
                        [ uri \in own \cup DOMAIN aliases |->
                            IF uri \in own THEN root ELSE aliases[uri] ] ]
           refused == Taken(documents, Graph, root.base, root)
                      \/ documents[next].uri \in BuiltIn \cup DOMAIN aliases
           graph == IF refused THEN NoGraph ELSE Index(documents, known, <<>>, root)
<1>1. /\ next <= Len(documents) /\ next' = next + 1
      /\ UNCHANGED <<input, documents, visited, stack>>
      /\ IF graph = NoGraph
         THEN outcome' = "identity-taken" /\ UNCHANGED <<aliases, anchors, indexed>>
         ELSE /\ aliases' = graph.aliases /\ anchors' = graph.anchors
              /\ indexed' = graph.indexed
              /\ UNCHANGED outcome
  BY DEF IndexDocument
<1>2. next \in DOMAIN docs /\ next' \in Nat \ {0}
  BY <1>1, NextDocument DEF ResourcesInv
<1>3. CASE graph = NoGraph
  <2> HIDE DEF graph
  <2> QED
    BY <1>1, <1>2, <1>3
<1>4. CASE graph # NoGraph
  <2>1. ~refused /\ graph = Index(documents, known, <<>>, root)
    <3> HIDE DEF refused
    <3> QED
      BY <1>4
  <2>2. /\ known.anchors = Graph.anchors /\ known.indexed = Graph.indexed
        /\ known.aliases = [ uri \in own \cup DOMAIN Graph.aliases |->
                               IF uri \in own THEN root ELSE Graph.aliases[uri] ]
        /\ documents[next].uri \notin DOMAIN Graph.aliases
    BY <2>1 DEF Graph
  <2>3. own \cap BuiltIn = {}
    BY <2>1 DEF Taken
  <2> HIDE DEF known, graph
  <2>4. WellFormed(docs) /\ Agrees(docs, documents) /\ GraphInv(docs, Graph)
    BY DEF ResourcesInv
  <2>5. /\ GraphInv(docs, known) /\ Extends(Graph, known)
        /\ root.base \in DOMAIN known.aliases /\ known.aliases[root.base] = root
        /\ Indexable(docs, <<>>, root)
    <3>1. WithDocument(documents, Graph, next, known)
      BY <2>1, <2>2 DEF WithDocument
    <3> QED
      BY <1>2, <2>4, <3>1, DocumentIsKnown
  <2>6. root = PlaceAt(docs, next, <<>>)
    BY <1>2, <2>4, RootIs
  <2>7. \A uri \in DOMAIN known.aliases :
          \/ uri \in DOMAIN Graph.aliases /\ known.aliases[uri] = Graph.aliases[uri]
          \/ known.aliases[uri] = root /\ uri \notin BuiltIn
    <3> HIDE DEF root, own
    <3> QED
      BY <2>2, <2>3
  <2> HIDE DEF root
  <2>8. Graph' = [aliases |-> graph.aliases, anchors |-> graph.anchors, indexed |-> graph.indexed]
    BY <1>1, <1>4 DEF Graph
  <2>9. graph = [aliases |-> graph.aliases, anchors |-> graph.anchors, indexed |-> graph.indexed]
    <3>1. Index(documents, known, <<>>, root) # NoGraph
      BY <1>4, <2>1
    <3>2. \E a, b, c : Index(documents, known, <<>>, root) = [aliases |-> a, anchors |-> b, indexed |-> c]
      BY <3>1, Zenon DEF Index
    <3> QED
      BY <2>1, <3>2
  <2>10. DocumentIndexed(known, root)
    BY <1>1, <1>4, <2>1, <2>5, <2>6, <2>7, <2>8, <2>9 DEF DocumentIndexed
  <2> QED
    BY <1>1, <1>2, <2>10
<1> QED
  BY <1>3, <1>4

LEMMA IndexDocumentKeeps == ASSUME ResourcesInv, IndexDocument PROVE ResourcesInv'
<1> DEFINE docs == input.documents
<1>1. /\ next' \in Nat \ {0}
      /\ UNCHANGED <<input, documents, visited, stack>>
      /\ \/ outcome' = "identity-taken" /\ UNCHANGED <<aliases, anchors, indexed>>
         \/ \E known, root : DocumentIndexed(known, root)
  BY IndexingDocument
<1>2. CASE outcome' = "identity-taken" /\ UNCHANGED <<aliases, anchors, indexed>>
  BY <1>1, <1>2, GraphStays, NothingFollowed
<1>3. ASSUME NEW known, NEW root, DocumentIndexed(known, root) PROVE ResourcesInv'
  <2>1. WellFormed(docs) /\ Agrees(docs, documents) /\ GraphInv(docs, Graph)
    BY DEF ResourcesInv
  <2>2. /\ GraphInv(docs, known) /\ Extends(Graph, known)
        /\ root.base \in DOMAIN known.aliases /\ known.aliases[root.base] = root
        /\ Indexable(docs, <<>>, root) /\ Index(documents, known, <<>>, root) # NoGraph
        /\ Graph' = Index(documents, known, <<>>, root) /\ UNCHANGED outcome
    BY <1>3 DEF DocumentIndexed
  <2>3. GraphInv(docs, Graph') /\ Extends(known, Graph')
    BY <2>1, <2>2, IndexKeeps
  <2>4. Extends(Graph, Graph')
    BY <2>2, <2>3, ExtendsIsTransitive
  <2>5. outcome' = "prepared" => stack = <<>>
    BY <2>2 DEF ResourcesInv
  <2> QED
    BY <1>1, <2>3, <2>4, <2>5, NothingFollowed
<1> QED
  BY <1>1, <1>2, <1>3

-----------------------------------------------------------------------------
(* A step that enters a schema, with frames for what is left around it.    *)
LEMMA EnterKeeps ==
  ASSUME ResourcesInv, NEW location, IsLocated(input.documents, location),
         NEW frames, Frames(input.documents, visited, frames),
         Enter(documents, location, frames),
         input' = input, Agrees(input.documents, documents'), next' \in Nat \ {0},
         GraphInv(input.documents, Graph'), Extends(Graph, Graph'), outcome' # "prepared",
         \A place \in visited :
           \A keyword \in References(Node(input.documents, place.doc, place.at)) :
             IF Pending(stack, place, keyword)
             THEN Settled(documents', Graph', visited', frames, place, keyword)
             ELSE Node(documents', place.doc, place.at)[keyword]
                    = Node(documents, place.doc, place.at)[keyword],
         \A place \in visited : \A keyword :
           Pending(frames, place, keyword) => Pending(stack, place, keyword),
         \A d \in DOMAIN input.documents : \A at \in DOMAIN input.documents[d].nodes :
           Has(Node(input.documents, d, at), "ref") =>
             \/ Node(documents', d, at).ref = Node(documents, d, at).ref
             \/ /\ IsReference(Node(documents', d, at).ref)
                /\ PlaceAt(input.documents, d, at) \in visited
                /\ ~Pending(frames, PlaceAt(input.documents, d, at), "ref")
  PROVE  ResourcesInv'
<1> DEFINE docs == input.documents
<1>1. visited' = visited \cup {location} /\ stack' = Entered(documents, location, frames)
  BY DEF Enter
<1>2. Agrees(docs, documents)
  BY DEF ResourcesInv
<1>3. /\ Frames(docs, visited \cup {location}, stack')
      /\ \A place, keyword : Pending(frames, place, keyword) => Pending(stack', place, keyword)
      /\ \A place \in visited : \A keyword :
           Pending(stack', place, keyword) => Pending(frames, place, keyword)
      /\ location \notin visited =>
           \A keyword \in References(Node(docs, location.doc, location.at)) :
             Pending(stack', location, keyword)
  BY <1>1, <1>2, Entering
<1>4. /\ visited \subseteq visited' /\ Frames(docs, visited', stack')
      /\ \A l \in visited' : IsLocated(docs, l)
      /\ \A place \in visited' \ visited :
           \A keyword \in References(Node(docs, place.doc, place.at)) :
             Pending(stack', place, keyword)
  BY <1>1, <1>3 DEF ResourcesInv
<1>5. \A place \in visited :
        \A keyword \in References(Node(docs, place.doc, place.at)) :
          IF Pending(stack, place, keyword)
          THEN Settled(documents', Graph', visited', stack', place, keyword)
          ELSE Node(documents', place.doc, place.at)[keyword]
                 = Node(documents, place.doc, place.at)[keyword]
  BY <1>3 DEF Settled
<1>6. \A place \in visited : \A keyword :
        Pending(stack', place, keyword) => Pending(stack, place, keyword)
  BY <1>3
<1>7. \A d \in DOMAIN docs : \A at \in DOMAIN docs[d].nodes :
        Has(Node(docs, d, at), "ref") =>
          \/ Node(documents', d, at).ref = Node(documents, d, at).ref
          \/ /\ IsReference(Node(documents', d, at).ref)
             /\ PlaceAt(docs, d, at) \in visited
             /\ ~Pending(stack', PlaceAt(docs, d, at), "ref")
  BY <1>3
<1> QED
  BY <1>4, <1>5, <1>6, <1>7, ResourcesInvIsKept

LEMMA FollowDocumentKeeps == ASSUME ResourcesInv, FollowDocument PROVE ResourcesInv'
<1>1. /\ stack = <<>> /\ next <= Len(documents) /\ next' = next + 1
      /\ Enter(documents, Root(documents, next), <<>>)
      /\ UNCHANGED <<input, documents, aliases, anchors, indexed, outcome>>
      /\ outcome = "following"
  BY DEF FollowDocument
<1>2. next \in DOMAIN input.documents /\ next' \in Nat \ {0}
  BY <1>1, NextDocument DEF ResourcesInv
<1>3. IsLocated(input.documents, Root(documents, next))
  BY <1>2, RootIs DEF ResourcesInv
<1>4. Frames(input.documents, visited, stack)
  BY DEF ResourcesInv
<1>5. \A place, keyword :
        Pending(stack, place, keyword) =>
          Settled(documents', Graph', visited', stack, place, keyword)
  BY DEF Settled
<1>6. Enter(documents, Root(documents, next), stack)
  BY <1>1
<1> QED
  BY <1>1, <1>2, <1>3, <1>4, <1>5, <1>6, DocumentsStay, GraphStays, EnterKeeps

LEMMA FrameOf ==
  ASSUME ResourcesInv, stack # <<>>
  PROVE  /\ IsFrame(input.documents, visited, Head(stack))
         /\ IsLocated(input.documents, Head(stack).place)
         /\ \A keyword \in Head(stack).references : Pending(stack, Head(stack).place, keyword)
<1>1. Frames(input.documents, visited, stack)
  BY DEF ResourcesInv
<1>2. stack \in Seq(Range(stack))
  BY <1>1 DEF Frames
<1>3. Head(stack) = stack[1] /\ 1 \in DOMAIN stack
  BY <1>2, Popped
<1>4. IsFrame(input.documents, visited, Head(stack))
  BY <1>1, <1>3 DEF Frames
<1> QED
  BY <1>3, <1>4 DEF IsFrame, ResourcesInv, Pending

LEMMA ChildIsLocated ==
  ASSUME NEW docs, WellFormed(docs), NEW now, Agrees(docs, now),
         NEW place, IsLocated(docs, place), NEW keywords,
         NEW child \in Children(docs, place.doc, place.at, keywords)
  PROVE  IsLocated(docs, [ doc |-> place.doc, at |-> child,
                         base |-> BaseIn(Node(now, place.doc, child), place.base) ])
<1> DEFINE d == place.doc
<1>1. /\ child \in DOMAIN docs[d].nodes /\ Len(child) = Len(place.at) + 1
      /\ IsPrefix(place.at, child)
  BY DEF Children
<1>2. /\ d \in DOMAIN docs /\ place.at \in DOMAIN docs[d].nodes
      /\ place = PlaceAt(docs, d, place.at)
  BY DEF IsLocated
<1>3. place.at \in Seq(Steps(docs)) /\ child \in Seq(Steps(docs)) /\ Len(place.at) \in Nat
  BY <1>1, <1>2, PointersAre
<1>4. /\ place.at = SubSeq(child, 1, Len(place.at))
      /\ SubSeq(child, 1, Len(child)) = child
  BY <1>1, <1>3, LongerPrefix, SubSeqFull
<1>5. place.base = Lexical(docs, d, place.at)
  BY <1>2 DEF PlaceAt
<1>6. /\ Len(child) \in 1..Len(child) /\ Len(child) - 1 = Len(place.at)
  BY <1>1, <1>3
<1>7. Lexical(docs, d, SubSeq(child, 1, Len(child))) =
        BaseIn(Node(docs, d, SubSeq(child, 1, Len(child))),
               Lexical(docs, d, SubSeq(child, 1, Len(child) - 1)))
  BY <1>1, <1>2, <1>6, LexicalStep
<1>8. Lexical(docs, d, child) = BaseIn(Node(docs, d, child), place.base)
  BY <1>4, <1>5, <1>6, <1>7
<1>9. BaseIn(Node(now, d, child), place.base) = BaseIn(Node(docs, d, child), place.base)
  BY <1>1, <1>2, AgreeingBase
<1> QED
  BY <1>1, <1>2, <1>8, <1>9 DEF IsLocated, PlaceAt

LEMMA FollowChildKeeps == ASSUME ResourcesInv, FollowChild PROVE ResourcesInv'
<1> DEFINE docs == input.documents
           frame == Head(stack)
           place == frame.place
<1>1. /\ stack # <<>> /\ frame.references = {} /\ outcome = "following"
      /\ UNCHANGED <<input, documents, aliases, anchors, indexed, next>>
  BY DEF FollowChild
<1>2. PICK child \in frame.children :
        LET schema == Node(documents, place.doc, child)
            base   == BaseIn(schema, place.base)
        IN IF SwitchesDialect(documents, place.doc, child)
           THEN outcome' = "nested-dialect" /\ UNCHANGED <<visited, stack>>
           ELSE /\ Enter(documents, [doc |-> place.doc, at |-> child, base |-> base],
                         << [frame EXCEPT !.children = @ \ {child}] >> \o Tail(stack))
                /\ UNCHANGED outcome
  BY DEF FollowChild
<1>3. next' \in Nat \ {0} /\ WellFormed(docs) /\ Agrees(docs, documents)
      /\ Frames(docs, visited, stack)
  BY <1>1 DEF ResourcesInv
<1>4. IsFrame(docs, visited, frame) /\ IsLocated(docs, place)
  BY <1>1, FrameOf
<1>5. CASE SwitchesDialect(documents, place.doc, child)
  <2>1. outcome' = "nested-dialect" /\ UNCHANGED <<visited, stack>>
    BY <1>2, <1>5
  <2> QED
    BY <1>1, <1>3, <2>1, GraphStays, NothingFollowed
<1>6. CASE ~SwitchesDialect(documents, place.doc, child)
  <2> DEFINE location == [ doc |-> place.doc, at |-> child,
                           base |-> BaseIn(Node(documents, place.doc, child), place.base) ]
             f == [frame EXCEPT !.children = @ \ {child}]
             rest == <<f>> \o Tail(stack)
  <2>1. Enter(documents, location, rest) /\ outcome' = "following"
    BY <1>1, <1>2, <1>6
  <2>2. IsLocated(docs, location)
    <3>1. child \in Children(docs, place.doc, place.at, SchemaKeywords)
      BY <1>4 DEF IsFrame
    <3> QED
      BY <1>3, <1>4, <3>1, ChildIsLocated
  <2>3. /\ IsFrame(docs, visited, f) /\ f.place = place /\ f.references = frame.references
    <3>1. /\ f = [ place |-> place, references |-> frame.references,
                   children |-> frame.children \ {child} ]
      BY <1>4 DEF IsFrame
    <3> HIDE DEF f
    <3>2. /\ f.place = place /\ f.references = frame.references
          /\ f.children = frame.children \ {child}
          /\ f = [place |-> f.place, references |-> f.references, children |-> f.children]
      BY <3>1
    <3> QED
      BY <1>4, <3>2 DEF IsFrame
  <2> HIDE DEF f, location
  <2>4. /\ Frames(docs, visited, rest)
        /\ \A p, k : Pending(rest, p, k) => Pending(stack, p, k)
        /\ \A p, k : Pending(stack, p, k) => Pending(rest, p, k)
    <3>1. f.references \subseteq frame.references
      BY <2>3
    <3>2. Frames(docs, visited, rest)
      BY <1>1, <1>3, <2>3, <3>1, Reduced
    <3>3. \A p, k : Pending(rest, p, k) => Pending(stack, p, k)
      BY <1>1, <1>3, <2>3, <3>1, Reduced
    <3>4. \A p, k : Pending(stack, p, k) => Pending(rest, p, k)
      BY <1>1, <1>3, <2>3, <3>1, Reduced
    <3> QED
      BY <3>2, <3>3, <3>4
  <2> HIDE DEF rest
  <2>5. \A p, k : Pending(stack, p, k) => Settled(documents', Graph', visited', rest, p, k)
    BY <2>4 DEF Settled
  <2> QED
    BY <1>1, <1>3, <2>1, <2>2, <2>4, <2>5, DocumentsStay, GraphStays, EnterKeeps
<1> QED
  BY <1>5, <1>6

LEMMA LeaveKeeps == ASSUME ResourcesInv, Leave PROVE ResourcesInv'
<1> DEFINE docs == input.documents
<1>1. /\ stack # <<>> /\ Head(stack).references = {} /\ stack' = Tail(stack)
      /\ UNCHANGED <<input, documents, aliases, anchors, indexed, visited, next, outcome>>
      /\ outcome = "following"
  BY DEF Leave
<1>2. /\ Frames(docs, visited, stack) /\ next' \in Nat \ {0}
      /\ \A l \in visited' : IsLocated(docs, l)
  BY <1>1 DEF ResourcesInv
<1>3. /\ Frames(docs, visited', stack')
      /\ \A p, k : Pending(stack, p, k) <=> Pending(stack', p, k)
  BY <1>1, <1>2, Finished
<1>4. \A p, k : Pending(stack, p, k) => Settled(documents', Graph', visited', stack', p, k)
  BY <1>3 DEF Settled
<1> QED
  BY <1>1, <1>2, <1>3, <1>4, DocumentsStay, GraphStays, ResourcesInvIsKept

-----------------------------------------------------------------------------
(* A pending reference is as it was written, and so is what it names.      *)
LEMMA PendingAsWritten ==
  ASSUME ResourcesInv, NEW place, IsLocated(input.documents, place),
         NEW keyword \in References(Node(input.documents, place.doc, place.at)),
         Pending(stack, place, keyword)
  PROVE  Node(documents, place.doc, place.at)[keyword]
           = Node(input.documents, place.doc, place.at)[keyword]
<1> DEFINE docs == input.documents
<1>1. /\ place.doc \in DOMAIN docs /\ place.at \in DOMAIN docs[place.doc].nodes
      /\ Has(Node(docs, place.doc, place.at), keyword)
      /\ PlaceAt(docs, place.doc, place.at) = place
  BY DEF IsLocated, References, Has
<1>2. CASE keyword = "ref"
  BY <1>1, <1>2 DEF ResourcesInv, RewritingInv
<1>3. CASE keyword # "ref"
  BY <1>1, <1>3, AgreeingNode DEF ResourcesInv
<1> QED
  BY <1>2, <1>3

LEMMA PendingIsWritten ==
  ASSUME ResourcesInv, NEW place, IsLocated(input.documents, place),
         NEW keyword \in References(Node(input.documents, place.doc, place.at)),
         Pending(stack, place, keyword),
         NEW raw, raw # NoLocation,
         raw = ResolveRaw(documents, Graph, place.base,
                          Node(documents, place.doc, place.at)[keyword])
  PROVE  Written(place, keyword, raw.doc, raw.at)
<1> DEFINE docs == input.documents
           reference == Node(documents, place.doc, place.at)[keyword]
           uri == ResolveUri(place.base, reference.to)
           root == Graph.aliases[uri]
           at == raw.at
           d == raw.doc
<1>1. reference = Node(docs, place.doc, place.at)[keyword]
  BY PendingAsWritten
<1>2. place.base = LexicalBase(place.doc, place.at)
  BY DEF IsLocated, PlaceAt, LexicalBase, Lexical
<1>3. \A e, b : LexicalBase(e, b) = Lexical(docs, e, b)
  BY DEF LexicalBase, Lexical
<1>4. IsReference(reference)
  BY ReferenceIs
<1> HIDE DEF reference
<1>5. /\ uri \in DOMAIN Graph.aliases /\ RawOf(docs, Graph, reference, root, raw)
  BY <1>4, RawIs DEF ResourcesInv, reference
<1>6. IsResource(docs, Graph, uri, root)
  BY <1>5 DEF ResourcesInv, GraphInv
<1> HIDE DEF root
<1>7. /\ d = root.doc /\ d \in DOMAIN docs /\ at \in DOMAIN docs[d].nodes
      /\ IsPrefix(root.at, at) /\ root.at \in DOMAIN docs[d].nodes
      /\ root.base = Lexical(docs, d, root.at)
  BY <1>5, <1>6 DEF RawOf, IsResource, IsLocated, PlaceAt
<1>8. root.at \in Seq(Steps(docs)) /\ at \in Seq(Steps(docs))
  BY <1>7, PointersAre DEF ResourcesInv
<1>9. Len(root.at) \in 0..Len(at) /\ root.at = SubSeq(at, 1, Len(root.at))
  BY <1>7, <1>8, LongerPrefix
<1>10. Identifies(uri, d, root.at)
  BY <1>3, <1>6, <1>7 DEF IsResource, IsIdentity, Identifies, Identified
<1>11. CASE Has(reference, "anchor")
  <2>1. /\ Has(Node(docs, d, at), "anchors") /\ reference.anchor \in Node(docs, d, at).anchors
        /\ Lexical(docs, d, at) = root.base
    BY <1>5, <1>11 DEF RawOf, IsLocated, PlaceAt
  <2>2. LexicalBase(d, at) = LexicalBase(d, root.at)
    BY <1>3, <1>7, <2>1
  <2> QED
    BY <1>1, <1>2, <1>9, <1>10, <1>11, <2>1, <2>2 DEF Written
<1>12. CASE ~Has(reference, "anchor")
  <2>1. SubSeq(at, Len(root.at) + 1, Len(at)) = reference.pointer
    BY <1>5, <1>12 DEF RawOf
  <2> QED
    BY <1>1, <1>2, <1>9, <1>10, <1>12, <2>1 DEF Written
<1> QED
  BY <1>11, <1>12

LEMMA CutJoined ==
  ASSUME NEW S, NEW s \in Seq(S), NEW m \in 0..Len(s)
  PROVE  /\ SubSeq(s, 1, m) \o SubSeq(s, m + 1, Len(s)) = s
         /\ SubSeq(s, m + 1, Len(s)) \in Seq(Range(SubSeq(s, m + 1, Len(s))))
<1> DEFINE a == SubSeq(s, 1, m)
           b == SubSeq(s, m + 1, Len(s))
           u == a \o b
<1>1. Len(s) \in Nat
  BY LenProperties
<1>2. a \in Seq(S) /\ Len(a) = m /\ \A i \in 1..m : a[i] = s[i]
  <2>1. a \in Seq(S) /\ Len(a) = m
    BY <1>1, PrefixesAre
  <2>2. \A i \in 1..m : a[i] = s[i]
    <3> TAKE i \in 1..m
    <3>1. i \in 1..(m - 1 + 1) /\ 1 + i - 1 = i
      BY <1>1
    <3> QED
      BY <1>1, <3>1, SubSeqProperties
  <2> QED
    BY <2>1, <2>2
<1>3. b \in Seq(S) /\ Len(b) = Len(s) - m /\ \A i \in 1..Len(s) - m : b[i] = s[m + i]
  <2>1. b \in Seq(S) /\ Len(b) = Len(s) - m
    BY <1>1, SubSeqProperties
  <2>2. \A i \in 1..Len(s) - m : b[i] = s[m + i]
    <3> TAKE i \in 1..Len(s) - m
    <3>1. m + 1 + i - 1 = m + i /\ i \in Nat
      BY <1>1
    <3> QED
      BY <1>1, <3>1, SubSeqProperties
  <2> QED
    BY <2>1, <2>2
<1> HIDE DEF a, b
<1>4. /\ u \in Seq(S) /\ Len(u) = Len(s)
      /\ \A i \in 1..Len(s) : u[i] = IF i <= m THEN a[i] ELSE b[i - m]
  BY <1>1, <1>2, <1>3, ConcatProperties
<1>5. \A i \in 1..Len(s) : u[i] = s[i]
  <2> TAKE i \in 1..Len(s)
  <2>1. CASE i <= m
    BY <1>1, <1>2, <1>4, <2>1
  <2>2. CASE ~(i <= m)
    <3>1. i - m \in 1..Len(s) - m /\ m + (i - m) = i
      BY <1>1, <2>2
    <3> QED
      BY <1>3, <1>4, <2>2, <3>1
  <2> QED
    BY <2>1, <2>2
<1>6. u = s
  <2> HIDE DEF u
  <2> QED
    BY <1>4, <1>5, SeqEqual
<1>7. b \in Seq(Range(b))
  <2>1. Len(b) \in Nat /\ b = [i \in 1..Len(b) |-> b[i]]
    BY <1>3, LenProperties
  <2> QED
    BY <2>1, SequenceOfItsRange
<1> QED
  BY <1>6, <1>7 DEF a, b

(* A reference that is rewritten leads to the same place.                  *)
LEMMA RewrittenResolves ==
  ASSUME NEW docs, WellFormed(docs), NEW later, Agrees(docs, later),
         NEW graph, NEW d \in DOMAIN docs, NEW at \in DOMAIN docs[d].nodes,
         Charted(docs, graph, d, at), NEW base,
         NEW reference, reference = Rewritten(PlaceAt(docs, d, at), graph)
  PROVE  /\ IsReference(reference)
         /\ ResolveRaw(later, graph, base, reference) # NoLocation
         /\ ResolveRaw(later, graph, base, reference).doc = d
         /\ ResolveRaw(later, graph, base, reference).at = at
<1> DEFINE target == PlaceAt(docs, d, at)
           uri == Lexical(docs, d, at)
           cut(n) == SubSeq(at, 1, n)
           raw == ResolveRaw(later, graph, base, reference)
<1>1. target.base = uri /\ target.at = at
  BY DEF PlaceAt
<1>2. \E m \in 0..Len(at) :
        /\ Aliased(docs, graph, d, cut(m))
        /\ uri = Lexical(docs, d, cut(m))
        /\ \A n \in m + 1..Len(at) : ~Identified(docs, d, cut(n))
  BY ChartedBase
<1>3. PICK m \in 0..Len(at) :
        Aliased(docs, graph, d, cut(m)) /\ uri = Lexical(docs, d, cut(m))
  BY <1>2
<1>4. at \in Seq(Steps(docs)) /\ Len(at) \in Nat
  BY PointersAre
<1>5. /\ uri \in DOMAIN graph.aliases /\ graph.aliases[uri].doc = d
      /\ graph.aliases[uri].at = cut(m) /\ Len(cut(m)) = m
  BY <1>3, <1>4, PrefixesAre DEF Aliased, PlaceAt
<1>6. /\ cut(m) \o SubSeq(at, m + 1, Len(at)) = at
      /\ SubSeq(at, m + 1, Len(at)) \in Seq(Range(SubSeq(at, m + 1, Len(at))))
  BY <1>4, CutJoined
<1>7. IsUri(uri) /\ uri.dir # ""
  BY LexicalIsAbsolute
<1> HIDE DEF target, uri, cut
<1>8. reference = [to |-> uri, pointer |-> SubSeq(at, m + 1, Len(at))]
  BY <1>1, <1>5 DEF Rewritten, target
<1>9. /\ reference.to = uri /\ reference.pointer = SubSeq(at, m + 1, Len(at))
      /\ ~Has(reference, "anchor")
  BY <1>8 DEF Has
<1>10. ResolveUri(base, reference.to) = uri
  <2>1. uri # Here
    <3>1. Here.dir = ""
      BY DEF Here
    <3> QED
      BY <1>7, <3>1
  <2> QED
    BY <1>7, <1>9, <2>1 DEF ResolveUri
<1>11. IsReference(reference)
  BY <1>6, <1>7, <1>9 DEF IsReference
<1>12. at \in DOMAIN later[d].nodes
  BY AgreeingNode
<1>13. graph.aliases[uri].at \o reference.pointer = at
  BY <1>5, <1>6, <1>9
<1>14. raw = [ doc |-> d, at |-> at,
               base |-> IF reference.pointer = <<>> THEN graph.aliases[uri].base
                        ELSE DeepestRoot(graph, d, at, graph.aliases[uri]).base ]
  BY <1>5, <1>9, <1>10, <1>12, <1>13 DEF ResolveRaw
<1> HIDE DEF raw
<1>15. raw.doc = d /\ raw.at = at /\ d # 0 /\ NoLocation.doc = 0
  BY <1>14, DocumentsAreNumbered DEF NoLocation
<1>16. raw # NoLocation
  BY <1>15
<1> QED
  BY <1>11, <1>15, <1>16 DEF raw

WithReference(now, d, at, value, later) == later = [now EXCEPT ![d].nodes[at].ref = value]

LEMMA RewritingOne ==
  ASSUME NEW docs, WellFormed(docs), NEW now, Agrees(docs, now),
         NEW d \in DOMAIN docs, NEW at \in DOMAIN docs[d].nodes,
         Has(Node(docs, d, at), "ref"), NEW value,
         NEW later, WithReference(now, d, at, value, later)
  PROVE  /\ Agrees(docs, later)
         /\ Node(later, d, at).ref = value
         /\ \A keyword \in DOMAIN Node(docs, d, at) \ {"ref"} :
              Node(later, d, at)[keyword] = Node(now, d, at)[keyword]
         /\ \A e \in DOMAIN docs : \A b \in DOMAIN docs[e].nodes :
              e # d \/ b # at => Node(later, e, b) = Node(now, e, b)
<1>1. /\ DOMAIN now = DOMAIN docs /\ now \in Seq(Range(now))
      /\ DOMAIN now[d] = DOMAIN docs[d] /\ "nodes" \in DOMAIN now[d] /\ "uri" \in DOMAIN now[d]
      /\ DOMAIN now[d].nodes = DOMAIN docs[d].nodes
      /\ DOMAIN now[d].nodes[at] = DOMAIN docs[d].nodes[at]
      /\ "ref" \in DOMAIN docs[d].nodes[at]
  BY DEF Agrees, WellFormed, IsDocument, Has, Node
<1>8. later = [now EXCEPT ![d].nodes[at].ref = value]
  BY DEF WithReference
<1>2. /\ DOMAIN later = DOMAIN now
      /\ \A e \in DOMAIN docs \ {d} : later[e] = now[e]
      /\ later[d] = [now[d] EXCEPT !.nodes[at].ref = value]
  BY <1>1, <1>8
<1>3. /\ DOMAIN later[d] = DOMAIN now[d]
      /\ later[d].uri = now[d].uri
      /\ later[d].nodes = [now[d].nodes EXCEPT ![at].ref = value]
  BY <1>1, <1>2
<1>4. /\ DOMAIN later[d].nodes = DOMAIN docs[d].nodes
      /\ \A b \in DOMAIN docs[d].nodes \ {at} : later[d].nodes[b] = now[d].nodes[b]
      /\ later[d].nodes[at] = [now[d].nodes[at] EXCEPT !.ref = value]
  BY <1>1, <1>3
<1>5. /\ DOMAIN later[d].nodes[at] = DOMAIN docs[d].nodes[at]
      /\ later[d].nodes[at].ref = value
      /\ \A keyword \in DOMAIN docs[d].nodes[at] \ {"ref"} :
           later[d].nodes[at][keyword] = now[d].nodes[at][keyword]
  BY <1>1, <1>4
<1>6. later \in Seq(Range(later))
  <2>1. DOMAIN now = 1..Len(now) /\ Len(now) \in Nat
    BY <1>1, LenProperties
  <2>2. later = [e \in 1..Len(now) |-> later[e]]
    BY <1>8, <2>1
  <2> QED
    BY <2>1, <2>2, SequenceOfItsRange
<1>9. ASSUME NEW e \in DOMAIN docs
      PROVE  /\ DOMAIN later[e] = DOMAIN docs[e] /\ later[e].uri = docs[e].uri
             /\ DOMAIN later[e].nodes = DOMAIN docs[e].nodes
  <2>1. /\ DOMAIN now[e] = DOMAIN docs[e] /\ now[e].uri = docs[e].uri
        /\ DOMAIN now[e].nodes = DOMAIN docs[e].nodes
    BY DEF Agrees
  <2> QED
    BY <1>2, <1>3, <1>4, <2>1
<1>10. ASSUME NEW e \in DOMAIN docs, NEW b \in DOMAIN docs[e].nodes
       PROVE  /\ DOMAIN later[e].nodes[b] = DOMAIN docs[e].nodes[b]
              /\ \A keyword \in DOMAIN docs[e].nodes[b] \ {"ref"} :
                   later[e].nodes[b][keyword] = docs[e].nodes[b][keyword]
  <2>1. /\ DOMAIN now[e].nodes[b] = DOMAIN docs[e].nodes[b]
        /\ \A keyword \in DOMAIN docs[e].nodes[b] \ {"ref"} :
             now[e].nodes[b][keyword] = docs[e].nodes[b][keyword]
    BY DEF Agrees
  <2>2. CASE e # d \/ b # at
    <3>1. later[e].nodes[b] = now[e].nodes[b]
      BY <1>2, <1>4, <2>2
    <3> QED
      BY <2>1, <3>1
  <2>3. CASE e = d /\ b = at
    BY <1>5, <2>1, <2>3
  <2> QED
    BY <2>2, <2>3
<1>7. Agrees(docs, later)
  BY <1>1, <1>2, <1>6, <1>9, <1>10 DEF Agrees
<1> QED
  BY <1>2, <1>4, <1>5, <1>7 DEF Node

-----------------------------------------------------------------------------
(* What a reference leads to is indexed, and resolves to its place.        *)
Follows(place, keyword, raw, graph, target) ==
  LET reference == Node(documents, place.doc, place.at)[keyword]
  IN /\ raw = ResolveRaw(documents, Graph, place.base, reference) /\ raw # NoLocation
     /\ graph = IndexTarget(documents, Graph, raw) /\ graph # NoGraph
     /\ target = Resolve(documents, graph, place.base, reference)

LEMMA FollowedToPlace ==
  ASSUME ResourcesInv, NEW place, IsLocated(input.documents, place),
         NEW keyword \in References(Node(input.documents, place.doc, place.at)),
         NEW raw, NEW graph, NEW target, Follows(place, keyword, raw, graph, target)
  PROVE  /\ GraphInv(input.documents, graph) /\ Extends(Graph, graph)
         /\ Charted(input.documents, graph, raw.doc, raw.at)
         /\ IsLocated(input.documents, target)
         /\ target = PlaceAt(input.documents, raw.doc, raw.at)
         /\ Spread(input.documents, Graph) =>
              /\ Spread(input.documents, graph)
              /\ Covered(input.documents, graph, target.doc, target.at)
<1> DEFINE docs == input.documents
           reference == Node(documents, place.doc, place.at)[keyword]
           uri == ResolveUri(place.base, reference.to)
<1>9. /\ raw = ResolveRaw(documents, Graph, place.base, reference) /\ raw # NoLocation
      /\ graph = IndexTarget(documents, Graph, raw) /\ graph # NoGraph
      /\ target = Resolve(documents, graph, place.base, reference)
  BY DEF Follows
<1>1. WellFormed(docs) /\ Agrees(docs, documents) /\ GraphInv(docs, Graph)
  BY DEF ResourcesInv
<1>2. IsReference(reference)
  BY ReferenceIs
<1>3. RawOf(docs, Graph, reference, Graph.aliases[uri], raw)
  BY <1>1, <1>2, <1>9, RawIs
<1>4. /\ raw.doc \in DOMAIN docs /\ raw.at \in DOMAIN docs[raw.doc].nodes
      /\ InResource(Graph, raw)
  BY <1>3 DEF RawOf
<1>5. GraphInv(docs, graph) /\ Extends(Graph, graph) /\ Charted(docs, graph, raw.doc, raw.at)
  BY <1>1, <1>4, <1>9, IndexTargetKeeps
<1>6. /\ ResolveRaw(documents, graph, place.base, reference) # NoLocation
      /\ ResolveRaw(documents, graph, place.base, reference).doc = raw.doc
      /\ ResolveRaw(documents, graph, place.base, reference).at = raw.at
  BY <1>1, <1>5, <1>9, RawIsKept
<1>7. Resolve(documents, graph, place.base, reference) = PlaceAt(docs, raw.doc, raw.at)
  BY <1>1, <1>2, <1>5, <1>6, ResolvesToPlace
<1>8. IsLocated(docs, PlaceAt(docs, raw.doc, raw.at))
  BY <1>4 DEF IsLocated, PlaceAt
<1>10. Spread(docs, Graph) => Spread(docs, graph) /\ Covered(docs, graph, raw.doc, raw.at)
  BY <1>1, <1>4, <1>9, IndexTargetKeeps
<1>11. PlaceAt(docs, raw.doc, raw.at).doc = raw.doc /\ PlaceAt(docs, raw.doc, raw.at).at = raw.at
  BY DEF PlaceAt
<1> QED
  BY <1>5, <1>7, <1>8, <1>9, <1>10, <1>11

(* It leads there as it stands, and as it is rewritten.                    *)
LEMMA LeadsAsItStands ==
  ASSUME ResourcesInv, NEW place, IsLocated(input.documents, place),
         NEW keyword \in References(Node(input.documents, place.doc, place.at)),
         Pending(stack, place, keyword),
         NEW raw, raw # NoLocation,
         raw = ResolveRaw(documents, Graph, place.base,
                          Node(documents, place.doc, place.at)[keyword]),
         NEW larger, Extends(Graph, larger),
         Charted(input.documents, larger, raw.doc, raw.at),
         NEW seen, PlaceAt(input.documents, raw.doc, raw.at) \in seen
  PROVE  Leads(documents, larger, seen, place, keyword)
<1> DEFINE docs == input.documents
           reference == Node(documents, place.doc, place.at)[keyword]
<1>1. WellFormed(docs) /\ Agrees(docs, documents) /\ GraphInv(docs, Graph)
  BY DEF ResourcesInv
<1>2. Written(place, keyword, raw.doc, raw.at)
  BY PendingIsWritten
<1>3. /\ ResolveRaw(documents, larger, place.base, reference) # NoLocation
      /\ ResolveRaw(documents, larger, place.base, reference).doc = raw.doc
      /\ ResolveRaw(documents, larger, place.base, reference).at = raw.at
  BY <1>1, RawIsKept
<1> QED
  BY <1>2, <1>3 DEF Leads

LEMMA LeadsAsRewritten ==
  ASSUME ResourcesInv, NEW place, IsLocated(input.documents, place),
         NEW keyword \in References(Node(input.documents, place.doc, place.at)),
         Pending(stack, place, keyword),
         NEW raw, raw # NoLocation,
         raw = ResolveRaw(documents, Graph, place.base,
                          Node(documents, place.doc, place.at)[keyword]),
         NEW larger, Charted(input.documents, larger, raw.doc, raw.at),
         NEW target, target = PlaceAt(input.documents, raw.doc, raw.at),
         IsLocated(input.documents, target),
         NEW later, Agrees(input.documents, later),
         Node(later, place.doc, place.at)[keyword] = Rewritten(target, larger),
         NEW seen, target \in seen
  PROVE  /\ Leads(later, larger, seen, place, keyword)
         /\ IsReference(Rewritten(target, larger))
<1> DEFINE docs == input.documents
           reference == Rewritten(target, larger)
<1>1. WellFormed(docs)
  BY DEF ResourcesInv
<1>2. raw.doc \in DOMAIN docs /\ raw.at \in DOMAIN docs[raw.doc].nodes
  BY DEF IsLocated, PlaceAt
<1>3. Written(place, keyword, raw.doc, raw.at)
  BY PendingIsWritten
<1>4. /\ IsReference(reference)
      /\ ResolveRaw(later, larger, place.base, reference) # NoLocation
      /\ ResolveRaw(later, larger, place.base, reference).doc = raw.doc
      /\ ResolveRaw(later, larger, place.base, reference).at = raw.at
  <2> HIDE DEF reference
  <2>1. reference = Rewritten(PlaceAt(docs, raw.doc, raw.at), larger)
    BY DEF reference
  <2> QED
    BY <1>1, <1>2, <2>1, RewrittenResolves
<1> QED
  BY <1>3, <1>4 DEF Leads

LEMMA FrameLess ==
  ASSUME NEW frame, NEW keyword,
         frame = [ place |-> frame.place, references |-> frame.references,
                   children |-> frame.children ]
  PROVE  [frame EXCEPT !.references = @ \ {keyword}] =
           [ place |-> frame.place, references |-> frame.references \ {keyword},
             children |-> frame.children ]
OBVIOUS

(* What the frame of a reference is when it has been followed.             *)
Without(frame, keyword, f) ==
  f = [ place |-> frame.place, references |-> frame.references \ {keyword},
        children |-> frame.children ]

LEMMA FrameFollowed ==
  ASSUME ResourcesInv, stack # <<>>, NEW keyword \in Head(stack).references,
         NEW f, Without(Head(stack), keyword, f)
  PROVE  /\ Frames(input.documents, visited, <<f>> \o Tail(stack))
         /\ \A p, k : Pending(<<f>> \o Tail(stack), p, k) => Pending(stack, p, k)
         /\ \A p, k : Pending(stack, p, k) =>
              Pending(<<f>> \o Tail(stack), p, k) \/ (p = Head(stack).place /\ k = keyword)
         /\ ~Pending(<<f>> \o Tail(stack), Head(stack).place, keyword)
<1> DEFINE docs == input.documents
           rest == <<f>> \o Tail(stack)
<1>1. Frames(docs, visited, stack) /\ IsFrame(docs, visited, Head(stack))
  BY FrameOf DEF ResourcesInv
<1>2. /\ f.place = Head(stack).place /\ f.references = Head(stack).references \ {keyword}
      /\ f.children = Head(stack).children
      /\ f = [place |-> f.place, references |-> f.references, children |-> f.children]
  BY DEF Without
<1>3. IsFrame(docs, visited, f)
  BY <1>1, <1>2 DEF IsFrame
<1>4. f.references \subseteq Head(stack).references
  BY <1>2
<1>5. Frames(docs, visited, rest)
  BY <1>1, <1>2, <1>3, <1>4, Reduced
<1>6. \A p, k : Pending(rest, p, k) => Pending(stack, p, k)
  BY <1>1, <1>2, <1>3, <1>4, Reduced
<1>7. \A p, k : Pending(stack, p, k) =>
        \/ Pending(rest, p, k)
        \/ p = f.place /\ k \in Head(stack).references \ f.references
  BY <1>1, <1>2, <1>3, <1>4, Reduced
<1>8. \A k : Pending(rest, f.place, k) => k \in f.references
  BY <1>1, <1>2, <1>3, <1>4, Reduced
<1> QED
  BY <1>2, <1>5, <1>6, <1>7, <1>8

(* A reference is followed: to a meta-schema, to nothing that is known, or *)
(* to a place, which is entered.                                           *)
LEMMA GraphAlike ==
  ASSUME NEW docs, NEW graph, NEW other,
         other.aliases = graph.aliases, other.anchors = graph.anchors,
         other.indexed = graph.indexed
  PROVE  /\ GraphInv(docs, graph) => GraphInv(docs, other)
         /\ \A d, at : Charted(docs, graph, d, at) => Charted(docs, other, d, at)
<1>1. \A d, at : Aliased(docs, graph, d, at) <=> Aliased(docs, other, d, at)
  BY DEF Aliased
<1>2. GraphInv(docs, graph) => GraphInv(docs, other)
  BY <1>1 DEF GraphInv, IsResource, IsAnchor, InResource
<1>3. \A d, at : Charted(docs, graph, d, at) => Charted(docs, other, d, at)
  BY <1>1 DEF Charted
<1> QED
  BY <1>2, <1>3

Rewriting(now, place, keyword, raw, target, graph, later) ==
  IF keyword = "ref" /\ target.base # raw.base
  THEN WithReference(now, place.doc, place.at, Rewritten(target, graph), later)
  ELSE later = now

Indexing(graph) ==
  aliases' = graph.aliases /\ anchors' = graph.anchors /\ indexed' = graph.indexed

LEMMA PlaceEntered ==
  ASSUME ResourcesInv, stack # <<>>,
         NEW place, place = Head(stack).place,
         NEW keyword \in Head(stack).references,
         NEW raw, NEW graph, NEW target, Follows(place, keyword, raw, graph, target),
         NEW f, Without(Head(stack), keyword, f),
         Enter(documents, target, <<f>> \o Tail(stack)),
         input' = input, next' \in Nat \ {0}, outcome' # "prepared",
         Indexing(graph), Rewriting(documents, place, keyword, raw, target, graph, documents')
  PROVE  ResourcesInv'
<1> DEFINE docs == input.documents
           rest == <<f>> \o Tail(stack)
           rewriting == keyword = "ref" /\ target.base # raw.base
<1>1. /\ WellFormed(docs) /\ Agrees(docs, documents) /\ IsLocated(docs, place)
      /\ keyword \in References(Node(docs, place.doc, place.at))
      /\ Pending(stack, place, keyword) /\ place \in visited
  BY FrameOf DEF ResourcesInv, IsFrame
<1>2. /\ Frames(docs, visited, rest)
      /\ \A p, k : Pending(rest, p, k) => Pending(stack, p, k)
      /\ \A p, k : Pending(stack, p, k) => Pending(rest, p, k) \/ (p = place /\ k = keyword)
      /\ ~Pending(rest, place, keyword)
  <2>1. Frames(docs, visited, rest)
    BY FrameFollowed
  <2>2. \A p, k : Pending(rest, p, k) => Pending(stack, p, k)
    BY FrameFollowed
  <2>3. \A p, k : Pending(stack, p, k) => Pending(rest, p, k) \/ (p = place /\ k = keyword)
    BY FrameFollowed
  <2>4. ~Pending(rest, place, keyword)
    BY FrameFollowed
  <2> QED
    BY <2>1, <2>2, <2>3, <2>4
<1> HIDE DEF rest
<1>3. /\ GraphInv(docs, graph) /\ Extends(Graph, graph)
      /\ Charted(docs, graph, raw.doc, raw.at)
      /\ target = PlaceAt(docs, raw.doc, raw.at) /\ IsLocated(docs, target)
  <2>1. GraphInv(docs, graph)
    BY <1>1, FollowedToPlace
  <2>2. Extends(Graph, graph)
    BY <1>1, FollowedToPlace
  <2>3. Charted(docs, graph, raw.doc, raw.at)
    BY <1>1, FollowedToPlace
  <2>4. target = PlaceAt(docs, raw.doc, raw.at)
    BY <1>1, FollowedToPlace
  <2>5. IsLocated(docs, target)
    BY <1>1, FollowedToPlace
  <2> QED
    BY <2>1, <2>2, <2>3, <2>4, <2>5
<1>4. /\ Graph'.aliases = graph.aliases /\ Graph'.anchors = graph.anchors
      /\ Graph'.indexed = graph.indexed
  BY DEF Graph, Indexing
<1>5. /\ GraphInv(docs, Graph') /\ Extends(Graph, Graph')
      /\ Charted(docs, Graph', raw.doc, raw.at)
  <2>1. GraphInv(docs, Graph')
    BY <1>3, <1>4, GraphAlike
  <2>2. Extends(Graph, Graph')
    BY <1>3, <1>4 DEF Extends
  <2>3. Charted(docs, Graph', raw.doc, raw.at)
    BY <1>3, <1>4, GraphAlike
  <2> QED
    BY <2>1, <2>2, <2>3
<1>6. /\ place.doc \in DOMAIN docs /\ place.at \in DOMAIN docs[place.doc].nodes
      /\ place = PlaceAt(docs, place.doc, place.at)
      /\ Has(Node(docs, place.doc, place.at), keyword)
  BY <1>1 DEF IsLocated, References, Has
<1>10. /\ raw = ResolveRaw(documents, Graph, place.base,
                           Node(documents, place.doc, place.at)[keyword])
       /\ raw # NoLocation
  BY DEF Follows
<1>7. target \in visited'
  BY DEF Enter
<1>8. CASE ~rewriting
  <2>1. documents' = documents
    BY <1>8 DEF Rewriting
  <2>2. Leads(documents, Graph', visited', place, keyword)
    BY <1>1, <1>3, <1>5, <1>7, <1>10, LeadsAsItStands
  <2>3. \A p, k : Pending(stack, p, k) => Settled(documents', Graph', visited', rest, p, k)
    BY <1>2, <2>1, <2>2 DEF Settled
  <2>4. Agrees(docs, documents')
    BY <1>1, <2>1
  <2> HIDE DEF rewriting
  <2> QED
    BY <1>2, <1>3, <1>5, <2>1, <2>3, <2>4, EnterKeeps DEF rest
<1>9. CASE rewriting
  <2>1. WithReference(documents, place.doc, place.at, Rewritten(target, graph), documents')
    BY <1>9 DEF Rewriting
  <2>2. keyword = "ref"
    BY <1>9
  <2>3. Rewritten(target, graph) = Rewritten(target, Graph')
    BY <1>4 DEF Rewritten
  <2>9. Has(Node(docs, place.doc, place.at), "ref")
    BY <1>6, <2>2
  <2>10. Agrees(docs, documents')
    BY <1>1, <1>6, <2>1, <2>9, RewritingOne
  <2>11. Node(documents', place.doc, place.at).ref = Rewritten(target, graph)
    BY <1>1, <1>6, <2>1, <2>9, RewritingOne
  <2>12. \A k \in DOMAIN Node(docs, place.doc, place.at) \ {"ref"} :
           Node(documents', place.doc, place.at)[k] = Node(documents, place.doc, place.at)[k]
    BY <1>1, <1>6, <2>1, <2>9, RewritingOne
  <2>4. \A e \in DOMAIN docs : \A b \in DOMAIN docs[e].nodes :
          e # place.doc \/ b # place.at => Node(documents', e, b) = Node(documents, e, b)
    BY <1>1, <1>6, <2>1, <2>9, RewritingOne
  <2> HIDE DEF rewriting
  <2>13. Node(documents', place.doc, place.at)[keyword] = Rewritten(target, Graph')
    BY <2>2, <2>3, <2>11
  <2>5. /\ Leads(documents', Graph', visited', place, keyword)
        /\ IsReference(Node(documents', place.doc, place.at).ref)
    <3>1. Leads(documents', Graph', visited', place, keyword)
      BY <1>1, <1>3, <1>5, <1>7, <1>10, <2>10, <2>13, LeadsAsRewritten, ZenonT(30)
    <3>2. IsReference(Rewritten(target, Graph'))
      BY <1>1, <1>3, <1>5, <1>7, <1>10, <2>10, <2>13, LeadsAsRewritten, ZenonT(30)
    <3> QED
      BY <2>3, <2>11, <3>1, <3>2
  <2>6. ASSUME NEW p \in visited, NEW k \in References(Node(docs, p.doc, p.at)),
               p # place \/ k # keyword
        PROVE  Node(documents', p.doc, p.at)[k] = Node(documents, p.doc, p.at)[k]
    <3>1. /\ IsLocated(docs, p) /\ p.doc \in DOMAIN docs /\ p.at \in DOMAIN docs[p.doc].nodes
          /\ p = PlaceAt(docs, p.doc, p.at) /\ k \in DOMAIN Node(docs, p.doc, p.at)
      BY DEF ResourcesInv, IsLocated, References
    <3>2. CASE p.doc # place.doc \/ p.at # place.at
      BY <2>4, <3>1, <3>2
    <3>3. CASE p.doc = place.doc /\ p.at = place.at
      <4>1. p = place
        BY <1>6, <3>1, <3>3
      <4>2. k \in DOMAIN Node(docs, place.doc, place.at) \ {"ref"}
        BY <2>2, <2>6, <3>1, <4>1
      <4> QED
        BY <2>12, <4>1, <4>2
    <3> QED
      BY <3>2, <3>3
  <2>7. ASSUME NEW p \in visited, NEW k \in References(Node(docs, p.doc, p.at))
        PROVE  IF Pending(stack, p, k)
               THEN Settled(documents', Graph', visited', rest, p, k)
               ELSE Node(documents', p.doc, p.at)[k] = Node(documents, p.doc, p.at)[k]
    BY <1>1, <1>2, <2>5, <2>6 DEF Settled
  <2>8. ASSUME NEW d \in DOMAIN docs, NEW at \in DOMAIN docs[d].nodes,
               Has(Node(docs, d, at), "ref")
        PROVE  \/ Node(documents', d, at).ref = Node(documents, d, at).ref
               \/ /\ IsReference(Node(documents', d, at).ref)
                  /\ PlaceAt(docs, d, at) \in visited
                  /\ ~Pending(rest, PlaceAt(docs, d, at), "ref")
    <3>1. CASE d = place.doc /\ at = place.at
      BY <1>1, <1>2, <1>6, <2>2, <2>5, <3>1
    <3>2. CASE d # place.doc \/ at # place.at
      BY <2>4, <3>2
    <3> QED
      BY <3>1, <3>2
  <2> QED
    BY <1>2, <1>3, <1>5, <2>10, <2>7, <2>8, EnterKeeps DEF rest
<1> QED
  BY <1>8, <1>9

(* Following a reference is refused, or lets one to the dialect be, or     *)
(* enters the schema it leads to.                                          *)
ReferenceRefused ==
  /\ UNCHANGED <<documents, aliases, anchors, indexed, visited, stack>>
  /\ outcome' \in {"unresolved", "identity-taken", "graph", "nested-dialect"}

ReferenceLeft(place, keyword, rest) ==
  /\ UNCHANGED <<documents, aliases, anchors, indexed, visited, outcome>>
  /\ stack' = rest
  /\ BuiltInReferenceResolves(place.base, Node(documents, place.doc, place.at)[keyword])

ReferenceEntered(place, keyword, rest, raw, graph, target) ==
  /\ Follows(place, keyword, raw, graph, target)
  /\ Indexing(graph) /\ UNCHANGED outcome
  /\ Rewriting(documents, place, keyword, raw, target, graph, documents')
  /\ Enter(documents, target, rest)

LEMMA FollowingReference ==
  ASSUME ResourcesInv, FollowReference
  PROVE  /\ outcome = "following" /\ stack # <<>> /\ UNCHANGED <<input, next>>
         /\ \E keyword \in Head(stack).references : \E f :
              LET place == Head(stack).place
                  rest  == <<f>> \o Tail(stack)
              IN /\ Without(Head(stack), keyword, f)
                 /\ \/ ReferenceRefused
                    \/ ReferenceLeft(place, keyword, rest)
                    \/ \E raw, graph, target :
                         ReferenceEntered(place, keyword, rest, raw, graph, target)
<1> DEFINE docs == input.documents
           frame == Head(stack)
           place == frame.place
           keyword == IF "ref" \in frame.references THEN "ref" ELSE "dynamicRef"
           reference == Node(documents, place.doc, place.at)[keyword]
           f == [frame EXCEPT !.references = @ \ {keyword}]
           rest == <<f>> \o Tail(stack)
           raw == ResolveRaw(documents, Graph, place.base, reference)
           graph == IndexTarget(documents, Graph, raw)
           target == IF graph = NoGraph THEN NoLocation
                     ELSE Resolve(documents, graph, place.base, reference)
<1>1. /\ outcome = "following" /\ stack # <<>> /\ frame.references # {}
      /\ UNCHANGED <<input, next>>
      /\ raw # NoLocation => FollowTo(place, keyword, rest, raw, graph, target)
      /\ raw = NoLocation =>
           /\ \/ /\ BuiltInReferenceResolves(place.base, reference)
                 /\ stack' = rest /\ UNCHANGED outcome
              \/ outcome' = "unresolved" /\ UNCHANGED stack
           /\ UNCHANGED <<documents, aliases, anchors, indexed, visited>>
  BY DEF FollowReference
<1>2. IsFrame(docs, visited, frame)
  BY <1>1, FrameOf
<1>3. keyword \in frame.references
  <2>1. frame.references \subseteq {"ref", "dynamicRef"}
    BY <1>2 DEF IsFrame, References, ReferenceKeywords
  <2> QED
    BY <1>1, <2>1
<1>4. Without(frame, keyword, f)
  <2>1. frame = [ place |-> frame.place, references |-> frame.references,
                  children |-> frame.children ]
    BY <1>2 DEF IsFrame
  <2> HIDE DEF frame, keyword
  <2> QED
    BY <2>1, FrameLess DEF Without
<1> HIDE DEF keyword, f
<1>5. CASE raw = NoLocation
  <2>1. \/ ReferenceRefused
        \/ ReferenceLeft(place, keyword, rest)
    BY <1>1, <1>5 DEF ReferenceRefused, ReferenceLeft
  <2> QED
    BY <1>1, <1>3, <1>4, <2>1
<1>6. CASE raw # NoLocation
  <2> DEFINE refused(reason) ==
        outcome' = reason /\ UNCHANGED <<documents, aliases, anchors, indexed, visited, stack>>
  <2>1. FollowTo(place, keyword, rest, raw, graph, target)
    BY <1>1, <1>6
  <2> HIDE DEF rest, raw, graph, target, frame
  <2>2. \/ refused("identity-taken") \/ refused("graph") \/ refused("nested-dialect")
        \/ /\ graph # NoGraph
           /\ aliases' = graph.aliases /\ anchors' = graph.anchors /\ indexed' = graph.indexed
           /\ documents' = IF keyword = "ref" /\ target.base # raw.base
                           THEN [ documents EXCEPT ![place.doc].nodes[place.at].ref =
                                    Rewritten(target, graph) ]
                           ELSE documents
           /\ Enter(documents, target, rest)
           /\ UNCHANGED outcome
    <3> HIDE DEF place
    <3> QED
      BY <2>1 DEF FollowTo
  <2>3. CASE refused("identity-taken") \/ refused("graph") \/ refused("nested-dialect")
    <3>1. ReferenceRefused
      BY <2>3 DEF ReferenceRefused
    <3> QED
      BY <1>1, <1>3, <1>4, <3>1 DEF frame
  <2>4. CASE /\ graph # NoGraph
             /\ aliases' = graph.aliases /\ anchors' = graph.anchors /\ indexed' = graph.indexed
             /\ documents' = IF keyword = "ref" /\ target.base # raw.base
                             THEN [ documents EXCEPT ![place.doc].nodes[place.at].ref =
                                      Rewritten(target, graph) ]
                             ELSE documents
             /\ Enter(documents, target, rest)
             /\ UNCHANGED outcome
    <3>1. Indexing(graph) /\ UNCHANGED outcome /\ graph # NoGraph
      BY <2>4 DEF Indexing
    <3>2. Rewriting(documents, place, keyword, raw, target, graph, documents')
      <4> HIDE DEF place
      <4> QED
        BY <2>4 DEF Rewriting, WithReference
    <3>3. Follows(place, keyword, raw, graph, target)
      BY <1>6, <3>1 DEF Follows, raw, graph, target
    <3>4. ReferenceEntered(place, keyword, rest, raw, graph, target)
      BY <2>4, <3>1, <3>2, <3>3 DEF ReferenceEntered
    <3> QED
      BY <1>1, <1>3, <1>4, <3>4 DEF frame, rest
  <2> QED
    BY <2>2, <2>3, <2>4
<1> QED
  BY <1>5, <1>6

LEMMA FollowReferenceKeeps == ASSUME ResourcesInv, FollowReference PROVE ResourcesInv'
<1> DEFINE docs == input.documents
           place == Head(stack).place
<1>1. outcome = "following" /\ stack # <<>> /\ UNCHANGED <<input, next>>
  BY FollowingReference
<1>2. PICK keyword \in Head(stack).references : \E f :
        /\ Without(Head(stack), keyword, f)
        /\ \/ ReferenceRefused
           \/ ReferenceLeft(place, keyword, <<f>> \o Tail(stack))
           \/ \E raw, graph, target :
                ReferenceEntered(place, keyword, <<f>> \o Tail(stack), raw, graph, target)
  BY FollowingReference
<1>7. PICK f :
        /\ Without(Head(stack), keyword, f)
        /\ \/ ReferenceRefused
           \/ ReferenceLeft(place, keyword, <<f>> \o Tail(stack))
           \/ \E raw, graph, target :
                ReferenceEntered(place, keyword, <<f>> \o Tail(stack), raw, graph, target)
  BY <1>2
<1> DEFINE rest == <<f>> \o Tail(stack)
<1>3. /\ WellFormed(docs) /\ Agrees(docs, documents) /\ next' \in Nat \ {0}
      /\ \A l \in visited : IsLocated(docs, l)
  BY <1>1 DEF ResourcesInv
<1>4. CASE ReferenceRefused
  <2>1. /\ UNCHANGED <<input, documents, aliases, anchors, indexed, visited, stack>>
        /\ outcome' # "prepared"
    BY <1>1, <1>4 DEF ReferenceRefused
  <2> QED
    BY <1>3, <2>1, GraphStays, NothingFollowed
<1>5. CASE ReferenceLeft(place, keyword, rest)
  <2>1. /\ UNCHANGED <<input, documents, aliases, anchors, indexed, visited>>
        /\ stack' = rest /\ outcome' # "prepared"
        /\ BuiltInReferenceResolves(place.base, Node(documents', place.doc, place.at)[keyword])
    BY <1>1, <1>5 DEF ReferenceLeft
  <2>2. Frames(docs, visited, rest)
    BY <1>1, <1>7, FrameFollowed
  <2>3. \A p, k : Pending(rest, p, k) => Pending(stack, p, k)
    BY <1>1, <1>7, FrameFollowed
  <2>4. \A p, k : Pending(stack, p, k) => Pending(rest, p, k) \/ (p = place /\ k = keyword)
    BY <1>1, <1>7, FrameFollowed
  <2> HIDE DEF rest, place
  <2>5. \A p, k : Pending(stack, p, k) => Settled(documents', Graph', visited', stack', p, k)
    BY <2>1, <2>4 DEF Settled
  <2>6. \A p, k : Pending(stack', p, k) => Pending(stack, p, k)
    BY <2>1, <2>3
  <2> QED
    BY <1>3, <2>1, <2>2, <2>5, <2>6, DocumentsStay, GraphStays, ResourcesInvIsKept
<1>6. ASSUME NEW raw, NEW graph, NEW target,
             ReferenceEntered(place, keyword, rest, raw, graph, target)
      PROVE  ResourcesInv'
  <2>1. /\ Follows(place, keyword, raw, graph, target)
        /\ Indexing(graph) /\ outcome' # "prepared"
        /\ Rewriting(documents, place, keyword, raw, target, graph, documents')
        /\ Enter(documents, target, <<f>> \o Tail(stack))
    BY <1>1, <1>6 DEF ReferenceEntered
  <2> QED
    BY <1>1, <1>7, <1>3, <2>1, PlaceEntered
<1> QED
  BY <1>7, <1>4, <1>5, <1>6

-----------------------------------------------------------------------------
(* Resources are known by what their places make them, and a reference     *)
(* that was followed leads where it was written to, in every state.        *)
LEMMA ResourcesStutter == ASSUME ResourcesInv, UNCHANGED resourceVars PROVE ResourcesInv'
<1>1. /\ UNCHANGED <<input, documents, aliases, anchors, indexed, visited, stack, next>>
      /\ outcome' = outcome /\ next' \in Nat \ {0}
      /\ outcome' = "prepared" => stack = <<>>
  BY DEF resourceVars, ResourcesInv
<1> QED
  BY <1>1, GraphStays, NothingFollowed DEF ResourcesInv

LEMMA ResourcesStep == ResourcesInv /\ [ResourcesNext]_resourceVars => ResourcesInv'
<1> SUFFICES ASSUME ResourcesInv, [ResourcesNext]_resourceVars PROVE ResourcesInv'
  OBVIOUS
<1>1. CASE Admit
  BY <1>1, AdmitKeeps
<1>2. CASE IndexDocument
  BY <1>2, IndexDocumentKeeps
<1>3. CASE StartFollowing
  BY <1>3, StartFollowingKeeps
<1>4. CASE FollowDocument
  BY <1>4, FollowDocumentKeeps
<1>5. CASE FollowReference
  BY <1>5, FollowReferenceKeeps
<1>6. CASE FollowChild
  BY <1>6, FollowChildKeeps
<1>7. CASE Leave
  BY <1>7, LeaveKeeps
<1>8. CASE Prepare
  BY <1>8, PrepareKeeps
<1>9. CASE UNCHANGED resourceVars
  BY <1>9, ResourcesStutter
<1> QED
  BY <1>1, <1>2, <1>3, <1>4, <1>5, <1>6, <1>7, <1>8, <1>9 DEF ResourcesNext

(* The inductive invariant: what is indexed, followed and rewritten, at    *)
(* any number of documents, schemas and references (prepare_resources).    *)
THEOREM ResourcesSound == ResourcesSpec => []ResourcesInv
<1>1. ResourcesInit => ResourcesInv
  BY InitHolds
<1> QED
  BY <1>1, ResourcesStep, PTL DEF ResourcesSpec

LEMMA Lexically == ResourcesInv => BasesAreLexical
<1> SUFFICES ASSUME ResourcesInv PROVE BasesAreLexical
  OBVIOUS
<1> DEFINE docs == input.documents
<1>1. \A e, b : LexicalBase(e, b) = Lexical(docs, e, b)
  BY DEF LexicalBase, Lexical
<1>2. GraphInv(docs, Graph) /\ \A l \in visited : IsLocated(docs, l)
  BY DEF ResourcesInv
<1>3. \A uri \in DOMAIN aliases : IsLocated(docs, aliases[uri])
  BY <1>2 DEF GraphInv, IsResource, Graph
<1>4. \A k \in DOMAIN anchors : IsLocated(docs, anchors[k])
  BY <1>2 DEF GraphInv, IsAnchor, Graph
<1>5. \A l : IsLocated(docs, l) => l.base = LexicalBase(l.doc, l.at)
  BY <1>1 DEF IsLocated, PlaceAt
<1> QED
  BY <1>2, <1>3, <1>4, <1>5 DEF BasesAreLexical

LEMMA LeadingWhereWritten == ResourcesInv => ReferencesLeadWhereWritten
<1> SUFFICES ASSUME ResourcesInv, outcome = "prepared",
                    NEW place \in visited,
                    NEW keyword \in References(Node(documents, place.doc, place.at))
             PROVE  LET reference == Node(documents, place.doc, place.at)[keyword]
                        target    == Resolve(documents, Graph, place.base, reference)
                    IN \/ BuiltInReferenceResolves(place.base, reference)
                       \/ /\ target # NoLocation
                          /\ Written(place, keyword, target.doc, target.at)
                          /\ target \in visited
  BY DEF ReferencesLeadWhereWritten
<1> DEFINE docs == input.documents
           reference == Node(documents, place.doc, place.at)[keyword]
           raw == ResolveRaw(documents, Graph, place.base, reference)
           target == Resolve(documents, Graph, place.base, reference)
<1>1. /\ WellFormed(docs) /\ Agrees(docs, documents) /\ GraphInv(docs, Graph)
      /\ IsLocated(docs, place) /\ stack = <<>>
  BY DEF ResourcesInv
<1>2. keyword \in References(Node(docs, place.doc, place.at))
  <2>1. place.doc \in DOMAIN docs /\ place.at \in DOMAIN docs[place.doc].nodes
    BY <1>1 DEF IsLocated
  <2>2. DOMAIN Node(documents, place.doc, place.at) = DOMAIN Node(docs, place.doc, place.at)
    BY <1>1, <2>1 DEF Agrees, Node
  <2> QED
    BY <2>2 DEF References
<1>3. ~Pending(stack, place, keyword)
  BY <1>1 DEF Pending
<1>4. \/ BuiltInReferenceResolves(place.base, reference)
      \/ Leads(documents, Graph, visited, place, keyword)
  BY <1>2, <1>3 DEF ResourcesInv, FollowingInv, Settled
<1>5. IsReference(reference)
  BY <1>1, <1>2, ReferenceIs
<1> HIDE DEF reference
<1>6. CASE Leads(documents, Graph, visited, place, keyword)
  <2>1. /\ raw # NoLocation /\ Charted(docs, Graph, raw.doc, raw.at)
        /\ PlaceAt(docs, raw.doc, raw.at) \in visited
        /\ Written(place, keyword, raw.doc, raw.at)
    BY <1>6 DEF Leads, reference
  <2>2. target = PlaceAt(docs, raw.doc, raw.at)
    BY <1>1, <1>5, <2>1, ResolvesToPlace
  <2>3. IsLocated(docs, target)
    BY <2>1, <2>2 DEF ResourcesInv
  <2> HIDE DEF raw, target
  <2>4. target.doc = raw.doc /\ target.at = raw.at
    BY <2>2 DEF PlaceAt
  <2>5. target.doc # NoLocation.doc
    BY <1>1, <2>3, DocumentsAreNumbered DEF IsLocated, NoLocation
  <2> QED
    BY <2>1, <2>2, <2>4, <2>5 DEF target, reference
<1> QED
  BY <1>4, <1>6 DEF reference

(* Wherever a schema is reached from and in whichever order, it is read in *)
(* the resource that its own identity and those above it name              *)
(* (index_schema, index_reference_target).                                 *)
THEOREM BasesLexical == ResourcesSpec => []BasesAreLexical
BY ResourcesSound, Lexically, PTL

(* Every reference of a prepared graph resolves to the schema it named     *)
(* before anything was rewritten, and that schema was followed as well     *)
(* (qualify_schema_references, resolve_reference).                         *)
THEOREM ReferencesLead == ResourcesSpec => []ReferencesLeadWhereWritten
BY ResourcesSound, LeadingWhereWritten, PTL
-----------------------------------------------------------------------------
(* A sequence of values in which each is a function of the one before.     *)
Iterates(g, S, base, step) ==
  /\ g \in [Nat -> S] /\ g[0] = base
  /\ \A n \in Nat : g[n + 1] = step[<<n + 1, g[n]>>]

LEMMA Recursion ==
  ASSUME NEW S, NEW base \in S, NEW step \in [Nat \X S -> S]
  PROVE  \E g : Iterates(g, S, base, step)
<1> DEFINE Upto(f, n) == /\ f[0] = base
                         /\ \A k \in 0..n : f[k] \in S
                         /\ \A k \in 0..n - 1 : f[k + 1] = step[<<k + 1, f[k]>>]
<1> HIDE DEF Upto
<1>1. \A n \in Nat : \E f : Upto(f, n)
  <2> SUFFICES ASSUME NEW bad, bad = {n \in Nat : ~\E f : Upto(f, n)}, bad # {}
               PROVE  FALSE
    OBVIOUS
  <2>1. PICK n \in bad : \A k \in bad : n <= k
    BY LeastElement
  <2>2. n \in Nat
    BY <2>1
  <2>3. CASE n = 0
    <3>1. Upto([k \in {0} |-> base], 0)
      BY DEF Upto
    <3> QED
      BY <2>1, <2>3, <3>1
  <2>4. CASE n # 0
    <3>1. n - 1 \in Nat /\ n - 1 \notin bad
      BY <2>1, <2>2, <2>4
    <3>2. PICK f : Upto(f, n - 1)
      BY <3>1
    <3> DEFINE g == [k \in 0..n |-> IF k < n THEN f[k] ELSE step[<<n, f[n - 1]>>]]
    <3>3. /\ g[0] = base /\ g[n] = step[<<n, f[n - 1]>>]
          /\ \A k \in 0..n - 1 : g[k] = f[k]
      BY <2>2, <2>4, <3>2 DEF Upto
    <3>4. f[n - 1] \in S /\ <<n, f[n - 1]>> \in Nat \X S
      BY <2>2, <3>1, <3>2 DEF Upto
    <3> HIDE DEF g
    <3>5. ASSUME NEW k \in 0..n PROVE g[k] \in S
      BY <2>2, <3>2, <3>3, <3>4 DEF Upto
    <3>6. ASSUME NEW k \in 0..n - 1 PROVE g[k + 1] = step[<<k + 1, g[k]>>]
      <4>1. CASE k < n - 1
        <5>1. k \in 0..(n - 1) - 1 /\ k + 1 \in 0..n - 1
          BY <2>2, <4>1
        <5>2. f[k + 1] = step[<<k + 1, f[k]>>]
          BY <3>2, <5>1 DEF Upto
        <5>3. g[k + 1] = f[k + 1] /\ g[k] = f[k]
          BY <3>3, <5>1
        <5> QED
          BY <5>2, <5>3
      <4>2. CASE k = n - 1
        BY <2>2, <3>3, <4>2
      <4> QED
        BY <2>2, <4>1, <4>2
    <3> QED
      BY <2>1, <3>3, <3>5, <3>6 DEF Upto
  <2> QED
    BY <2>3, <2>4
<1>2. ASSUME NEW n \in Nat, NEW f, Upto(f, n), NEW m \in Nat, n <= m, NEW g, Upto(g, m)
      PROVE  \A k \in 0..n : f[k] = g[k]
  <2> DEFINE bad == {k \in 0..n : f[k] # g[k]}
  <2> SUFFICES ASSUME bad # {} PROVE FALSE
    OBVIOUS
  <2>1. PICK k \in bad : \A j \in bad : k <= j
    <3>1. bad \subseteq Nat
      OBVIOUS
    <3> HIDE DEF bad
    <3> QED
      BY <3>1, LeastElement
  <2>2. k # 0 => k - 1 \in 0..n /\ k - 1 \notin bad
    BY <2>1
  <2>3. k # 0 => f[k - 1] = g[k - 1]
    BY <2>2
  <2>4. k # 0 => f[k] = step[<<k, f[k - 1]>>] /\ g[k] = step[<<k, g[k - 1]>>]
    <3> SUFFICES ASSUME k # 0
                 PROVE  f[k] = step[<<k, f[k - 1]>>] /\ g[k] = step[<<k, g[k - 1]>>]
      OBVIOUS
    <3>1. k - 1 \in 0..n - 1 /\ k - 1 \in 0..m - 1 /\ (k - 1) + 1 = k
      BY <1>2, <2>1
    <3> QED
      BY <1>2, <3>1 DEF Upto
  <2> QED
    BY <1>2, <2>1, <2>3, <2>4 DEF Upto
<1> DEFINE On(n) == CHOOSE f : Upto(f, n)
           whole == [n \in Nat |-> On(n)[n]]
<1>3. \A n \in Nat : Upto(On(n), n)
  BY <1>1
<1> HIDE DEF On
<1>4. whole \in [Nat -> S] /\ whole[0] = base
  BY <1>3 DEF Upto
<1>5. ASSUME NEW n \in Nat PROVE whole[n + 1] = step[<<n + 1, whole[n]>>]
  <2>1. On(n + 1)[n] = On(n)[n]
    BY <1>2, <1>3
  <2>2. On(n + 1)[n + 1] = step[<<n + 1, On(n + 1)[n]>>]
    BY <1>3 DEF Upto
  <2> QED
    BY <2>1, <2>2
<1> QED
  BY <1>4, <1>5 DEF Iterates

LEMMA PowersOfTen ==
  /\ TenTo(0) = 1
  /\ \A n \in Nat : TenTo(n) \in Nat \ {0} /\ TenTo(n + 1) = 10 * TenTo(n)
<1> DEFINE P == Nat \ {0}
           step == [x \in Nat \X P |-> 10 * x[2]]
<1>1. step \in [Nat \X P -> P] /\ 1 \in P
  OBVIOUS
<1>2. PICK g : Iterates(g, P, 1, step)
  <2> HIDE DEF step, P
  <2> QED
    BY <1>1, Recursion
<1>3. ASSUME NEW n \in Nat PROVE g[n + 1] = 10 * g[n]
  <2>1. <<n + 1, g[n]>> \in Nat \X P
    BY <1>2 DEF Iterates
  <2>2. step[<<n + 1, g[n]>>] = 10 * g[n]
    BY <2>1
  <2> QED
    BY <1>2, <2>2 DEF Iterates
<1> HIDE DEF step
<1>4. ASSUME NEW k \in Nat PROVE g[k] = IF k = 0 THEN 1 ELSE 10 * g[k - 1]
  <2>1. k # 0 => k - 1 \in Nat /\ (k - 1) + 1 = k
    OBVIOUS
  <2> QED
    BY <1>2, <1>3, <2>1 DEF Iterates
<1>5. g = [k \in Nat |-> IF k = 0 THEN 1 ELSE 10 * g[k - 1]]
  BY <1>2, <1>4 DEF Iterates
<1> DEFINE power == CHOOSE f : f = [k \in Nat |-> IF k = 0 THEN 1 ELSE 10 * f[k - 1]]
<1>6. power = [k \in Nat |-> IF k = 0 THEN 1 ELSE 10 * power[k - 1]]
  BY <1>5
<1>7. \A n \in Nat : TenTo(n) = power[n]
  BY DEF TenTo
<1> HIDE DEF power
<1>8. power[0] = 1 /\ \A n \in Nat : power[n + 1] = 10 * power[n]
  <2>1. power[0] = 1
    BY <1>6
  <2>2. ASSUME NEW n \in Nat PROVE power[n + 1] = 10 * power[n]
    <3>1. n + 1 \in Nat /\ n + 1 # 0 /\ (n + 1) - 1 = n
      OBVIOUS
    <3> QED
      BY <1>6, <3>1
  <2> QED
    BY <2>1, <2>2
<1>9. \A n \in Nat : power[n] \in Nat \ {0}
  <2> SUFFICES ASSUME NEW bad, bad = {n \in Nat : power[n] \notin Nat \ {0}}, bad # {}
               PROVE  FALSE
    OBVIOUS
  <2>1. PICK n \in bad : \A k \in bad : n <= k
    BY LeastElement
  <2>2. n # 0 => n - 1 \in Nat /\ n - 1 \notin bad
    BY <2>1
  <2>3. n # 0 => power[n] = 10 * power[n - 1]
    BY <1>8, <2>2
  <2> QED
    BY <1>8, <2>1, <2>2, <2>3
<1> QED
  BY <1>7, <1>8, <1>9

(* Digits are read from the left.                                          *)
IsDigits(d) == d \in Seq(0..9)

LEMMA LeadingIs ==
  ASSUME NEW d, IsDigits(d)
  PROVE  /\ Len(d) \in Nat /\ Leading(d)[0] = 0
         /\ \A k \in 0..Len(d) : Leading(d)[k] \in Nat
         /\ \A k \in 1..Len(d) : Leading(d)[k] = 10 * Leading(d)[k - 1] + d[k]
<1>1. /\ Len(d) \in Nat
      /\ \A k \in 1..Len(d) : d[k] \in 0..9
  BY DEF IsDigits
<1> DEFINE step == [x \in Nat \X Nat |-> IF x[1] \in 1..Len(d) THEN 10 * x[2] + d[x[1]] ELSE 0]
<1>2. step \in [Nat \X Nat -> Nat]
  BY <1>1
<1>3. PICK g : Iterates(g, Nat, 0, step)
  <2> HIDE DEF step
  <2> QED
    BY <1>2, Recursion
<1>4. ASSUME NEW k \in 1..Len(d) PROVE g[k] = 10 * g[k - 1] + d[k]
  <2>0. k - 1 \in Nat /\ (k - 1) + 1 = k /\ k \in Nat
    BY <1>1
  <2>1. <<k, g[k - 1]>> \in Nat \X Nat
    BY <1>3, <2>0 DEF Iterates
  <2>2. step[<<k, g[k - 1]>>] = 10 * g[k - 1] + d[k]
    BY <2>1
  <2> HIDE DEF step
  <2> QED
    BY <1>3, <2>0, <2>2 DEF Iterates
<1> DEFINE from == [k \in 0..Len(d) |-> g[k]]
<1> HIDE DEF step
<1>5. ASSUME NEW k \in 0..Len(d)
      PROVE  from[k] = IF k = 0 THEN 0 ELSE 10 * from[k - 1] + d[k]
  <2>1. CASE k = 0
    BY <1>1, <1>3, <2>1 DEF Iterates
  <2>2. CASE k # 0
    <3>1. k \in 1..Len(d) /\ k - 1 \in 0..Len(d)
      BY <1>1, <2>2
    <3> QED
      BY <1>4, <2>2, <3>1
  <2> QED
    BY <2>1, <2>2
<1>6. from = [k \in 0..Len(d) |-> IF k = 0 THEN 0 ELSE 10 * from[k - 1] + d[k]]
  BY <1>5
<1> DEFINE spelled == CHOOSE f : f = [k \in 0..Len(d) |-> IF k = 0 THEN 0 ELSE 10 * f[k - 1] + d[k]]
<1>7. spelled = [k \in 0..Len(d) |-> IF k = 0 THEN 0 ELSE 10 * spelled[k - 1] + d[k]]
  <2> HIDE DEF from
  <2> QED
    BY <1>6
<1>8. Leading(d) = spelled
  BY DEF Leading
<1> HIDE DEF spelled
<1>9. /\ spelled[0] = 0
      /\ \A k \in 1..Len(d) : spelled[k] = 10 * spelled[k - 1] + d[k]
  <2>1. spelled[0] = 0
    <3>1. 0 \in 0..Len(d)
      BY <1>1
    <3> QED
      BY <1>7, <3>1
  <2>2. ASSUME NEW k \in 1..Len(d) PROVE spelled[k] = 10 * spelled[k - 1] + d[k]
    <3>1. k \in 0..Len(d) /\ k # 0
      BY <1>1
    <3> QED
      BY <1>7, <3>1
  <2> QED
    BY <2>1, <2>2
<1>10. \A k \in 0..Len(d) : spelled[k] \in Nat
  <2> DEFINE bad == {k \in 0..Len(d) : spelled[k] \notin Nat}
  <2> SUFFICES ASSUME bad # {} PROVE FALSE
    OBVIOUS
  <2>1. PICK k \in bad : \A j \in bad : k <= j
    <3>1. bad \subseteq Nat
      BY <1>1
    <3> HIDE DEF bad
    <3> QED
      BY <3>1, LeastElement
  <2>2. k # 0 => k \in 1..Len(d) /\ k - 1 \in 0..Len(d) /\ k - 1 \notin bad
    BY <1>1, <2>1
  <2>3. CASE k = 0
    BY <1>9, <2>1, <2>3
  <2>4. CASE k # 0
    <3>1. spelled[k - 1] \in Nat /\ d[k] \in 0..9
      BY <1>1, <2>2, <2>4
    <3>2. spelled[k] = 10 * spelled[k - 1] + d[k]
      BY <1>9, <2>2, <2>4
    <3>3. spelled[k] \in Nat
      BY <3>1, <3>2
    <3> QED
      BY <2>1, <3>3
  <2> QED
    BY <2>3, <2>4
<1> QED
  BY <1>1, <1>8, <1>9, <1>10

(* The last digit of a number, and what is before it.                      *)
Reads(n, before, digit) == n = 10 * before + digit /\ before \in Nat /\ digit \in 0..9

LEMMA LastDigit ==
  ASSUME NEW n, NEW a, NEW b, NEW x, NEW y, Reads(n, a, x), Reads(n, b, y)
  PROVE  a = b /\ x = y
BY DEF Reads

LEMMA Exponents ==
  ASSUME NEW a \in Nat, NEW b \in Nat
  PROVE  TenTo(a + b) = TenTo(a) * TenTo(b)
<1> DEFINE bad == {k \in Nat : TenTo(a + k) # TenTo(a) * TenTo(k)}
<1> SUFFICES ASSUME bad # {} PROVE FALSE
  OBVIOUS
<1>1. PICK k \in bad : \A j \in bad : k <= j
  <2>1. bad \subseteq Nat
    OBVIOUS
  <2> HIDE DEF bad
  <2> QED
    BY <2>1, LeastElement
<1>2. CASE k = 0
  <2>1. TenTo(a) * 1 = TenTo(a) /\ a + 0 = a
    BY PowersOfTen
  <2> QED
    BY <1>1, <1>2, <2>1, PowersOfTen
<1>3. CASE k # 0
  <2>1. k - 1 \in Nat /\ k - 1 \notin bad /\ (k - 1) + 1 = k /\ (a + (k - 1)) + 1 = a + k
    BY <1>1, <1>3
  <2>2. TenTo(a + (k - 1)) = TenTo(a) * TenTo(k - 1)
    BY <2>1
  <2>3. TenTo(k) = 10 * TenTo(k - 1) /\ TenTo(a + k) = 10 * TenTo(a + (k - 1))
    <3>1. a + (k - 1) \in Nat
      BY <2>1
    <3> QED
      BY <2>1, <3>1, PowersOfTen
  <2>4. TenTo(a) \in Nat /\ TenTo(k - 1) \in Nat
    BY <2>1, PowersOfTen
  <2>5. 10 * (TenTo(a) * TenTo(k - 1)) = TenTo(a) * (10 * TenTo(k - 1))
    BY <2>4
  <2> QED
    BY <1>1, <2>2, <2>3, <2>5
<1> QED
  BY <1>2, <1>3

LEMMA PowersGrow ==
  ASSUME NEW a \in Nat, NEW b \in Nat, a <= b
  PROVE  TenTo(a) <= TenTo(b)
<1>1. b - a \in Nat /\ a + (b - a) = b
  OBVIOUS
<1>2. TenTo(b) = TenTo(a) * TenTo(b - a)
  BY <1>1, Exponents
<1>3. TenTo(a) \in Nat /\ TenTo(b - a) \in Nat /\ TenTo(b - a) >= 1
  BY <1>1, PowersOfTen
<1> DEFINE x == TenTo(a)
           y == TenTo(b - a)
<1> HIDE DEF x, y
<1>4. x \in Nat /\ y \in Nat /\ y >= 1 => x <= x * y
  OBVIOUS
<1> QED
  BY <1>2, <1>3, <1>4 DEF x, y

(* A number of k digits is below the k-th power of ten.                    *)
LEMMA LeadingIsBelow ==
  ASSUME NEW d, IsDigits(d), NEW k \in 0..Len(d)
  PROVE  Leading(d)[k] < TenTo(k)
<1> DEFINE bad == {n \in 0..Len(d) : ~(Leading(d)[n] < TenTo(n))}
<1> SUFFICES ASSUME bad # {} PROVE FALSE
  OBVIOUS
<1>1. Len(d) \in Nat /\ \A n \in 1..Len(d) : d[n] \in 0..9
  BY DEF IsDigits
<1>2. PICK n \in bad : \A j \in bad : n <= j
  <2>1. bad \subseteq Nat
    BY <1>1
  <2> HIDE DEF bad
  <2> QED
    BY <2>1, LeastElement
<1>3. CASE n = 0
  <2>1. Leading(d)[0] = 0 /\ TenTo(0) = 1
    BY LeadingIs, PowersOfTen
  <2> QED
    BY <1>2, <1>3, <2>1
<1>4. CASE n # 0
  <2>1. n \in 1..Len(d) /\ n - 1 \in 0..Len(d) /\ n - 1 \notin bad /\ n - 1 \in Nat /\ (n - 1) + 1 = n
    BY <1>1, <1>2, <1>4
  <2>2. Leading(d)[n - 1] < TenTo(n - 1)
    BY <2>1
  <2>3. Leading(d)[n] = 10 * Leading(d)[n - 1] + d[n] /\ TenTo(n) = 10 * TenTo(n - 1)
    BY <2>1, LeadingIs, PowersOfTen
  <2>4. Leading(d)[n - 1] \in Nat /\ TenTo(n - 1) \in Nat /\ d[n] \in 0..9
    BY <1>1, <2>1, LeadingIs, PowersOfTen
  <2>5. Leading(d)[n] < TenTo(n)
    <3> DEFINE l == Leading(d)[n - 1]
               t == TenTo(n - 1)
               c == d[n]
    <3>1. l \in Nat /\ t \in Nat /\ c \in 0..9 /\ l < t
      BY <2>2, <2>4
    <3>2. Leading(d)[n] = 10 * l + c /\ TenTo(n) = 10 * t
      BY <2>3
    <3> HIDE DEF l, t, c
    <3>3. 10 * l + c < 10 * t
      BY <3>1
    <3> QED
      BY <3>2, <3>3
  <2> QED
    BY <1>2, <2>5
<1> QED
  BY <1>3, <1>4

(* One that does not begin with zero has no fewer digits than it needs.    *)
LEMMA LeadingIsAbove ==
  ASSUME NEW d, IsDigits(d), d[1] # 0, NEW k \in 1..Len(d)
  PROVE  TenTo(k - 1) <= Leading(d)[k]
<1> DEFINE bad == {n \in 1..Len(d) : ~(TenTo(n - 1) <= Leading(d)[n])}
<1> SUFFICES ASSUME bad # {} PROVE FALSE
  OBVIOUS
<1>1. Len(d) \in Nat /\ \A n \in 1..Len(d) : d[n] \in 0..9
  BY DEF IsDigits
<1>2. PICK n \in bad : \A j \in bad : n <= j
  <2>1. bad \subseteq Nat
    BY <1>1
  <2> HIDE DEF bad
  <2> QED
    BY <2>1, LeastElement
<1>3. CASE n = 1
  <2>1. Leading(d)[1] = 10 * Leading(d)[0] + d[1] /\ Leading(d)[0] = 0 /\ TenTo(0) = 1
    BY <1>1, <1>2, <1>3, LeadingIs, PowersOfTen
  <2>2. d[1] \in 0..9
    BY <1>1, <1>2, <1>3
  <2> QED
    BY <1>2, <1>3, <2>1, <2>2
<1>4. CASE n # 1
  <2>1. n \in 1..Len(d) /\ n - 1 \in 1..Len(d) /\ n - 1 \notin bad /\ n - 2 \in Nat
    BY <1>1, <1>2, <1>4
  <2>2. TenTo((n - 1) - 1) <= Leading(d)[n - 1] /\ (n - 1) - 1 = n - 2 /\ (n - 2) + 1 = n - 1
    BY <2>1
  <2>3. Leading(d)[n] = 10 * Leading(d)[n - 1] + d[n]
    BY <2>1, LeadingIs
  <2>4. TenTo(n - 1) = 10 * TenTo(n - 2) /\ TenTo(n - 2) \in Nat
    BY <2>1, <2>2, PowersOfTen
  <2>5. Leading(d)[n - 1] \in Nat /\ d[n] \in 0..9
    <3>1. n - 1 \in 0..Len(d)
      BY <1>1, <2>1
    <3> QED
      BY <1>1, <2>1, <3>1, LeadingIs
  <2> DEFINE p == TenTo(n - 2)
             q == Leading(d)[n - 1]
  <2>6. p <= q /\ p \in Nat /\ q \in Nat
    BY <2>2, <2>4, <2>5
  <2>7. TenTo(n - 1) = 10 * p /\ Leading(d)[n] = 10 * q + d[n]
    BY <2>3, <2>4
  <2> HIDE DEF p, q
  <2>8. TenTo(n - 1) <= Leading(d)[n]
    BY <2>5, <2>6, <2>7
  <2> QED
    BY <1>2, <2>8
<1> QED
  BY <1>3, <1>4

(* Zeros after a place multiply what is before it, and leading zeros add   *)
(* nothing.                                                                *)
LEMMA TrailingZeros ==
  ASSUME NEW d, IsDigits(d), NEW j \in 0..Len(d), \A k \in j + 1..Len(d) : d[k] = 0
  PROVE  Natural(d) = Leading(d)[j] * TenTo(Len(d) - j)
<1> DEFINE bad == {n \in 0..Len(d) - j : Leading(d)[j + n] # Leading(d)[j] * TenTo(n)}
<1>1. Len(d) \in Nat /\ j \in Nat /\ Len(d) - j \in Nat /\ j + (Len(d) - j) = Len(d)
  BY DEF IsDigits
<1>2. bad = {}
  <2> SUFFICES ASSUME bad # {} PROVE FALSE
    OBVIOUS
  <2>1. PICK n \in bad : \A m \in bad : n <= m
    <3>1. bad \subseteq Nat
      BY <1>1
    <3> HIDE DEF bad
    <3> QED
      BY <3>1, LeastElement
  <2>2. CASE n = 0
    <3>1. Leading(d)[j] \in Nat /\ TenTo(0) = 1 /\ j + 0 = j
      BY LeadingIs, PowersOfTen
    <3>2. Leading(d)[j] * 1 = Leading(d)[j]
      BY <3>1
    <3> QED
      BY <2>1, <2>2, <3>1, <3>2
  <2>3. CASE n # 0
    <3>1. /\ n - 1 \in 0..Len(d) - j /\ n - 1 \notin bad /\ n - 1 \in Nat
          /\ (n - 1) + 1 = n /\ j + (n - 1) = (j + n) - 1
      BY <1>1, <2>1, <2>3
    <3>2. j + n \in 1..Len(d) /\ j + n \in j + 1..Len(d) /\ (j + n) - 1 \in 0..Len(d)
      BY <1>1, <2>1, <2>3
    <3>3. Leading(d)[(j + n) - 1] = Leading(d)[j] * TenTo(n - 1)
      BY <3>1
    <3>4. Leading(d)[j + n] = 10 * Leading(d)[(j + n) - 1] + d[j + n] /\ d[j + n] = 0
      BY <3>2, LeadingIs
    <3>5. /\ TenTo(n) = 10 * TenTo(n - 1) /\ TenTo(n - 1) \in Nat /\ Leading(d)[j] \in Nat
          /\ Leading(d)[(j + n) - 1] \in Nat
      BY <3>1, <3>2, LeadingIs, PowersOfTen
    <3>6. 10 * (Leading(d)[j] * TenTo(n - 1)) = Leading(d)[j] * (10 * TenTo(n - 1))
      BY <3>5
    <3>7. Leading(d)[j + n] = Leading(d)[j] * TenTo(n)
      BY <3>3, <3>4, <3>5, <3>6
    <3> QED
      BY <2>1, <3>7
  <2> QED
    BY <2>2, <2>3
<1>3. Len(d) - j \in 0..Len(d) - j
  BY <1>1
<1> QED
  BY <1>1, <1>2, <1>3 DEF Natural

LEMMA LeadingZeros ==
  ASSUME NEW d, IsDigits(d), NEW i \in 0..Len(d), \A k \in 1..i : d[k] = 0
  PROVE  Leading(d)[i] = 0
<1> DEFINE bad == {n \in 0..i : Leading(d)[n] # 0}
<1>1. Len(d) \in Nat /\ i \in Nat
  BY DEF IsDigits
<1>2. bad = {}
  <2> SUFFICES ASSUME bad # {} PROVE FALSE
    OBVIOUS
  <2>1. PICK n \in bad : \A m \in bad : n <= m
    <3>1. bad \subseteq Nat
      BY <1>1
    <3> HIDE DEF bad
    <3> QED
      BY <3>1, LeastElement
  <2>2. CASE n = 0
    BY <2>1, <2>2, LeadingIs
  <2>3. CASE n # 0
    <3>1. n - 1 \in 0..i /\ n - 1 \notin bad /\ n \in 1..Len(d) /\ n \in 1..i
      BY <1>1, <2>1, <2>3
    <3>2. Leading(d)[n - 1] = 0 /\ d[n] = 0
      BY <3>1
    <3>3. Leading(d)[n] = 10 * Leading(d)[n - 1] + d[n]
      BY <3>1, LeadingIs
    <3>4. Leading(d)[n] = 0
      BY <3>2, <3>3
    <3> QED
      BY <2>1, <3>4
  <2> QED
    BY <2>2, <2>3
<1>3. i \in 0..i
  BY <1>1
<1> QED
  BY <1>2, <1>3

(* Digits after zeros are read as if they stood alone.                     *)
LEMMA WithoutLeadingZeros ==
  ASSUME NEW d, IsDigits(d), NEW i \in 1..Len(d), \A k \in 1..i - 1 : d[k] = 0,
         NEW j \in i..Len(d)
  PROVE  /\ IsDigits(SubSeq(d, i, j)) /\ Len(SubSeq(d, i, j)) = j - i + 1
         /\ \A k \in 1..j - i + 1 : SubSeq(d, i, j)[k] = d[i + k - 1]
         /\ Natural(SubSeq(d, i, j)) = Leading(d)[j]
<1> DEFINE s == SubSeq(d, i, j)
           bad == {n \in 0..Len(s) : Leading(s)[n] # Leading(d)[(i - 1) + n]}
<1>1. Len(d) \in Nat /\ i \in Nat /\ j \in Nat /\ 1 <= i /\ i <= j /\ j <= Len(d)
  BY DEF IsDigits
<1>2. /\ IsDigits(s) /\ Len(s) = j - i + 1
      /\ \A k \in 1..j - i + 1 : s[k] = d[i + k - 1]
  BY <1>1 DEF IsDigits
<1> HIDE DEF s
<1>3. bad = {}
  <2> SUFFICES ASSUME bad # {} PROVE FALSE
    OBVIOUS
  <2>1. PICK n \in bad : \A m \in bad : n <= m
    <3>1. bad \subseteq Nat
      BY <1>1, <1>2
    <3> HIDE DEF bad
    <3> QED
      BY <3>1, LeastElement
  <2>2. CASE n = 0
    <3>1. i - 1 \in 0..Len(d) /\ (i - 1) + 0 = i - 1
      BY <1>1
    <3>2. Leading(d)[i - 1] = 0
      BY <3>1, LeadingZeros
    <3>3. Leading(s)[0] = 0
      BY <1>2, LeadingIs
    <3> QED
      BY <2>1, <2>2, <3>1, <3>2, <3>3
  <2>3. CASE n # 0
    <3>1. n - 1 \in 0..Len(s) /\ n - 1 \notin bad /\ n \in 1..Len(s) /\ n \in 1..j - i + 1
      BY <1>1, <1>2, <2>1, <2>3
    <3>2. /\ (i - 1) + n \in 1..Len(d) /\ ((i - 1) + n) - 1 = (i - 1) + (n - 1)
          /\ i + n - 1 = (i - 1) + n
      BY <1>1, <1>2, <3>1
    <3>3. Leading(s)[n - 1] = Leading(d)[((i - 1) + n) - 1] /\ s[n] = d[(i - 1) + n]
      BY <1>2, <3>1, <3>2
    <3>4. /\ Leading(s)[n] = 10 * Leading(s)[n - 1] + s[n]
          /\ Leading(d)[(i - 1) + n] = 10 * Leading(d)[((i - 1) + n) - 1] + d[(i - 1) + n]
      BY <1>2, <3>1, <3>2, LeadingIs
    <3> QED
      BY <2>1, <3>3, <3>4
  <2> QED
    BY <2>2, <2>3
<1>4. Len(s) \in 0..Len(s) /\ (i - 1) + Len(s) = j
  BY <1>1, <1>2
<1>5. Natural(s) = Leading(d)[j]
  BY <1>3, <1>4 DEF Natural
<1> QED
  BY <1>2, <1>5 DEF s

(* Sequences of one length that spell one number are one.                  *)
LEMMA DigitsAreUnique ==
  ASSUME NEW d, IsDigits(d), NEW e, IsDigits(e), Len(d) = Len(e), Natural(d) = Natural(e)
  PROVE  d = e
<1>1. /\ Len(d) \in Nat
      /\ \A k \in 1..Len(d) : d[k] \in 0..9 /\ e[k] \in 0..9
  BY DEF IsDigits
<1> DEFINE bad == {m \in 0..Len(d) : Leading(d)[Len(d) - m] # Leading(e)[Len(d) - m]}
<1>2. bad = {}
  <2> SUFFICES ASSUME bad # {} PROVE FALSE
    OBVIOUS
  <2>1. PICK m \in bad : \A n \in bad : m <= n
    <3>1. bad \subseteq Nat
      BY <1>1
    <3> HIDE DEF bad
    <3> QED
      BY <3>1, LeastElement
  <2>2. CASE m = 0
    <3>1. Len(d) - 0 = Len(d)
      BY <1>1
    <3> QED
      BY <2>1, <2>2, <3>1 DEF Natural
  <2>3. CASE m # 0
    <3> DEFINE k == Len(d) - (m - 1)
    <3>5. m \in 1..Len(d) /\ m - 1 \in 0..Len(d) /\ m - 1 \notin bad
      <4>1. m \in 0..Len(d)
        BY <2>1
      <4>2. \A n \in bad : m <= n
        BY <2>1
      <4> HIDE DEF bad
      <4> QED
        BY <1>1, <4>1, <4>2, <2>3
    <3>1. /\ k \in 1..Len(d) /\ k \in 1..Len(e) /\ k - 1 = Len(d) - m
          /\ k - 1 \in 0..Len(d) /\ k - 1 \in 0..Len(e)
      <4> HIDE DEF bad
      <4> QED
        BY <1>1, <3>5
    <3>2. Leading(d)[k] = Leading(e)[k]
      BY <3>5
    <3> HIDE DEF k
    <3>3. /\ Leading(d)[k] = 10 * Leading(d)[k - 1] + d[k]
          /\ Leading(e)[k] = 10 * Leading(e)[k - 1] + e[k]
          /\ Leading(d)[k - 1] \in Nat /\ Leading(e)[k - 1] \in Nat
      BY <3>1, LeadingIs
    <3>4. Leading(d)[k - 1] = Leading(e)[k - 1]
      <4>1. d[k] \in 0..9 /\ e[k] \in 0..9
        BY <1>1, <3>1
      <4>2. Reads(Leading(d)[k], Leading(d)[k - 1], d[k])
        BY <3>3, <4>1 DEF Reads
      <4>3. Reads(Leading(e)[k], Leading(e)[k - 1], e[k])
        BY <3>3, <4>1 DEF Reads
      <4> QED
        BY <3>2, <4>2, <4>3, LastDigit
    <3> QED
      BY <2>1, <3>1, <3>4
  <2> QED
    BY <2>2, <2>3
<1>3. ASSUME NEW k \in 0..Len(d) PROVE Leading(d)[k] = Leading(e)[k]
  <2>1. Len(d) - k \in 0..Len(d) /\ Len(d) - (Len(d) - k) = k
    BY <1>1
  <2> QED
    BY <1>2, <2>1
<1>4. ASSUME NEW k \in 1..Len(d) PROVE d[k] = e[k]
  <2>1. k \in 0..Len(d) /\ k - 1 \in 0..Len(d) /\ k \in 1..Len(e) /\ k - 1 \in 0..Len(e)
    BY <1>1
  <2>2. /\ Leading(d)[k] = 10 * Leading(d)[k - 1] + d[k]
        /\ Leading(e)[k] = 10 * Leading(e)[k - 1] + e[k]
        /\ Leading(d)[k - 1] \in Nat /\ Leading(e)[k - 1] \in Nat
    BY <2>1, LeadingIs
  <2>3. d[k] \in 0..9 /\ e[k] \in 0..9
    BY <1>1
  <2>4. Reads(Leading(d)[k], Leading(d)[k - 1], d[k])
    BY <2>2, <2>3 DEF Reads
  <2>5. Reads(Leading(e)[k], Leading(e)[k - 1], e[k])
    BY <2>2, <2>3 DEF Reads
  <2>6. Leading(d)[k] = Leading(e)[k]
    BY <1>3, <2>1
  <2> QED
    BY <2>4, <2>5, <2>6, LastDigit
<1>5. d \in Seq(0..9) /\ e \in Seq(0..9)
  BY DEF IsDigits
<1> QED
  BY <1>1, <1>4, <1>5

-----------------------------------------------------------------------------
(* Neither end of a normal form is zero.                                   *)
IsNormal(a) == IsDigits(a) /\ Len(a) >= 1 /\ a[1] # 0 /\ a[Len(a)] # 0

LEMMA NormalSpells ==
  ASSUME NEW a, IsNormal(a)
  PROVE  /\ Len(a) \in Nat /\ Natural(a) \in Nat /\ Natural(a) > 0
         /\ TenTo(Len(a) - 1) <= Natural(a) /\ Natural(a) < TenTo(Len(a))
         /\ \A x \in Nat : Natural(a) # 10 * x
<1>1. /\ IsDigits(a) /\ Len(a) \in Nat /\ Len(a) \in 1..Len(a) /\ Len(a) \in 0..Len(a)
      /\ Len(a) - 1 \in 0..Len(a) /\ Len(a) - 1 \in Nat
      /\ a[Len(a)] \in 0..9 /\ a[Len(a)] # 0 /\ a[1] # 0
  BY DEF IsNormal, IsDigits
<1>2. TenTo(Len(a) - 1) <= Natural(a) /\ Natural(a) < TenTo(Len(a))
  BY <1>1, LeadingIsBelow, LeadingIsAbove DEF Natural
<1>3. Natural(a) \in Nat /\ TenTo(Len(a) - 1) \in Nat \ {0}
  BY <1>1, LeadingIs, PowersOfTen DEF Natural
<1>4. Natural(a) = 10 * Leading(a)[Len(a) - 1] + a[Len(a)] /\ Leading(a)[Len(a) - 1] \in Nat
  BY <1>1, LeadingIs DEF Natural
<1>5. ASSUME NEW x \in Nat PROVE Natural(a) # 10 * x
  BY <1>1, <1>4
<1>6. Natural(a) > 0
  <2> DEFINE p == TenTo(Len(a) - 1)
  <2> HIDE DEF p
  <2>1. p \in Nat \ {0} /\ p <= Natural(a)
    BY <1>2, <1>3 DEF p
  <2> QED
    BY <1>3, <2>1
<1> QED
  BY <1>1, <1>2, <1>3, <1>5, <1>6

LEMMA Cancelled ==
  ASSUME NEW a \in Int, NEW b \in Int, NEW c \in Nat \ {0}, a * c = b * c
  PROVE  a = b
OBVIOUS

(* A normal form times a power of ten is no other one times another.       *)
LEMMA NoLowerScale ==
  ASSUME NEW a, IsNormal(a), NEW b, IsNormal(b), NEW s \in Nat, NEW t \in Nat,
         Natural(a) * TenTo(s) = Natural(b) * TenTo(t)
  PROVE  ~(s < t)
<1> SUFFICES ASSUME s < t PROVE FALSE
  OBVIOUS
<1> DEFINE r == t - s - 1
<1>1. r \in Nat /\ r + 1 \in Nat /\ s + (r + 1) = t
  OBVIOUS
<1> HIDE DEF r
<1>2. TenTo(t) = TenTo(s) * TenTo(r + 1) /\ TenTo(r + 1) = 10 * TenTo(r)
  BY <1>1, Exponents, PowersOfTen
<1>3. /\ TenTo(s) \in Nat \ {0} /\ TenTo(r) \in Nat
      /\ Natural(a) \in Nat /\ Natural(b) \in Nat
  BY <1>1, PowersOfTen, NormalSpells
<1> DEFINE x == Natural(b) * TenTo(r)
<1>4. x \in Nat
  BY <1>3
<1>5. Natural(b) * TenTo(t) = (10 * x) * TenTo(s)
  <2>1. ASSUME NEW u \in Nat, NEW v \in Nat, NEW w \in Nat
        PROVE  u * (v * (10 * w)) = (10 * (u * w)) * v
    <3>1. u * (v * (10 * w)) = 10 * (u * (v * w))
      OBVIOUS
    <3>2. u * (v * w) = (u * w) * v
      OBVIOUS
    <3> QED
      BY <3>1, <3>2
  <2> QED
    BY <1>2, <1>3, <2>1
<1> HIDE DEF x
<1>6. Natural(a) = 10 * x
  <2>1. Natural(a) * TenTo(s) = (10 * x) * TenTo(s)
    BY <1>5
  <2>2. Natural(a) \in Int /\ 10 * x \in Int
    BY <1>3, <1>4
  <2> QED
    BY <1>3, <2>1, <2>2, Cancelled
<1> QED
  BY <1>4, <1>6, NormalSpells

LEMMA NoFewerDigits ==
  ASSUME NEW a, IsNormal(a), NEW b, IsNormal(b), Natural(a) = Natural(b)
  PROVE  ~(Len(a) < Len(b))
<1> SUFFICES ASSUME Len(a) < Len(b) PROVE FALSE
  OBVIOUS
<1>1. Len(a) \in Nat /\ Len(b) - 1 \in Nat /\ Len(a) <= Len(b) - 1
  BY NormalSpells
<1>2. TenTo(Len(a)) <= TenTo(Len(b) - 1)
  BY <1>1, PowersGrow
<1>3. /\ Natural(a) < TenTo(Len(a)) /\ TenTo(Len(b) - 1) <= Natural(b)
      /\ Natural(a) \in Nat /\ TenTo(Len(a)) \in Nat /\ TenTo(Len(b) - 1) \in Nat
  BY <1>1, NormalSpells, PowersOfTen
<1> QED
  BY <1>2, <1>3

LEMMA NormalFormsDiffer ==
  ASSUME NEW a, IsNormal(a), NEW b, IsNormal(b), NEW s \in Nat, NEW t \in Nat,
         Natural(a) * TenTo(s) = Natural(b) * TenTo(t)
  PROVE  a = b /\ s = t
<1>1. s = t
  BY NoLowerScale
<1>2. Natural(a) = Natural(b)
  <2>1. /\ Natural(a) \in Int /\ Natural(b) \in Int /\ TenTo(s) \in Nat \ {0}
        /\ Natural(a) * TenTo(s) = Natural(b) * TenTo(s)
    BY <1>1, NormalSpells, PowersOfTen
  <2> QED
    BY <2>1, Cancelled
<1>3. Len(a) = Len(b)
  BY <1>2, NoFewerDigits, NormalSpells
<1> QED
  BY <1>1, <1>2, <1>3, DigitsAreUnique DEF IsNormal

(* The first and the last of some positions.                               *)
LEMMA Extremes ==
  ASSUME NEW k \in Nat, NEW I, I \subseteq 1..k, I # {}
  PROVE  /\ Min(I) \in I /\ \A x \in I : Min(I) <= x
         /\ Max(I) \in I /\ \A x \in I : x <= Max(I)
<1>1. \E x \in I : \A y \in I : x <= y
  <2>1. I \subseteq Nat
    OBVIOUS
  <2> QED
    BY <2>1, LeastElement
<1>2. \E x \in I : \A y \in I : x >= y
  <2> DEFINE J == {j \in 0..k : k - j \in I}
  <2>1. J \subseteq Nat
    OBVIOUS
  <2>2. PICK x : x \in I
    OBVIOUS
  <2>3. k - x \in J
    <3>1. x \in 1..k
      BY <2>2
    <3>2. k - x \in 0..k /\ k - (k - x) = x
      BY <3>1
    <3> QED
      BY <2>2, <3>2
  <2>4. PICK j \in J : \A i \in J : j <= i
    <3> HIDE DEF J
    <3> QED
      BY <2>1, <2>3, LeastElement
  <2>5. k - j \in I /\ j \in Nat
    BY <2>4
  <2>6. ASSUME NEW y \in I PROVE k - j >= y
    <3>1. y \in 1..k
      OBVIOUS
    <3>2. k - y \in 0..k /\ k - (k - y) = y
      BY <3>1
    <3>3. k - y \in J
      BY <3>2
    <3>4. j <= k - y
      BY <2>4, <3>3
    <3> QED
      BY <2>5, <3>1, <3>4
  <2> QED
    BY <2>5, <2>6
<1> QED
  BY <1>1, <1>2 DEF Min, Max

LEMMA DigitsAre ==
  ASSUME NEW n, IsSpelling(n)
  PROVE  /\ IsDigits(Digits(n)) /\ Len(Digits(n)) \in Nat
         /\ Len(n.fraction) \in Nat /\ n.exponent \in Int /\ n.negative \in BOOLEAN
         /\ NonZero(Digits(n)) \subseteq 1..Len(Digits(n))
         /\ \A k \in 1..Len(Digits(n)) : k \notin NonZero(Digits(n)) => Digits(n)[k] = 0
<1>1. Digits(n) \in Seq(0..9) /\ n.fraction \in Seq(0..9)
  BY DEF IsSpelling, Digits
<1>2. DOMAIN Digits(n) = 1..Len(Digits(n)) /\ Len(Digits(n)) \in Nat
  BY <1>1
<1> QED
  BY <1>1, <1>2 DEF IsSpelling, IsDigits, NonZero

(* What the digits of a spelling are multiplied by.                        *)
Shift(n) == n.exponent - Len(n.fraction)

LEMMA ZeroSpells ==
  ASSUME NEW n, IsSpelling(n), NonZero(Digits(n)) = {}
  PROVE  Natural(Digits(n)) = 0
<1>1. Len(Digits(n)) \in 0..Len(Digits(n)) /\ \A k \in 1..Len(Digits(n)) : Digits(n)[k] = 0
  BY DigitsAre
<1> QED
  BY <1>1, LeadingZeros, DigitsAre DEF Natural

LEMMA NormalFormSpells ==
  ASSUME NEW n, IsSpelling(n), NonZero(Digits(n)) # {}
  PROVE  /\ NormalForm(n) = [ negative |-> n.negative, digits |-> NormalForm(n).digits,
                              scale |-> NormalForm(n).scale ]
         /\ IsNormal(NormalForm(n).digits)
         /\ NormalForm(n).scale \in Int /\ NormalForm(n).scale - Shift(n) \in Nat
         /\ Natural(Digits(n)) =
              Natural(NormalForm(n).digits) * TenTo(NormalForm(n).scale - Shift(n))
<1> DEFINE d == Digits(n)
           I == NonZero(d)
           a == SubSeq(d, Min(I), Max(I))
<1>1. /\ IsDigits(d) /\ Len(d) \in Nat /\ I \subseteq 1..Len(d) /\ I # {}
      /\ \A k \in 1..Len(d) : k \notin I => d[k] = 0
      /\ \A k \in I : d[k] # 0
      /\ Shift(n) \in Int
  BY DigitsAre DEF NonZero, Shift
<1>2. NormalForm(n) = [ negative |-> n.negative, digits |-> a,
                        scale |-> Shift(n) + (Len(d) - Max(I)) ]
  BY <1>1 DEF NormalForm, Shift
<1> HIDE DEF d, I
<1>3. /\ Min(I) \in I /\ Min(I) \in 1..Len(d) /\ Max(I) \in I /\ Max(I) \in 1..Len(d)
      /\ Max(I) \in Min(I)..Len(d) /\ \A x \in I : Min(I) <= x /\ x <= Max(I)
  <2>1. /\ Min(I) \in I /\ \A x \in I : Min(I) <= x
        /\ Max(I) \in I /\ \A x \in I : x <= Max(I)
    BY <1>1, Extremes
  <2>2. Min(I) \in 1..Len(d) /\ Max(I) \in 1..Len(d)
    BY <1>1, <2>1
  <2>3. Max(I) \in Min(I)..Len(d)
    BY <1>1, <2>1, <2>2
  <2> QED
    BY <2>1, <2>2, <2>3
<1>4. /\ \A k \in 1..Min(I) - 1 : d[k] = 0
      /\ \A k \in Max(I) + 1..Len(d) : d[k] = 0
  <2>1. ASSUME NEW k \in 1..Min(I) - 1 PROVE d[k] = 0
    BY <1>1, <1>3
  <2>2. ASSUME NEW k \in Max(I) + 1..Len(d) PROVE d[k] = 0
    BY <1>1, <1>3
  <2> QED
    BY <2>1, <2>2
<1>5. /\ IsDigits(a) /\ Len(a) = Max(I) - Min(I) + 1
      /\ \A k \in 1..Max(I) - Min(I) + 1 : a[k] = d[Min(I) + k - 1]
      /\ Natural(a) = Leading(d)[Max(I)]
  BY <1>1, <1>3, <1>4, WithoutLeadingZeros
<1>6. Natural(d) = Leading(d)[Max(I)] * TenTo(Len(d) - Max(I))
  BY <1>1, <1>3, <1>4, TrailingZeros
<1> HIDE DEF a
<1>7. IsNormal(a)
  <2>1. /\ 1 \in 1..Max(I) - Min(I) + 1 /\ Min(I) + 1 - 1 = Min(I)
        /\ Len(a) \in 1..Max(I) - Min(I) + 1 /\ Min(I) + Len(a) - 1 = Max(I)
        /\ Len(a) >= 1
    BY <1>1, <1>3, <1>5
  <2>2. a[1] = d[Min(I)] /\ a[Len(a)] = d[Max(I)]
    BY <1>5, <2>1
  <2> QED
    BY <1>1, <1>3, <1>5, <2>1, <2>2 DEF IsNormal
<1>8. /\ Len(d) - Max(I) \in Nat
      /\ (Shift(n) + (Len(d) - Max(I))) - Shift(n) = Len(d) - Max(I)
  BY <1>1, <1>3
<1>9. /\ NormalForm(n).digits = a /\ NormalForm(n).scale = Shift(n) + (Len(d) - Max(I))
  BY <1>2
<1>10. NormalForm(n).scale - Shift(n) = Len(d) - Max(I) /\ NormalForm(n).scale \in Int
  BY <1>1, <1>8, <1>9
<1> QED
  BY <1>2, <1>5, <1>6, <1>7, <1>8, <1>9, <1>10 DEF d

(* The numerator of a spelling, over enough places for its digits.         *)
LEMMA NumeratorIs ==
  ASSUME NEW n, IsSpelling(n), NEW p \in Nat, Shift(n) + p \in Nat
  PROVE  /\ NonZero(Digits(n)) = {} => Numerator(n, p) = 0
         /\ NonZero(Digits(n)) # {} =>
              /\ NormalForm(n).scale + p \in Nat
              /\ Numerator(n, p) =
                   Signed(n.negative, Natural(NormalForm(n).digits)
                                        * TenTo(NormalForm(n).scale + p))
<1>1. Numerator(n, p) = Signed(n.negative, Natural(Digits(n)) * TenTo(Shift(n) + p))
  BY DEF Numerator, Shift
<1>2. TenTo(Shift(n) + p) \in Nat
  BY PowersOfTen
<1>3. CASE NonZero(Digits(n)) = {}
  <2>1. Natural(Digits(n)) * TenTo(Shift(n) + p) = 0
    BY <1>2, <1>3, ZeroSpells
  <2> QED
    BY <1>1, <1>3, <2>1 DEF Signed
<1>4. CASE NonZero(Digits(n)) # {}
  <2> DEFINE f == NormalForm(n)
             up == f.scale - Shift(n)
  <2>1. IsNormal(f.digits) /\ up \in Nat /\ Natural(Digits(n)) = Natural(f.digits) * TenTo(up)
    BY <1>4, NormalFormSpells
  <2>2. Shift(n) \in Int
    BY DigitsAre DEF Shift
  <2>3. f.scale \in Int
    <3>1. f.scale = Shift(n) + (Len(Digits(n)) - Max(NonZero(Digits(n))))
      BY <1>4 DEF NormalForm, Shift
    <3>2. Max(NonZero(Digits(n))) \in 1..Len(Digits(n))
      BY <1>4, DigitsAre, Extremes
    <3> QED
      BY <2>2, <3>1, <3>2, DigitsAre
  <2>4. f.scale + p \in Nat /\ up + (Shift(n) + p) = f.scale + p
    BY <2>1, <2>2, <2>3
  <2>5. TenTo(f.scale + p) = TenTo(up) * TenTo(Shift(n) + p)
    BY <2>1, <2>4, Exponents
  <2> HIDE DEF f, up
  <2>6. Natural(Digits(n)) * TenTo(Shift(n) + p) = Natural(f.digits) * TenTo(f.scale + p)
    <3>1. Natural(f.digits) \in Nat /\ TenTo(up) \in Nat
      BY <2>1, NormalSpells, PowersOfTen
    <3>2. ASSUME NEW u \in Nat, NEW v \in Nat, NEW w \in Nat
          PROVE  (u * v) * w = u * (v * w)
      OBVIOUS
    <3> QED
      BY <1>2, <2>1, <2>5, <3>1, <3>2
  <2> QED
    BY <1>1, <1>4, <2>4, <2>6 DEF f
<1> QED
  BY <1>3, <1>4

(* Numbers of one sign and size are equal, and opposite ones are not.      *)
LEMMA SignsAgree ==
  ASSUME NEW a \in Nat, a > 0, NEW b \in Nat, b > 0, NEW s \in BOOLEAN, NEW t \in BOOLEAN
  PROVE  Signed(s, a) = Signed(t, b) <=> s = t /\ a = b
<1>1. /\ Signed(TRUE, a) = -a /\ Signed(FALSE, a) = a
      /\ Signed(TRUE, b) = -b /\ Signed(FALSE, b) = b
  BY DEF Signed
<1>2. CASE s = TRUE /\ t = TRUE
  <2>1. -a = -b <=> a = b
    OBVIOUS
  <2> QED
    BY <1>1, <1>2, <2>1
<1>3. CASE s = TRUE /\ t = FALSE
  <2>1. -a # b
    OBVIOUS
  <2> QED
    BY <1>1, <1>3, <2>1
<1>4. CASE s = FALSE /\ t = TRUE
  <2>1. a # -b
    OBVIOUS
  <2> QED
    BY <1>1, <1>4, <2>1
<1>5. CASE s = FALSE /\ t = FALSE
  BY <1>1, <1>5
<1> QED
  BY <1>2, <1>3, <1>4, <1>5

LEMMA PlacesAre ==
  ASSUME NEW n, IsSpelling(n)
  PROVE  Places(n) \in Nat /\ \A p \in Nat : p >= Places(n) => Shift(n) + p \in Nat
<1>1. n.exponent \in Int /\ Len(n.fraction) \in Nat
  BY DigitsAre
<1>2. Places(n) \in Nat /\ n.exponent - Len(n.fraction) + Places(n) >= 0
  BY <1>1 DEF Places
<1>3. ASSUME NEW p \in Nat, p >= Places(n) PROVE Shift(n) + p \in Nat
  BY <1>1, <1>2, <1>3 DEF Shift
<1> QED
  BY <1>2, <1>3

LEMMA NumeratorsAre ==
  ASSUME NEW n, IsSpelling(n), NEW p \in Nat, Shift(n) + p \in Nat
  PROVE  Numerator(n, p) \in Int
<1>1. CASE NonZero(Digits(n)) = {}
  BY <1>1, NumeratorIs
<1>2. CASE NonZero(Digits(n)) # {}
  <2> DEFINE f == NormalForm(n)
  <2>1. IsNormal(f.digits) /\ f.scale + p \in Nat
    BY <1>2, NumeratorIs, NormalFormSpells
  <2>2. Numerator(n, p) = Signed(n.negative, Natural(f.digits) * TenTo(f.scale + p))
    BY <1>2, NumeratorIs
  <2> HIDE DEF f
  <2>3. Natural(f.digits) * TenTo(f.scale + p) \in Nat
    <3>1. Natural(f.digits) \in Nat
      BY <2>1, NormalSpells
    <3>2. TenTo(f.scale + p) \in Nat
      BY <2>1, PowersOfTen
    <3> QED
      BY <3>1, <3>2
  <2> QED
    BY <2>2, <2>3 DEF Signed
<1> QED
  BY <1>1, <1>2

LEMMA EqualNumerators ==
  ASSUME NEW m, IsSpelling(m), NEW n, IsSpelling(n), NEW p \in Nat,
         Shift(m) + p \in Nat, Shift(n) + p \in Nat
  PROVE  NumbersEqual(m, n) <=> Numerator(m, p) = Numerator(n, p)
<1> DEFINE f == NormalForm(m)
           g == NormalForm(n)
<1>1. ASSUME NonZero(Digits(m)) # {}
      PROVE  /\ IsNormal(f.digits) /\ f.scale + p \in Nat /\ f.negative = m.negative
             /\ f = [negative |-> m.negative, digits |-> f.digits, scale |-> f.scale]
             /\ Numerator(m, p) = Signed(m.negative, Natural(f.digits) * TenTo(f.scale + p))
             /\ Natural(f.digits) * TenTo(f.scale + p) \in Nat \ {0}
  <2>1. IsNormal(f.digits) /\ f.scale + p \in Nat
    BY <1>1, NumeratorIs, NormalFormSpells
  <2>2. Numerator(m, p) = Signed(m.negative, Natural(f.digits) * TenTo(f.scale + p))
    BY <1>1, NumeratorIs
  <2>3. f = [negative |-> m.negative, digits |-> f.digits, scale |-> f.scale]
    BY <1>1, NormalFormSpells
  <2> HIDE DEF f
  <2>4. Natural(f.digits) \in Nat \ {0} /\ TenTo(f.scale + p) \in Nat \ {0}
    <3>1. Natural(f.digits) \in Nat /\ Natural(f.digits) > 0
      BY <2>1, NormalSpells
    <3>2. TenTo(f.scale + p) \in Nat \ {0}
      BY <2>1, PowersOfTen
    <3> QED
      BY <3>1, <3>2
  <2>5. \A u, v \in Nat \ {0} : u * v \in Nat \ {0}
    OBVIOUS
  <2> QED
    BY <2>1, <2>2, <2>3, <2>4, <2>5
<1>2. ASSUME NonZero(Digits(n)) # {}
      PROVE  /\ IsNormal(g.digits) /\ g.scale + p \in Nat /\ g.negative = n.negative
             /\ g = [negative |-> n.negative, digits |-> g.digits, scale |-> g.scale]
             /\ Numerator(n, p) = Signed(n.negative, Natural(g.digits) * TenTo(g.scale + p))
             /\ Natural(g.digits) * TenTo(g.scale + p) \in Nat \ {0}
  <2>1. IsNormal(g.digits) /\ g.scale + p \in Nat
    BY <1>2, NumeratorIs, NormalFormSpells
  <2>2. Numerator(n, p) = Signed(n.negative, Natural(g.digits) * TenTo(g.scale + p))
    BY <1>2, NumeratorIs
  <2>3. g = [negative |-> n.negative, digits |-> g.digits, scale |-> g.scale]
    BY <1>2, NormalFormSpells
  <2> HIDE DEF g
  <2>4. Natural(g.digits) \in Nat \ {0} /\ TenTo(g.scale + p) \in Nat \ {0}
    <3>1. Natural(g.digits) \in Nat /\ Natural(g.digits) > 0
      BY <2>1, NormalSpells
    <3>2. TenTo(g.scale + p) \in Nat \ {0}
      BY <2>1, PowersOfTen
    <3> QED
      BY <3>1, <3>2
  <2>5. \A u, v \in Nat \ {0} : u * v \in Nat \ {0}
    OBVIOUS
  <2> QED
    BY <2>1, <2>2, <2>3, <2>4, <2>5
<1>3. /\ NonZero(Digits(m)) = {} => f = Zero /\ Numerator(m, p) = 0
      /\ NonZero(Digits(n)) = {} => g = Zero /\ Numerator(n, p) = 0
  BY NumeratorIs DEF NormalForm
<1>4. NumbersEqual(m, n) <=> f = g
  BY DEF NumbersEqual
<1>5. m.negative \in BOOLEAN /\ n.negative \in BOOLEAN
  BY DEF IsSpelling
<1>6. \A s \in BOOLEAN : \A u \in Nat \ {0} : Signed(s, u) # 0
  BY DEF Signed
<1>7. ~IsNormal(Zero.digits)
  BY DEF IsNormal, Zero
<1> HIDE DEF f, g
<1>8. CASE NonZero(Digits(m)) = {} /\ NonZero(Digits(n)) = {}
  BY <1>3, <1>4, <1>8
<1>9. CASE NonZero(Digits(m)) # {} /\ NonZero(Digits(n)) = {}
  <2>1. f # g
    BY <1>1, <1>3, <1>7, <1>9
  <2>2. Numerator(m, p) # Numerator(n, p)
    BY <1>1, <1>3, <1>5, <1>6, <1>9
  <2> QED
    BY <1>4, <2>1, <2>2
<1>10. CASE NonZero(Digits(m)) = {} /\ NonZero(Digits(n)) # {}
  <2>1. f # g
    BY <1>2, <1>3, <1>7, <1>10
  <2>2. Numerator(m, p) # Numerator(n, p)
    BY <1>2, <1>3, <1>5, <1>6, <1>10
  <2> QED
    BY <1>4, <2>1, <2>2
<1>11. CASE NonZero(Digits(m)) # {} /\ NonZero(Digits(n)) # {}
  <2>1. ASSUME Numerator(m, p) = Numerator(n, p) PROVE f = g
    <3> DEFINE u == Natural(f.digits) * TenTo(f.scale + p)
               v == Natural(g.digits) * TenTo(g.scale + p)
    <3>1. u \in Nat /\ u > 0 /\ v \in Nat /\ v > 0
      BY <1>1, <1>2, <1>11
    <3>2. Signed(m.negative, u) = Signed(n.negative, v)
      BY <1>1, <1>2, <1>11, <2>1
    <3>3. m.negative = n.negative /\ u = v
      <4> HIDE DEF u, v
      <4> QED
        BY <1>5, <3>1, <3>2, SignsAgree
    <3>4. /\ IsNormal(f.digits) /\ f.scale + p \in Nat
          /\ IsNormal(g.digits) /\ g.scale + p \in Nat
      BY <1>1, <1>2, <1>11
    <3>5. f.digits = g.digits /\ f.scale + p = g.scale + p
      BY <3>3, <3>4, NormalFormsDiffer
    <3>6. f.scale \in Int /\ g.scale \in Int
      BY <1>11, NormalFormSpells DEF f, g
    <3>7. f.scale = g.scale
      BY <3>5, <3>6
    <3> QED
      BY <1>1, <1>2, <1>11, <3>3, <3>5, <3>7
  <2>2. ASSUME f = g PROVE Numerator(m, p) = Numerator(n, p)
    BY <1>1, <1>2, <1>11, <2>2
  <2> QED
    BY <1>4, <2>1, <2>2
<1> QED
  BY <1>8, <1>9, <1>10, <1>11

(* Two spellings of numbers are found equal exactly when neither number is *)
(* less than the other (numbers_equal, number_normal_form).                *)
THEOREM EqualNumbers ==
  ASSUME NEW m, IsSpelling(m), NEW n, IsSpelling(n)
  PROVE  EqualAsMeant(m, n)
<1> DEFINE p == Max({Places(m), Places(n)})
<1>1. Places(m) \in Nat /\ Places(n) \in Nat
  BY PlacesAre
<1>2. p \in Nat /\ p >= Places(m) /\ p >= Places(n) /\ p = Max({Places(n), Places(m)})
  <2>1. {Places(n), Places(m)} = {Places(m), Places(n)}
    OBVIOUS
  <2>2. \E x \in {Places(m), Places(n)} : \A y \in {Places(m), Places(n)} : x >= y
    BY <1>1
  <2> QED
    BY <1>1, <2>1, <2>2 DEF Max
<1> HIDE DEF p
<1>3. Shift(m) + p \in Nat /\ Shift(n) + p \in Nat
  BY <1>2, PlacesAre
<1>4. Numerator(m, p) \in Int /\ Numerator(n, p) \in Int
  BY <1>2, <1>3, NumeratorsAre
<1>5. NumbersEqual(m, n) <=> Numerator(m, p) = Numerator(n, p)
  BY <1>2, <1>3, EqualNumerators
<1>6. /\ LessThan(m, n) <=> Numerator(m, p) < Numerator(n, p)
      /\ LessThan(n, m) <=> Numerator(n, p) < Numerator(m, p)
  BY <1>2 DEF LessThan, p
<1> QED
  BY <1>4, <1>5, <1>6 DEF EqualAsMeant

(* What a number is over the power of ten that makes it an integer.        *)
LEMMA Divided ==
  ASSUME NEW a \in Int, NEW q \in Nat, q > 0
  PROVE  (a * q) % q = 0 /\ (a * q) \div q = a
OBVIOUS

LEMMA Multiple ==
  ASSUME NEW a \in Int, NEW q \in Nat, q > 0, a % q = 0
  PROVE  a = (a \div q) * q
OBVIOUS

(* An integer, and the digits and zeros it is made of.                     *)
LEMMA WholeNumbers ==
  ASSUME NEW n, IsSpelling(n)
  PROVE  /\ NonZero(Digits(n)) = {} => IsWhole(n) /\ WholeOf(n) = 0
         /\ NonZero(Digits(n)) # {} /\ NormalForm(n).scale >= 0 =>
              /\ IsWhole(n)
              /\ WholeOf(n) = Signed(n.negative, Natural(NormalForm(n).digits)
                                                   * TenTo(NormalForm(n).scale))
         /\ NonZero(Digits(n)) # {} /\ NormalForm(n).scale < 0 => ~IsWhole(n)
<1> DEFINE p == Places(n)
           f == NormalForm(n)
           q == TenTo(p)
           u == Natural(f.digits)
<1>1. p \in Nat /\ Shift(n) + p \in Nat
  BY PlacesAre
<1>2. q \in Nat /\ q > 0
  BY <1>1, PowersOfTen
<1>3. /\ IsWhole(n) <=> Numerator(n, p) % q = 0
      /\ WholeOf(n) = Numerator(n, p) \div q
  BY DEF IsWhole, WholeOf
<1>4. ASSUME NonZero(Digits(n)) = {} PROVE IsWhole(n) /\ WholeOf(n) = 0
  <2>1. Numerator(n, p) = 0
    BY <1>1, <1>4, NumeratorIs
  <2> HIDE DEF p, q
  <2>2. 0 % q = 0 /\ 0 \div q = 0
    BY <1>2
  <2> QED
    BY <1>3, <2>1, <2>2
<1>5. ASSUME NonZero(Digits(n)) # {}
      PROVE  /\ IsNormal(f.digits) /\ f.scale \in Int /\ f.scale + p \in Nat
             /\ Numerator(n, p) = Signed(n.negative, u * TenTo(f.scale + p))
             /\ u \in Nat
  BY <1>1, <1>5, NumeratorIs, NormalFormSpells, NormalSpells
<1> HIDE DEF p, f, q, u
<1>6. ASSUME NonZero(Digits(n)) # {}, f.scale >= 0
      PROVE  IsWhole(n) /\ WholeOf(n) = Signed(n.negative, u * TenTo(f.scale))
  <2>1. f.scale \in Nat
    BY <1>5, <1>6
  <2>2. TenTo(f.scale + p) = TenTo(f.scale) * q /\ TenTo(f.scale) \in Nat
    BY <1>1, <2>1, Exponents, PowersOfTen DEF q
  <2> DEFINE w == u * TenTo(f.scale)
  <2>3. w \in Nat /\ u * TenTo(f.scale + p) = w * q
    <3>1. \A x, y, z \in Nat : x * (y * z) = (x * y) * z
      OBVIOUS
    <3> QED
      BY <1>2, <1>5, <1>6, <2>2, <3>1
  <2> HIDE DEF w
  <2>4. /\ Signed(n.negative, w) \in Int
        /\ Signed(n.negative, w * q) = Signed(n.negative, w) * q
    <3>1. -(w * q) = (-w) * q
      BY <1>2, <2>3
    <3> QED
      BY <2>3, <3>1 DEF Signed
  <2>5. Numerator(n, p) = Signed(n.negative, w) * q
    BY <1>5, <1>6, <2>3, <2>4
  <2> QED
    BY <1>2, <1>3, <2>4, <2>5, Divided DEF w
<1>7. ASSUME NonZero(Digits(n)) # {}, f.scale < 0 PROVE ~IsWhole(n)
  <2> SUFFICES ASSUME IsWhole(n) PROVE FALSE
    OBVIOUS
  <2> DEFINE a == Signed(n.negative, u * TenTo(f.scale + p))
             x == Signed(n.negative, a \div q)
             r == -f.scale - 1
  <2>1. r \in Nat /\ (f.scale + p) + (r + 1) = p /\ r + 1 \in Nat
    BY <1>1, <1>5, <1>7
  <2>2. TenTo(f.scale + p) \in Nat \ {0} /\ TenTo(r) \in Nat
    BY <1>5, <1>7, <2>1, PowersOfTen
  <2>3. u * TenTo(f.scale + p) \in Nat
    BY <1>5, <1>7, <2>2
  <2>4. a \in Int /\ a = (a \div q) * q /\ (a \div q) \in Int
    <3>1. a \in Int
      BY <2>3 DEF Signed
    <3>2. a % q = 0
      BY <1>3, <1>5, <1>7
    <3> HIDE DEF a
    <3> QED
      BY <1>2, <3>1, <3>2, Multiple
  <2>5. u * TenTo(f.scale + p) = x * q /\ x \in Int
    <3> DEFINE b == a \div q
               c == u * TenTo(f.scale + p)
    <3>1. b \in Int /\ c \in Nat /\ Signed(n.negative, c) = b * q
      BY <2>3, <2>4
    <3> HIDE DEF a, b, c
    <3>2. c = Signed(n.negative, b) * q /\ Signed(n.negative, b) \in Int
      <4>1. CASE n.negative
        <5>1. -c = b * q
          BY <3>1, <4>1 DEF Signed
        <5>2. c = (-b) * q
          BY <1>2, <3>1, <5>1
        <5> QED
          BY <3>1, <4>1, <5>2 DEF Signed
      <4>2. CASE ~n.negative
        BY <3>1, <4>2 DEF Signed
      <4> QED
        BY <4>1, <4>2
    <3> QED
      BY <3>2 DEF b, c
  <2>6. q = TenTo(f.scale + p) * (10 * TenTo(r))
    <3>1. TenTo(p) = TenTo(f.scale + p) * TenTo(r + 1)
      BY <1>5, <1>7, <2>1, Exponents
    <3> QED
      BY <2>1, <3>1, PowersOfTen DEF q
  <2> HIDE DEF a, x, r
  <2>7. u = x * (10 * TenTo(r))
    <3> DEFINE t == TenTo(f.scale + p)
               v == 10 * TenTo(r)
    <3>1. t \in Nat \ {0} /\ v \in Int /\ u * t = x * (t * v)
      BY <2>2, <2>5, <2>6
    <3> HIDE DEF t, v
    <3>2. x * (t * v) = (x * v) * t
      BY <2>5, <3>1
    <3>3. u * t = (x * v) * t /\ x * v \in Int /\ u \in Int
      BY <1>5, <1>7, <2>5, <3>1, <3>2
    <3>4. u = x * v
      BY <3>1, <3>3, Cancelled
    <3> QED
      BY <3>4 DEF v
  <2>8. u = 10 * (x * TenTo(r)) /\ x * TenTo(r) \in Int
    <3> DEFINE t == TenTo(r)
    <3>1. t \in Nat /\ u = x * (10 * t)
      BY <2>2, <2>7
    <3> HIDE DEF t
    <3> QED
      BY <2>5, <3>1 DEF t
  <2>9. x * TenTo(r) \in Nat
    BY <1>5, <1>7, <2>8
  <2> QED
    BY <1>5, <1>7, <2>8, <2>9, NormalSpells DEF u
<1> QED
  BY <1>4, <1>5, <1>6, <1>7 DEF f, u

(* A number is found to be an integer exactly when it is one, however it   *)
(* is spelled (number_is_integer).                                         *)
THEOREM IntegralNumbers ==
  ASSUME NEW n, IsSpelling(n)
  PROVE  IntegerAsMeant(n)
<1>1. CASE NonZero(Digits(n)) = {}
  <2>1. NormalForm(n).scale = 0
    BY <1>1 DEF NormalForm, Zero
  <2> QED
    BY <1>1, <2>1, WholeNumbers DEF IntegerAsMeant, NumberIsInteger
<1>2. CASE NonZero(Digits(n)) # {}
  <2>1. NormalForm(n).scale \in Int
    BY <1>2, NormalFormSpells
  <2> QED
    BY <1>2, <2>1, WholeNumbers DEF IntegerAsMeant, NumberIsInteger
<1> QED
  BY <1>1, <1>2

-----------------------------------------------------------------------------
(* The digits of a spelling from the first that is not zero.               *)
Significant(n) == SubSeq(Digits(n), Min(NonZero(Digits(n))), Len(Digits(n)))

(* How many digits there are before the point.                             *)
Kept(n) == Len(Significant(n)) + Shift(n)

LEMMA SignificantIs ==
  ASSUME NEW n, IsSpelling(n), NonZero(Digits(n)) # {}
  PROVE  /\ IsDigits(Significant(n)) /\ Len(Significant(n)) \in Nat /\ Len(Significant(n)) > 0
         /\ Significant(n)[1] # 0
         /\ Natural(Significant(n)) = Natural(Digits(n))
         /\ NormalForm(n).scale - Shift(n) \in 0..Len(Significant(n)) - 1
         /\ Significant(n)[Len(Significant(n)) - (NormalForm(n).scale - Shift(n))] # 0
         /\ \A i \in Len(Significant(n)) - (NormalForm(n).scale - Shift(n)) + 1..Len(Significant(n)) :
              Significant(n)[i] = 0
<1> DEFINE d == Digits(n)
           I == NonZero(d)
           s == SubSeq(d, Min(I), Len(d))
           up == Len(d) - Max(I)
<1>1. /\ IsDigits(d) /\ Len(d) \in Nat /\ I \subseteq 1..Len(d) /\ I # {}
      /\ \A k \in 1..Len(d) : k \notin I => d[k] = 0
      /\ \A k \in I : d[k] # 0
      /\ Shift(n) \in Int
  BY DigitsAre DEF NonZero, Shift
<1>2. NormalForm(n).scale - Shift(n) = up
  <2>1. NormalForm(n).scale = Shift(n) + up
    BY <1>1 DEF NormalForm, Shift
  <2>2. Max(I) \in 1..Len(d)
    BY <1>1, Extremes
  <2> QED
    BY <1>1, <2>1, <2>2
<1>3. Significant(n) = s
  BY DEF Significant
<1> HIDE DEF d, I
<1>4. /\ Min(I) \in I /\ Min(I) \in 1..Len(d) /\ Max(I) \in I /\ Max(I) \in Min(I)..Len(d)
      /\ \A x \in I : Min(I) <= x /\ x <= Max(I)
  <2>1. /\ Min(I) \in I /\ \A x \in I : Min(I) <= x
        /\ Max(I) \in I /\ \A x \in I : x <= Max(I)
    BY <1>1, Extremes
  <2>2. Min(I) \in 1..Len(d) /\ Max(I) \in 1..Len(d)
    BY <1>1, <2>1
  <2>3. Max(I) \in Min(I)..Len(d)
    BY <1>1, <2>1, <2>2
  <2> QED
    BY <2>1, <2>2, <2>3
<1>5. \A k \in 1..Min(I) - 1 : d[k] = 0
  BY <1>1, <1>4
<1>6. /\ IsDigits(s) /\ Len(s) = Len(d) - Min(I) + 1
      /\ \A k \in 1..Len(d) - Min(I) + 1 : s[k] = d[Min(I) + k - 1]
      /\ Natural(s) = Leading(d)[Len(d)]
  <2>1. Len(d) \in Min(I)..Len(d)
    BY <1>1, <1>4
  <2> QED
    BY <1>1, <1>4, <1>5, <2>1, WithoutLeadingZeros
<1> HIDE DEF s
<1>7. Len(s) \in Nat /\ Len(s) > 0 /\ up \in 0..Len(s) - 1 /\ up \in Nat
  BY <1>1, <1>4, <1>6
<1>8. s[1] # 0
  <2>1. 1 \in 1..Len(d) - Min(I) + 1 /\ Min(I) + 1 - 1 = Min(I)
    BY <1>1, <1>4
  <2> QED
    BY <1>1, <1>4, <1>6, <2>1
<1>9. s[Len(s) - up] # 0
  <2> DEFINE least == Min(I)
             most == Max(I)
  <2>2. /\ least \in 1..Len(d) /\ most \in least..Len(d) /\ up = Len(d) - most
        /\ Len(s) = Len(d) - least + 1 /\ Len(d) \in Nat
    BY <1>1, <1>4, <1>6
  <2> HIDE DEF least, most, up
  <2>3. Len(s) - up \in 1..Len(d) - least + 1 /\ least + (Len(s) - up) - 1 = most
    BY <2>2
  <2>1. Len(s) - up \in 1..Len(d) - Min(I) + 1 /\ Min(I) + (Len(s) - up) - 1 = Max(I)
    BY <2>3 DEF least, most
  <2> QED
    BY <1>1, <1>4, <1>6, <2>1
<1>10. ASSUME NEW i \in Len(s) - up + 1..Len(s) PROVE s[i] = 0
  <2>1. /\ i \in 1..Len(d) - Min(I) + 1 /\ Min(I) + i - 1 > Max(I)
        /\ Min(I) + i - 1 \in 1..Len(d)
    BY <1>1, <1>4, <1>6
  <2>2. Min(I) + i - 1 \notin I
    BY <1>4, <2>1
  <2> QED
    BY <1>1, <1>6, <2>1, <2>2
<1> HIDE DEF up
<1>11. Natural(s) = Natural(Digits(n))
  BY <1>6 DEF Natural, d
<1> QED
  BY <1>2, <1>3, <1>6, <1>7, <1>8, <1>9, <1>10, <1>11

(* It has digits after the point exactly when it is no integer.            *)
LEMMA Fractional ==
  ASSUME NEW n, IsSpelling(n), NonZero(Digits(n)) # {}
  PROVE  /\ Shift(n) \in Int /\ Kept(n) \in Int
         /\ IsWhole(n) <=>
              ~( /\ Shift(n) < 0
                 /\ \/ Kept(n) <= 0
                    \/ \E i \in Kept(n) + 1..Len(Significant(n)) : Significant(n)[i] # 0 )
<1> DEFINE s == Significant(n)
           up == NormalForm(n).scale - Shift(n)
           L == Len(s)
<1>1. /\ L \in Nat /\ L > 0 /\ up \in 0..L - 1 /\ s[L - up] # 0
      /\ \A i \in L - up + 1..L : s[i] = 0
  BY SignificantIs
<1>2. Shift(n) \in Int /\ NormalForm(n).scale \in Int
  BY DigitsAre, NormalFormSpells DEF Shift
<1>3. IsWhole(n) <=> Shift(n) + up >= 0
  <2>1. IsWhole(n) <=> NormalForm(n).scale >= 0
    BY <1>2, WholeNumbers
  <2> QED
    BY <1>2, <2>1
<1>4. Kept(n) = L + Shift(n)
  BY DEF Kept
<1> HIDE DEF s, up, L
<1>5. ASSUME Shift(n) < 0, Kept(n) <= 0 PROVE Shift(n) + up < 0
  BY <1>1, <1>2, <1>4, <1>5
<1>6. ASSUME NEW i \in Kept(n) + 1..L, s[i] # 0, Kept(n) > 0 PROVE Shift(n) + up < 0
  <2>1. i \in 1..L /\ i \notin L - up + 1..L
    BY <1>1, <1>2, <1>4, <1>6
  <2> QED
    BY <1>1, <1>2, <1>4, <2>1
<1>7. ASSUME Shift(n) + up < 0, Kept(n) > 0
      PROVE  Shift(n) < 0 /\ L - up \in Kept(n) + 1..L
  BY <1>1, <1>2, <1>4, <1>7
<1>8. Shift(n) + up < 0 => Shift(n) < 0
  BY <1>1, <1>2
<1>9. Kept(n) \in Int /\ (Kept(n) <= 0 \/ Kept(n) > 0) /\ (Shift(n) + up < 0 <=> ~(Shift(n) + up >= 0))
  BY <1>1, <1>2, <1>4
<1>10. IsWhole(n) <=> ~( /\ Shift(n) < 0
                         /\ \/ Kept(n) <= 0
                            \/ \E i \in Kept(n) + 1..L : s[i] # 0 )
  BY <1>1, <1>3, <1>5, <1>6, <1>7, <1>8, <1>9
<1> QED
  BY <1>2, <1>9, <1>10 DEF s, L

LEMMA Concatenated ==
  ASSUME NEW S, NEW s \in Seq(S), NEW z \in Seq(S)
  PROVE  /\ s \o z \in Seq(S) /\ Len(s \o z) = Len(s) + Len(z)
         /\ \A k \in 1..Len(s) : (s \o z)[k] = s[k]
OBVIOUS

(* Zeros appended multiply by a power of ten.                              *)
LEMMA PaddedDigits ==
  ASSUME NEW a, IsDigits(a), Len(a) >= 1, NEW k \in Nat
  PROVE  /\ IsDigits(a \o Zeros(k)) /\ Len(a \o Zeros(k)) = Len(a) + k
         /\ (a \o Zeros(k))[1] = a[1]
         /\ Natural(a \o Zeros(k)) = Natural(a) * TenTo(k)
<1> DEFINE z == Zeros(k)
           r == a \o z
<1>1. a \in Seq(0..9) /\ Len(a) \in Nat
  BY DEF IsDigits
<1>2. z \in Seq(0..9) /\ Len(z) = k /\ \A i \in 1..k : z[i] = 0
  BY DEF Zeros
<1> HIDE DEF z
<1>3. r \in Seq(0..9) /\ Len(r) = Len(a) + k /\ \A i \in 1..Len(a) : r[i] = a[i]
  BY <1>1, <1>2, Concatenated
<1>4. \A i \in Len(a) + 1..Len(r) : r[i] = 0
  <2> SUFFICES ASSUME NEW i \in Len(a) + 1..Len(r) PROVE r[i] = 0
    OBVIOUS
  <2>1. i - Len(a) \in 1..k /\ r[i] = z[i - Len(a)]
    BY <1>1, <1>2, <1>3
  <2> QED
    BY <1>2, <2>1
<1>5. SubSeq(r, 1, Len(a)) = a
  BY <1>1, <1>3
<1> HIDE DEF r
<1>6. Natural(r) = Leading(r)[Len(a)] * TenTo(Len(r) - Len(a))
  <2>1. Len(a) \in 0..Len(r) /\ IsDigits(r)
    BY <1>1, <1>3 DEF IsDigits
  <2> QED
    BY <1>4, <2>1, TrailingZeros
<1>7. Leading(r)[Len(a)] = Natural(a)
  <2>1. /\ 1 \in 1..Len(r) /\ Len(a) \in 1..Len(r) /\ IsDigits(r)
        /\ \A i \in 1..1 - 1 : r[i] = 0
    BY <1>1, <1>3 DEF IsDigits
  <2>2. Natural(SubSeq(r, 1, Len(a))) = Leading(r)[Len(a)]
    BY <2>1, WithoutLeadingZeros
  <2> QED
    BY <1>5, <2>2
<1>8. Len(r) - Len(a) = k /\ r[1] = a[1]
  BY <1>1, <1>3
<1> QED
  BY <1>3, <1>6, <1>7, <1>8 DEF IsDigits, r, z

LEMMA LesserOf ==
  ASSUME NEW a \in Int, NEW b \in Int
  PROVE  Min({a, b}) = IF a <= b THEN a ELSE b
<1>1. \E x \in {a, b} : \A y \in {a, b} : x <= y
  OBVIOUS
<1> QED
  BY <1>1 DEF Min

(* The length a number bounds is the integer it means, cut at the largest  *)
(* length, and there is none when it means no length                       *)
(* (nonnegative_integer_as_usize).                                         *)
THEOREM LengthBounds ==
  ASSUME NEW n, IsSpelling(n)
  PROVE  BoundAsMeant(n)
<1> DEFINE f == NormalForm(n)
           a == f.digits
           s == f.scale
           w == WholeOf(n)
           bound == Bound(n)
<1>1. /\ MaxIndex \in Nat /\ MaxIndexDigits \in Nat /\ MaxIndexDigits >= 1
      /\ MaxIndex < TenTo(MaxIndexDigits)
  BY JsonNumbersAssumption
<1>2. bound = IF f.negative \/ s < 0 THEN NoBound
              ELSE IF Len(a) + s > MaxIndexDigits THEN MaxIndex
              ELSE Min({Natural(a \o Zeros(s)), MaxIndex})
  BY Zenon DEF Bound
<1> HIDE DEF bound
<1>3. CASE NonZero(Digits(n)) = {}
  <2>1. f = Zero
    BY <1>3 DEF NormalForm
  <2>2. f.negative = FALSE /\ s = 0 /\ a = <<0>>
    BY <2>1 DEF Zero
  <2> HIDE DEF f
  <2>3. IsDigits(a) /\ Len(a) = 1 /\ \A k \in 1..1 : a[k] = 0
    BY <2>2 DEF IsDigits
  <2>4. Natural(a \o Zeros(s)) = Natural(a) * TenTo(0)
    BY <2>2, <2>3, PaddedDigits
  <2>5. Natural(a) = 0
    <3>1. 1 \in 0..Len(a)
      BY <2>3
    <3> QED
      BY <2>3, <3>1, LeadingZeros DEF Natural
  <2>6. Natural(a \o Zeros(s)) = 0
    BY <2>4, <2>5, PowersOfTen
  <2>7. bound = Min({0, MaxIndex})
    BY <1>1, <1>2, <2>2, <2>3, <2>6
  <2> QED
    BY <1>3, <2>7, WholeNumbers DEF BoundAsMeant, bound
<1>4. CASE NonZero(Digits(n)) # {}
  <2> DEFINE u == Natural(a)
             t == TenTo(s)
  <2>1. f.negative = n.negative /\ IsNormal(a) /\ s \in Int
    BY <1>4, NormalFormSpells
  <2>2. /\ IsDigits(a) /\ Len(a) \in Nat /\ Len(a) >= 1 /\ u \in Nat /\ u > 0
        /\ TenTo(Len(a) - 1) <= u
    BY <2>1, NormalSpells DEF IsNormal
  <2>3. CASE s < 0
    BY <1>2, <1>4, <2>3, WholeNumbers DEF BoundAsMeant, bound
  <2>4. CASE s >= 0
    <3>1. IsWhole(n) /\ w = Signed(n.negative, u * t)
      BY <1>4, <2>4, WholeNumbers
    <3>2. s \in Nat /\ t \in Nat /\ t > 0
      <4>1. s \in Nat
        BY <2>1, <2>4
      <4> QED
        BY <4>1, PowersOfTen
    <3> DEFINE v == u * t
    <3>3. v \in Nat /\ v > 0
      <4> HIDE DEF u, t
      <4> QED
        BY <2>2, <3>2
    <3>4. CASE n.negative
      <4> HIDE DEF v, w
      <4>1. w = -v
        BY <3>1, <3>4 DEF Signed, v
      <4>2. ~(w >= 0)
        BY <3>3, <4>1
      <4>3. bound = NoBound
        BY <1>2, <2>1, <3>4
      <4> QED
        BY <4>2, <4>3 DEF BoundAsMeant, bound, w
    <3>5. CASE ~n.negative
      <4> HIDE DEF v, w
      <4>1. w = v /\ w >= 0
        BY <3>1, <3>3, <3>5 DEF Signed, v
      <4>2. ~(f.negative \/ s < 0)
        BY <2>1, <2>4, <3>2, <3>5
      <4>3. bound = Min({v, MaxIndex})
        <5>1. CASE Len(a) + s > MaxIndexDigits
          <6> DEFINE l == Len(a) - 1
          <6>1. l \in Nat /\ l + s \in Nat /\ MaxIndexDigits <= l + s
            BY <1>1, <2>2, <3>2, <5>1
          <6> HIDE DEF l
          <6>2. TenTo(MaxIndexDigits) <= TenTo(l + s) /\ TenTo(l + s) = TenTo(l) * t
            BY <1>1, <3>2, <6>1, PowersGrow, Exponents
          <6>3. TenTo(l) \in Nat /\ TenTo(MaxIndexDigits) \in Nat /\ TenTo(l) <= u
            BY <1>1, <2>2, <6>1, PowersOfTen DEF l
          <6>4. TenTo(l) * t <= v
            <7> DEFINE x == TenTo(l)
            <7>1. x \in Nat /\ x <= u
              BY <6>3
            <7> HIDE DEF x, u, t
            <7>2. \A p, q, y \in Nat : p <= q => p * y <= q * y
              OBVIOUS
            <7> QED
              BY <2>2, <3>2, <7>1, <7>2 DEF x, v
          <6>5. MaxIndex < v
            <7> DEFINE x == TenTo(l) * t
                       m == TenTo(MaxIndexDigits)
            <7>1. m \in Nat /\ MaxIndex < m /\ m <= x /\ x <= v
              BY <1>1, <6>2, <6>3, <6>4
            <7>2. x \in Nat
              <8> DEFINE y == TenTo(l)
              <8> HIDE DEF y, t
              <8> QED
                BY <3>2, <6>3 DEF y
            <7> HIDE DEF x, m
            <7> QED
              BY <1>1, <3>3, <7>1, <7>2
          <6>6. bound = MaxIndex
            BY <1>2, <4>2, <5>1
          <6> QED
            BY <1>1, <3>3, <6>5, <6>6, LesserOf
        <5>2. CASE ~(Len(a) + s > MaxIndexDigits)
          <6>1. Natural(a \o Zeros(s)) = v
            BY <2>2, <3>2, PaddedDigits DEF v
          <6> QED
            BY <1>2, <4>2, <5>2, <6>1
        <5> QED
          BY <5>1, <5>2
      <4> QED
        BY <3>1, <4>1, <4>3 DEF BoundAsMeant, bound, w
    <3> QED
      BY <3>4, <3>5
  <2> QED
    BY <2>1, <2>3, <2>4
<1> QED
  BY <1>3, <1>4

(* All digits of an integer, and no more.                                  *)
WholeDigits(n) ==
  IF Shift(n) < 0 THEN SubSeq(Significant(n), 1, Kept(n))
                  ELSE Significant(n) \o Zeros(Shift(n))

LEMMA AllDigits ==
  ASSUME NEW n, IsSpelling(n), NonZero(Digits(n)) # {}, IsWhole(n)
  PROVE  /\ Kept(n) \in Nat /\ Kept(n) > 0
         /\ IsDigits(WholeDigits(n)) /\ Len(WholeDigits(n)) = Kept(n) /\ WholeDigits(n)[1] # 0
         /\ Signed(n.negative, Natural(WholeDigits(n))) = WholeOf(n)
<1> DEFINE s == Significant(n)
           f == NormalForm(n)
           up == f.scale - Shift(n)
           u == Natural(f.digits)
           r == WholeDigits(n)
<1>1. /\ IsDigits(s) /\ Len(s) \in Nat /\ Len(s) > 0 /\ s[1] # 0
      /\ Natural(s) = u * TenTo(up) /\ up \in Nat
      /\ IsNormal(f.digits) /\ f.scale \in Int
  BY SignificantIs, NormalFormSpells
<1>2. Shift(n) \in Int /\ Kept(n) \in Int /\ Kept(n) = Len(s) + Shift(n)
  BY Fractional DEF Kept
<1>3. f.scale \in Nat
  <2>1. ~(f.scale < 0)
    BY WholeNumbers
  <2> QED
    BY <1>1, <2>1
<1>4. WholeOf(n) = Signed(n.negative, u * TenTo(f.scale))
  BY <1>3, WholeNumbers
<1>5. u \in Nat /\ TenTo(f.scale) \in Nat
  BY <1>1, <1>3, NormalSpells, PowersOfTen
<1>6. Shift(n) < 0 => /\ Kept(n) > 0
                      /\ \A i \in Kept(n) + 1..Len(s) : s[i] = 0
  BY <1>2, Fractional
<1> HIDE DEF s, f, u
<1>7. CASE Shift(n) < 0
  <2>1. r = SubSeq(s, 1, Kept(n))
    BY <1>7 DEF WholeDigits, s
  <2>2. Kept(n) \in 1..Len(s) /\ Kept(n) \in 0..Len(s) /\ Len(s) - Kept(n) = -Shift(n)
    BY <1>1, <1>2, <1>6, <1>7
  <2>3. 1 \in 1..Len(s) /\ \A k \in 1..1 - 1 : s[k] = 0
    BY <1>1
  <2>4. /\ IsDigits(r) /\ Len(r) = Kept(n) - 1 + 1
        /\ \A k \in 1..Kept(n) - 1 + 1 : r[k] = s[1 + k - 1]
        /\ Natural(r) = Leading(s)[Kept(n)]
    BY <1>1, <2>1, <2>2, <2>3, WithoutLeadingZeros
  <2>5. Len(r) = Kept(n) /\ r[1] = s[1]
    <3>1. Kept(n) - 1 + 1 = Kept(n) /\ 1 \in 1..Kept(n) - 1 + 1 /\ 1 + 1 - 1 = 1
      BY <2>2
    <3> QED
      BY <2>4, <3>1
  <2>6. Natural(s) = Natural(r) * TenTo(Len(s) - Kept(n))
    BY <1>1, <1>6, <1>7, <2>2, <2>4, TrailingZeros
  <2> DEFINE down == -Shift(n)
  <2>7. down \in Nat /\ up = f.scale + down
    BY <1>1, <1>2, <1>3, <1>7
  <2>8. TenTo(up) = TenTo(f.scale) * TenTo(down) /\ TenTo(down) \in Nat \ {0}
    BY <1>3, <2>7, Exponents, PowersOfTen
  <2>9. Natural(r) \in Nat
    BY <1>1, <2>2, <2>4, LeadingIs
  <2> HIDE DEF down, r, up
  <2>10. Natural(r) * TenTo(down) = (u * TenTo(f.scale)) * TenTo(down)
    <3>1. Natural(r) * TenTo(down) = u * (TenTo(f.scale) * TenTo(down))
      BY <1>1, <2>2, <2>6, <2>8 DEF down
    <3>2. \A x, y, z \in Nat : x * (y * z) = (x * y) * z
      OBVIOUS
    <3> QED
      BY <1>5, <2>8, <3>1, <3>2
  <2>11. Natural(r) = u * TenTo(f.scale)
    <3>1. Natural(r) \in Int /\ u * TenTo(f.scale) \in Int
      BY <1>5, <2>9
    <3> QED
      BY <2>8, <2>10, <3>1, Cancelled
  <2> QED
    BY <1>1, <1>4, <2>2, <2>4, <2>5, <2>11 DEF r
<1>8. CASE ~(Shift(n) < 0)
  <2>1. r = s \o Zeros(Shift(n)) /\ Shift(n) \in Nat
    BY <1>2, <1>8 DEF WholeDigits, s
  <2>2. /\ IsDigits(r) /\ Len(r) = Len(s) + Shift(n) /\ r[1] = s[1]
        /\ Natural(r) = Natural(s) * TenTo(Shift(n))
    <3> DEFINE z == s \o Zeros(Shift(n))
    <3>1. Len(s) >= 1
      BY <1>1
    <3>2. /\ IsDigits(z) /\ Len(z) = Len(s) + Shift(n) /\ z[1] = s[1]
          /\ Natural(z) = Natural(s) * TenTo(Shift(n))
      BY <1>1, <2>1, <3>1, PaddedDigits
    <3> HIDE DEF r
    <3> QED
      BY <2>1, <3>2
  <2> HIDE DEF r
  <2>3. TenTo(f.scale) = TenTo(up) * TenTo(Shift(n)) /\ TenTo(Shift(n)) \in Nat /\ TenTo(up) \in Nat
    <3>1. up \in Nat /\ Shift(n) \in Nat /\ up + Shift(n) = f.scale
      BY <1>1, <1>2, <2>1
    <3> HIDE DEF up
    <3>2. TenTo(up + Shift(n)) = TenTo(up) * TenTo(Shift(n))
      BY <3>1, Exponents
    <3> QED
      BY <3>1, <3>2, PowersOfTen
  <2> HIDE DEF up
  <2>4. Natural(r) = u * TenTo(f.scale)
    <3>1. Natural(r) = (u * TenTo(up)) * TenTo(Shift(n))
      BY <1>1, <2>2
    <3>2. \A x, y, z \in Nat : x * (y * z) = (x * y) * z
      OBVIOUS
    <3> QED
      BY <1>5, <2>3, <3>1, <3>2
  <2>5. Kept(n) \in Nat /\ Kept(n) > 0 /\ Len(r) = Kept(n)
    BY <1>1, <1>2, <2>1, <2>2
  <2> QED
    BY <1>1, <1>4, <2>2, <2>4, <2>5 DEF r
<1> QED
  BY <1>7, <1>8

(* The steps of canonical_integer_with_limit, one condition at a time.      *)
LEMMA Canonical ==
  ASSUME NEW n, NEW maximum, NonZero(Digits(n)) # {}
  PROVE  /\ n.exponent < -MaxExponent => CanonicalInteger(n, maximum) = Refused("invalid")
         /\ ~(n.exponent < -MaxExponent) /\ n.exponent > MaxExponent
            => CanonicalInteger(n, maximum) = Refused("limit")
         /\ ~(n.exponent < -MaxExponent) /\ ~(n.exponent > MaxExponent)
            => CanonicalInteger(n, maximum) =
                 IF Shift(n) < 0 /\ (Kept(n) <= 0 \/ \E i \in Kept(n) + 1..Len(Significant(n)) :
                                                       Significant(n)[i] # 0)
                 THEN Refused("invalid")
                 ELSE IF Kept(n) > maximum THEN Refused("limit")
                 ELSE Stored(n.negative, WholeDigits(n))
<1> DEFINE low  == n.exponent < -MaxExponent
           high == n.exponent > MaxExponent
           rest == IF Shift(n) < 0 /\ (Kept(n) <= 0 \/ \E i \in Kept(n) + 1..Len(Significant(n)) :
                                                       Significant(n)[i] # 0)
                 THEN Refused("invalid")
                 ELSE IF Kept(n) > maximum THEN Refused("limit")
                 ELSE Stored(n.negative, WholeDigits(n))
<1>1. CanonicalInteger(n, maximum) =
        IF NonZero(Digits(n)) = {}
        THEN IF maximum = 0 THEN Refused("limit") ELSE Stored(FALSE, <<0>>)
        ELSE IF low THEN Refused("invalid") ELSE IF high THEN Refused("limit") ELSE rest
  BY Zenon DEF CanonicalInteger, Shift, Kept, Significant, WholeDigits
<1> HIDE DEF low, high, rest
<1>2. /\ low => CanonicalInteger(n, maximum) = Refused("invalid")
      /\ ~low /\ high => CanonicalInteger(n, maximum) = Refused("limit")
      /\ ~low /\ ~high => CanonicalInteger(n, maximum) = rest
  BY <1>1
<1> QED
  BY <1>2, Zenon DEF low, high, rest

(* An integer is stored with the digits that spell it when there is room,  *)
(* and refused only for want of room, for not being an integer, or for an  *)
(* exponent beyond a machine integer (canonical_integer_with_limit).       *)
THEOREM StoredIntegers ==
  ASSUME NEW n, IsSpelling(n), NEW maximum \in Nat
  PROVE  StoredAsMeant(n, maximum)
<1> DEFINE canonical == CanonicalInteger(n, maximum)
           readable  == NonZero(Digits(n)) = {} \/ n.exponent \in -MaxExponent..MaxExponent
           fits      == /\ maximum > 0
                        /\ WholeOf(n) < TenTo(maximum) /\ -WholeOf(n) < TenTo(maximum)
           invalid   == IF readable THEN ~IsWhole(n) ELSE n.exponent < 0
           stored    == /\ canonical.refusal = "none"
                        /\ Signed(canonical.negative, Natural(canonical.digits)) = WholeOf(n)
                        /\ Len(canonical.digits) = 1 \/ canonical.digits[1] # 0
<1>1. n.exponent \in Int /\ MaxExponent \in Nat
  BY DigitsAre, JsonNumbersAssumption
<1>2. CASE NonZero(Digits(n)) = {}
  <2>1. readable /\ IsWhole(n) /\ WholeOf(n) = 0
    BY <1>2, WholeNumbers
  <2>2. canonical = IF maximum = 0 THEN Refused("limit") ELSE Stored(FALSE, <<0>>)
    BY <1>2 DEF CanonicalInteger
  <2>3. fits <=> maximum > 0
    <3>1. TenTo(maximum) \in Nat \ {0}
      BY PowersOfTen
    <3> DEFINE w == WholeOf(n)
               t == TenTo(maximum)
    <3>2. w = 0 /\ t \in Nat \ {0}
      BY <2>1, <3>1
    <3> HIDE DEF w, t
    <3>3. w < t /\ -w < t
      BY <3>2
    <3> QED
      BY <3>3 DEF w, t
  <2>4. CASE maximum = 0
    BY <2>1, <2>2, <2>3, <2>4 DEF StoredAsMeant, Refused
  <2>5. CASE maximum # 0
    <3>1. Natural(<<0>>) = 0
      <4> DEFINE z == <<0>>
      <4>1. IsDigits(z) /\ Len(z) = 1 /\ 1 \in 0..Len(z) /\ \A k \in 1..1 : z[k] = 0
        BY DEF IsDigits
      <4> HIDE DEF z
      <4>2. Leading(z)[1] = 0
        BY <4>1, LeadingZeros
      <4> QED
        BY <4>1, <4>2 DEF Natural, z
    <3>2. canonical = [refusal |-> "none", negative |-> FALSE, digits |-> <<0>>]
      BY <2>2, <2>5 DEF Stored
    <3>3. stored
      BY <2>1, <3>1, <3>2 DEF Signed
    <3> QED
      BY <2>1, <2>3, <2>5, <3>3 DEF StoredAsMeant
  <2> QED
    BY <2>4, <2>5
<1>3. CASE NonZero(Digits(n)) # {} /\ n.exponent \notin -MaxExponent..MaxExponent
  <2>1. ~readable
    BY <1>3
  <2>2. CASE n.exponent < -MaxExponent
    <3>1. canonical = Refused("invalid") /\ n.exponent < 0
      BY <1>1, <1>3, <2>2, Canonical
    <3> QED
      BY <2>1, <3>1 DEF StoredAsMeant, Refused
  <2>3. CASE n.exponent > MaxExponent
    <3>1. canonical = Refused("limit") /\ ~(n.exponent < 0)
      BY <1>1, <1>3, <2>3, Canonical
    <3> QED
      BY <2>1, <3>1 DEF StoredAsMeant, Refused
  <2> QED
    BY <1>1, <1>3, <2>2, <2>3
<1>4. CASE NonZero(Digits(n)) # {} /\ n.exponent \in -MaxExponent..MaxExponent
  <2>1. readable
    BY <1>4
  <2>2. canonical =
          IF Shift(n) < 0 /\ (Kept(n) <= 0 \/ \E i \in Kept(n) + 1..Len(Significant(n)) :
                                                Significant(n)[i] # 0)
          THEN Refused("invalid")
          ELSE IF Kept(n) > maximum THEN Refused("limit")
          ELSE Stored(n.negative, WholeDigits(n))
    <3>1. ~(n.exponent < -MaxExponent) /\ ~(n.exponent > MaxExponent)
      BY <1>1, <1>4
    <3> QED
      BY <1>4, <3>1, Canonical, Zenon
  <2>3. canonical = IF ~IsWhole(n) THEN Refused("invalid")
                    ELSE IF Kept(n) > maximum THEN Refused("limit")
                    ELSE Stored(n.negative, WholeDigits(n))
    BY <1>4, <2>2, Fractional
  <2>4. CASE ~IsWhole(n)
    <3>1. canonical = Refused("invalid")
      BY <2>3, <2>4
    <3> QED
      BY <2>1, <2>4, <3>1 DEF StoredAsMeant, Refused
  <2>5. CASE IsWhole(n)
    <3> DEFINE r == WholeDigits(n)
               w == Natural(r)
    <3>1. /\ Kept(n) \in Nat /\ Kept(n) > 0 /\ IsDigits(r) /\ Len(r) = Kept(n)
          /\ r[1] # 0 /\ Signed(n.negative, w) = WholeOf(n)
      BY <1>4, <2>5, AllDigits
    <3>2. w \in Nat /\ TenTo(Kept(n) - 1) <= w /\ w < TenTo(Kept(n))
      <4>1. Len(r) \in 0..Len(r) /\ Len(r) \in 1..Len(r)
        BY <3>1
      <4> QED
        BY <3>1, <4>1, LeadingIs, LeadingIsBelow, LeadingIsAbove DEF Natural
    <3>3. TenTo(maximum) \in Nat /\ TenTo(Kept(n)) \in Nat /\ TenTo(Kept(n) - 1) \in Nat
      <4>1. Kept(n) - 1 \in Nat
        BY <3>1
      <4> QED
        BY <3>1, <4>1, PowersOfTen
    <3> HIDE DEF r, w
    <3>4. WholeOf(n) < TenTo(maximum) /\ -WholeOf(n) < TenTo(maximum) <=> w < TenTo(maximum)
      <4>1. CASE n.negative
        <5>1. WholeOf(n) = -w
          BY <3>1, <4>1 DEF Signed
        <5> QED
          BY <3>2, <3>3, <5>1
      <4>2. CASE ~n.negative
        <5>1. WholeOf(n) = w
          BY <3>1, <4>2 DEF Signed
        <5> QED
          BY <3>2, <3>3, <5>1
      <4> QED
        BY <4>1, <4>2
    <3>5. fits <=> ~(Kept(n) > maximum)
      <4>1. CASE Kept(n) <= maximum
        <5>1. TenTo(Kept(n)) <= TenTo(maximum)
          BY <3>1, <4>1, PowersGrow
        <5>2. w < TenTo(maximum) /\ maximum > 0
          BY <3>1, <3>2, <3>3, <4>1, <5>1
        <5> QED
          BY <3>1, <3>4, <4>1, <5>2
      <4>2. CASE Kept(n) > maximum
        <5>1. maximum <= Kept(n) - 1 /\ Kept(n) - 1 \in Nat
          BY <3>1, <4>2
        <5>2. TenTo(maximum) <= TenTo(Kept(n) - 1)
          BY <5>1, PowersGrow
        <5>3. ~(w < TenTo(maximum))
          BY <3>2, <3>3, <5>2
        <5> QED
          BY <3>4, <4>2, <5>3
      <4> QED
        BY <3>1, <4>1, <4>2
    <3>6. CASE Kept(n) > maximum
      <4>1. canonical = Refused("limit")
        BY <2>3, <2>5, <3>6
      <4> QED
        BY <2>1, <2>5, <3>5, <3>6, <4>1 DEF StoredAsMeant, Refused
    <3>7. CASE ~(Kept(n) > maximum)
      <4>1. canonical = [refusal |-> "none", negative |-> n.negative, digits |-> r]
        BY <2>3, <2>5, <3>7 DEF Stored, r
      <4>2. stored
        BY <3>1, <4>1 DEF w
      <4> QED
        BY <2>1, <2>5, <3>5, <3>7, <4>2 DEF StoredAsMeant
    <3> QED
      BY <3>6, <3>7
  <2> QED
    BY <2>4, <2>5
<1> QED
  BY <1>2, <1>3, <1>4

InputGiven == input \in Input

(* An action reads its input, it does not change it.                       *)
LEMMA InputStays == InputGiven /\ [ResourcesNext]_resourceVars => InputGiven'
BY DEF InputGiven, ResourcesNext, resourceVars, Admit, IndexDocument, StartFollowing,
       FollowDocument, FollowReference, FollowChild, Leave, Prepare

LEMMA InputIs == ResourcesSpec => []InputGiven
<1>1. ResourcesInit => InputGiven
  BY DEF ResourcesInit, InputGiven
<1> QED
  BY <1>1, InputStays, PTL DEF ResourcesSpec

(* The spelled numbers of a data schema, and those a user types, are       *)
(* compared, found to be integers and stored as they mean it               *)
(* (numbers_equal, number_is_integer, canonical_integer_with_limit).       *)
THEOREM NumbersMean == ResourcesSpec => []NumbersMeanWhatTheySpell
<1>1. InputGiven => NumbersMeanWhatTheySpell
  <2> SUFFICES ASSUME input \in Input, NEW m \in input.numbers
               PROVE  /\ \A n \in input.numbers : EqualAsMeant(m, n)
                      /\ IntegerAsMeant(m) /\ BoundAsMeant(m)
                      /\ \A maximum \in 0..MostDigits : StoredAsMeant(m, maximum)
    BY DEF NumbersMeanWhatTheySpell, InputGiven
  <2>1. \A n \in input.numbers : IsSpelling(n)
    BY SpelledNumbersAssumption
  <2>2. \A n \in input.numbers : EqualAsMeant(m, n)
    BY <2>1, EqualNumbers
  <2>3. IntegerAsMeant(m) /\ BoundAsMeant(m)
    BY <2>1, IntegralNumbers, LengthBounds
  <2>4. \A maximum \in 0..MostDigits : StoredAsMeant(m, maximum)
    BY <2>1, StoredIntegers DEF MostDigits
  <2> QED
    BY <2>2, <2>3, <2>4
<1> QED
  BY <1>1, InputIs, PTL
=============================================================================
