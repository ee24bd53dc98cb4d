------------------------- MODULE IndexManagerProofs --------------------------
(***************************************************************************)
(* The indexes beside the graph, for every set of labels, keys, values and *)
(* requests: type correctness, exactness without rebuilds, completeness    *)
(* with them, and the audit's verdict.                                     *)
(***************************************************************************)
EXTENDS IndexManager, SequenceLemmas

(***************************************************************************)
(* Entries and updates.                                                    *)
(***************************************************************************)
Parts == {"labels", "props", "ranges", "edges"}

Universe ==
    [labels |-> Labels \X VertexIds,
     props |-> Keys \X Values \X VertexIds,
     ranges |-> Keys \X Values \X VertexIds,
     edges |-> EdgeLabels \X EdgeIds]

UpdatesOf(part) == {Update(do, part, x) : do \in {"put", "drop"}, x \in Universe[part]}
AllUpdates == UNION {UpdatesOf(part) : part \in Parts}

(* The entries one vertex, or one edge, has in each index. *)
VertexEntries(id, v) ==
    [labels |-> {<<l, id>> : l \in v.labels},
     props |-> {<<k, v.props[k], id>> : k \in DOMAIN v.props},
     ranges |-> {<<k, v.props[k], id>> : k \in DOMAIN v.props},
     edges |-> {}]
EdgeEntries(id, e) ==
    [labels |-> {}, props |-> {}, ranges |-> {}, edges |-> {<<e.label, id>>}]

EdgeRecords == [from : VertexIds, to : VertexIds, label : EdgeLabels]

(* The entries the updates of q put in, or take out. *)
Entered(do, q, part) == {x \in Universe[part] : Update(do, part, x) \in ToSet(q)}

(* In q every update that takes an entry out precedes those that put in.   *)
PutsLast(q) == \A i, j \in DOMAIN q : i < j /\ q[i].do = "put" => q[j].do = "put"

LEMMA IdFacts ==
    /\ VertexIds \subseteq Nat \ {0} /\ EdgeIds \subseteq Nat \ {0}
    /\ IsFiniteSet(VertexIds) /\ IsFiniteSet(EdgeIds)
BY FiniteAssumption, FS_Interval DEF VertexIds, EdgeIds

LEMMA UpdateFacts ==
    ASSUME NEW u \in AllUpdates
    PROVE  /\ u.do \in {"put", "drop"} /\ u.part \in Parts /\ u.entry \in Universe[u.part]
           /\ u = Update(u.do, u.part, u.entry)
BY DEF AllUpdates, UpdatesOf, Update

LEMMA UpdateIsOne ==
    ASSUME NEW do \in {"put", "drop"}, NEW part \in Parts, NEW x \in Universe[part]
    PROVE  Update(do, part, x) \in AllUpdates
BY DEF AllUpdates, UpdatesOf

LEMMA UpdateEquality ==
    \A do, part, x, do2, part2, x2 :
        Update(do, part, x) = Update(do2, part2, x2) <=> do = do2 /\ part = part2 /\ x = x2
BY DEF Update

(* The entries of the graph are those of its vertices and of its edges,    *)
(* each of which names its element.                                        *)
LEMMA IndexOfParts ==
    ASSUME NEW s, NEW part \in Parts
    PROVE  IndexOf(s)[part] =
              (UNION {VertexEntries(id, s.vertices[id])[part] : id \in DOMAIN s.vertices}) \cup
              (UNION {EdgeEntries(id, s.edges[id])[part] : id \in DOMAIN s.edges})
<1>1. CASE part = "labels"
  BY <1>1 DEF IndexOf, VertexEntries, EdgeEntries
<1>2. CASE part = "props"
  BY <1>2 DEF IndexOf, VertexEntries, EdgeEntries
<1>3. CASE part = "ranges"
  BY <1>3 DEF IndexOf, VertexEntries, EdgeEntries
<1>4. CASE part = "edges"
  BY <1>4 DEF IndexOf, VertexEntries, EdgeEntries
<1>. QED
  BY <1>1, <1>2, <1>3, <1>4 DEF Parts

LEMMA VertexEntryFacts ==
    ASSUME NEW part \in Parts, NEW id, NEW v, NEW x \in VertexEntries(id, v)[part]
    PROVE  /\ part = "labels" => x[2] = id
           /\ part \in {"props", "ranges"} => x[3] = id
           /\ part # "edges"
BY DEF Parts, VertexEntries

LEMMA VertexEntriesTyped ==
    ASSUME NEW part \in Parts, NEW id \in VertexIds, NEW v \in Vertices
    PROVE  VertexEntries(id, v)[part] \subseteq Universe[part]
<1>1. v.labels \subseteq Labels /\ DOMAIN v.props \subseteq Keys
      /\ \A k \in DOMAIN v.props : v.props[k] \in Values
  BY DEF Vertices, PropertyMaps, PartialMaps
<1>. QED
  BY <1>1 DEF Parts, VertexEntries, Universe

LEMMA EdgeEntriesTyped ==
    ASSUME NEW part \in Parts, NEW id \in EdgeIds, NEW e \in EdgeRecords
    PROVE  EdgeEntries(id, e)[part] \subseteq Universe[part]
BY DEF Parts, EdgeEntries, Universe, EdgeRecords

(***************************************************************************)
(* Sequences of updates.                                                   *)
(***************************************************************************)
LEMMA EnteredConcat ==
    ASSUME NEW do, NEW part, NEW s \in Seq(AllUpdates), NEW t \in Seq(AllUpdates)
    PROVE  Entered(do, s \o t, part) = Entered(do, s, part) \cup Entered(do, t, part)
BY ConcatLists DEF Entered

LEMMA EnteredEmpty ==
    ASSUME NEW do, NEW part
    PROVE  Entered(do, <<>>, part) = {}
BY DEF Entered, ToSet

(* The first update and the rest. *)
LEMMA HeadAndTail ==
    ASSUME NEW q \in Seq(AllUpdates), q # <<>>
    PROVE  /\ Head(q) \in AllUpdates /\ Tail(q) \in Seq(AllUpdates)
           /\ ToSet(q) = {Head(q)} \cup ToSet(Tail(q))
           /\ \A i \in DOMAIN Tail(q) : i + 1 \in DOMAIN q /\ Tail(q)[i] = q[i + 1]
           /\ 1 \in DOMAIN q /\ Head(q) = q[1]
<1>1. /\ Len(q) \in Nat /\ Len(q) > 0 /\ DOMAIN q = 1..Len(q)
      /\ Tail(q) \in Seq(AllUpdates) /\ DOMAIN Tail(q) = 1..(Len(q) - 1)
      /\ \A i \in 1..(Len(q) - 1) : Tail(q)[i] = q[i + 1]
      /\ Head(q) = q[1]
  OBVIOUS
<1>2. \A i \in 1..Len(q) : i = 1 \/ (i - 1 \in 1..(Len(q) - 1) /\ (i - 1) + 1 = i)
  BY <1>1
<1>3. \A i \in 1..(Len(q) - 1) : i + 1 \in 1..Len(q)
  BY <1>1
<1>4. 1 \in 1..Len(q)
  BY <1>1
<1>5. ASSUME NEW x
      PROVE  (\E i \in 1..Len(q) : q[i] = x)
                <=> (x = q[1] \/ \E i \in 1..(Len(q) - 1) : q[i + 1] = x)
  BY <1>2, <1>3, <1>4
<1>6. ToSet(q) = {Head(q)} \cup ToSet(Tail(q))
  <2>1. ToSet(q) = {q[i] : i \in 1..Len(q)}
    BY <1>1 DEF ToSet
  <2>2. ToSet(Tail(q)) = {q[i + 1] : i \in 1..(Len(q) - 1)}
    BY <1>1 DEF ToSet
  <2>. QED
    BY <1>1, <1>5, <2>1, <2>2
<1>. QED
  BY <1>1, <1>3, <1>4, <1>6

LEMMA EnteredHeadTail ==
    ASSUME NEW q \in Seq(AllUpdates), q # <<>>, NEW do, NEW part
    PROVE  Entered(do, q, part) =
              Entered(do, Tail(q), part) \cup
              {x \in {Head(q).entry} : Head(q).do = do /\ Head(q).part = part}
<1>1. Head(q) = Update(Head(q).do, Head(q).part, Head(q).entry)
      /\ Head(q).entry \in Universe[Head(q).part]
  BY HeadAndTail, UpdateFacts
<1>2. \A x : Update(do, part, x) = Head(q)
                <=> do = Head(q).do /\ part = Head(q).part /\ x = Head(q).entry
  BY <1>1, UpdateEquality
<1>3. ToSet(q) = {Head(q)} \cup ToSet(Tail(q))
  BY HeadAndTail
<1>. QED
  BY <1>1, <1>2, <1>3 DEF Entered

LEMMA LabelUpdatesList ==
    ASSUME NEW do \in {"put", "drop"}, NEW id \in VertexIds, NEW v \in Vertices
    PROVE  /\ LabelUpdates(do, id, v) \in Seq(AllUpdates)
           /\ ToSet(LabelUpdates(do, id, v)) = {Update(do, "labels", <<l, id>>) : l \in v.labels}
<1> DEFINE labels == SetToSeq(v.labels)
<1>1. v.labels \subseteq Labels /\ IsFiniteSet(v.labels)
  BY FiniteAssumption, FS_Subset DEF Vertices
<1>2. labels \in Seq(v.labels) /\ \A l \in v.labels : \E i \in DOMAIN labels : labels[i] = l
  BY <1>1, SetToSeqLists
<1>. HIDE DEF labels
<1>3. DOMAIN labels = 1..Len(labels) /\ Len(labels) \in Nat /\ \A i \in DOMAIN labels : labels[i] \in v.labels
  BY <1>2
<1>4. LabelUpdates(do, id, v) = [i \in 1..Len(labels) |-> Update(do, "labels", <<labels[i], id>>)]
  BY <1>3 DEF LabelUpdates, labels
<1>5. \A l \in v.labels : Update(do, "labels", <<l, id>>) \in AllUpdates
  BY <1>1, UpdateIsOne DEF Parts, Universe
<1>6. LabelUpdates(do, id, v) \in Seq(AllUpdates)
  BY <1>3, <1>4, <1>5
<1>7. ToSet(LabelUpdates(do, id, v)) = {Update(do, "labels", <<labels[i], id>>) : i \in 1..Len(labels)}
  BY <1>4 DEF ToSet
<1>. QED
  BY <1>2, <1>3, <1>6, <1>7

(* The two updates one property makes. *)
PropertyPair(do, k, v, id) ==
    {Update(do, "props", <<k, v.props[k], id>>), Update(do, "ranges", <<k, v.props[k], id>>)}

LEMMA PropertyUpdatesList ==
    ASSUME NEW do \in {"put", "drop"}, NEW id \in VertexIds, NEW v \in Vertices,
           NEW names \in SetToSeqs(DOMAIN v.props)
    PROVE  /\ PropertyUpdates(do, v, id, names) \in Seq(AllUpdates)
           /\ ToSet(PropertyUpdates(do, v, id, names)) =
                 UNION {PropertyPair(do, k, v, id) : k \in DOMAIN v.props}
<1> DEFINE entry(i) == <<names[i], v.props[names[i]], id>>
           pair(i) == <<Update(do, "props", entry(i)), Update(do, "ranges", entry(i))>>
           pairs == [i \in DOMAIN names |-> pair(i)]
<1>1. /\ DOMAIN v.props \subseteq Keys /\ IsFiniteSet(DOMAIN v.props)
      /\ \A k \in DOMAIN v.props : v.props[k] \in Values
  <2>1. DOMAIN v.props \subseteq Keys /\ \A k \in DOMAIN v.props : v.props[k] \in Values
    BY DEF Vertices, PropertyMaps, PartialMaps
  <2>. QED
    BY <2>1, FiniteAssumption, FS_Subset
<1>2. names \in Seq(DOMAIN v.props) /\ \A k \in DOMAIN v.props : \E i \in DOMAIN names : names[i] = k
  BY <1>1, SetToSeqsLists
<1>3. /\ DOMAIN names = 1..Len(names) /\ Len(names) \in Nat
      /\ \A i \in DOMAIN names : names[i] \in DOMAIN v.props
  BY <1>2
<1>4. ASSUME NEW i \in DOMAIN names
      PROVE  /\ pair(i) \in Seq(AllUpdates)
             /\ ToSet(pair(i)) = PropertyPair(do, names[i], v, id)
  <2>1. entry(i) \in Universe["props"] /\ entry(i) \in Universe["ranges"]
    BY <1>1, <1>3 DEF Universe
  <2>2. /\ Update(do, "props", entry(i)) \in AllUpdates
        /\ Update(do, "ranges", entry(i)) \in AllUpdates
    BY <2>1, UpdateIsOne DEF Parts
  <2>3. \A a, b : ToSet(<<a, b>>) = {a, b}
    BY DEF ToSet
  <2>. QED
    BY <2>2, <2>3 DEF PropertyPair
<1>5. pairs \in Seq(Seq(AllUpdates)) /\ DOMAIN pairs = DOMAIN names
  <2>. HIDE DEF pair
  <2>1. pairs = [i \in 1..Len(names) |-> pair(i)]
    BY <1>3
  <2>2. \A i \in 1..Len(names) : pair(i) \in Seq(AllUpdates)
    BY <1>3, <1>4
  <2>. QED
    BY <1>3, <2>1, <2>2
<1>6. PropertyUpdates(do, v, id, names) = FlattenSeq(pairs)
  BY DEF PropertyUpdates
<1>7. /\ FlattenSeq(pairs) \in Seq(AllUpdates)
      /\ ToSet(FlattenSeq(pairs)) = UNION {ToSet(pairs[i]) : i \in DOMAIN pairs}
  <2>. HIDE DEF pairs
  <2>. QED
    BY <1>5, FlattenSeqLists
<1>8. \A i \in DOMAIN names : ToSet(pairs[i]) = PropertyPair(do, names[i], v, id)
  BY <1>4
<1>. HIDE DEF pairs
<1>9. UNION {ToSet(pairs[i]) : i \in DOMAIN pairs}
         = UNION {PropertyPair(do, names[i], v, id) : i \in DOMAIN names}
  BY <1>5, <1>8
<1>10. UNION {PropertyPair(do, names[i], v, id) : i \in DOMAIN names}
         = UNION {PropertyPair(do, k, v, id) : k \in DOMAIN v.props}
  BY <1>2, <1>3
<1>. QED
  BY <1>6, <1>7, <1>9, <1>10

(* However it is ordered, what enters or leaves with a vertex is exactly   *)
(* what the vertex has in the indexes.                                     *)
LEMMA VertexUpdatesList ==
    ASSUME NEW do \in {"put", "drop"}, NEW id \in VertexIds, NEW v \in Vertices,
           NEW u \in VertexUpdates(do, id, v)
    PROVE  /\ u \in Seq(AllUpdates)
           /\ \A i \in DOMAIN u : u[i].do = do
           /\ \A part \in Parts : Entered(do, u, part) = VertexEntries(id, v)[part]
           /\ \A part \in Parts : \A other : other # do => Entered(other, u, part) = {}
<1>1. PICK names \in SetToSeqs(DOMAIN v.props) :
         u = LabelUpdates(do, id, v) \o PropertyUpdates(do, v, id, names)
  BY DEF VertexUpdates
<1> DEFINE L == {Update(do, "labels", <<l, id>>) : l \in v.labels}
           P == UNION {PropertyPair(do, k, v, id) : k \in DOMAIN v.props}
<1>2. u \in Seq(AllUpdates) /\ ToSet(u) = L \cup P
  <2>1. LabelUpdates(do, id, v) \in Seq(AllUpdates) /\ ToSet(LabelUpdates(do, id, v)) = L
    BY LabelUpdatesList
  <2>2. /\ PropertyUpdates(do, v, id, names) \in Seq(AllUpdates)
        /\ ToSet(PropertyUpdates(do, v, id, names)) = P
    BY <1>1, PropertyUpdatesList
  <2>. HIDE DEF L, P
  <2>. QED
    BY <1>1, <2>1, <2>2, ConcatLists
<1>3. \A w \in L \cup P : w.do = do
  BY DEF Update, PropertyPair
<1>4. \A i \in DOMAIN u : u[i] \in ToSet(u)
  BY DEF ToSet
<1>5. ASSUME NEW part \in Parts
      PROVE  Entered(do, u, part) = VertexEntries(id, v)[part]
  <2>1. ASSUME NEW x
        PROVE  Update(do, part, x) \in L <=> part = "labels" /\ \E l \in v.labels : x = <<l, id>>
    <3>1. Update(do, part, x) \in L
             <=> \E l \in v.labels : Update(do, part, x) = Update(do, "labels", <<l, id>>)
      OBVIOUS
    <3>2. \A l : Update(do, part, x) = Update(do, "labels", <<l, id>>)
                    <=> part = "labels" /\ x = <<l, id>>
      BY UpdateEquality
    <3>. HIDE DEF L
    <3>. QED
      BY <3>1, <3>2
  <2>2. ASSUME NEW x
        PROVE  Update(do, part, x) \in P <=>
                  /\ part \in {"props", "ranges"}
                  /\ \E k \in DOMAIN v.props : x = <<k, v.props[k], id>>
    <3>1. Update(do, part, x) \in P
             <=> \E k \in DOMAIN v.props :
                    \/ Update(do, part, x) = Update(do, "props", <<k, v.props[k], id>>)
                    \/ Update(do, part, x) = Update(do, "ranges", <<k, v.props[k], id>>)
      BY DEF PropertyPair
    <3>2. \A k : Update(do, part, x) = Update(do, "props", <<k, v.props[k], id>>)
                    <=> part = "props" /\ x = <<k, v.props[k], id>>
      BY UpdateEquality
    <3>3. \A k : Update(do, part, x) = Update(do, "ranges", <<k, v.props[k], id>>)
                    <=> part = "ranges" /\ x = <<k, v.props[k], id>>
      BY UpdateEquality
    <3>. HIDE DEF P
    <3>. QED
      BY <3>1, <3>2, <3>3
  <2>. HIDE DEF L, P
  <2>3. \A x : Update(do, part, x) \in ToSet(u) <=> x \in VertexEntries(id, v)[part]
    BY <1>2, <2>1, <2>2 DEF VertexEntries, Parts
  <2>. QED
    BY <2>3, VertexEntriesTyped DEF Entered
<1>6. ASSUME NEW part \in Parts, NEW other, other # do
      PROVE  Entered(other, u, part) = {}
  <2>1. \A x : Update(other, part, x).do = other
    BY DEF Update
  <2>. QED
    BY <1>2, <1>3, <1>6, <2>1 DEF Entered
<1>. QED
  BY <1>2, <1>3, <1>4, <1>5, <1>6

LEMMA PutsAndDrops ==
    ASSUME NEW id \in VertexIds, NEW v \in Vertices
    PROVE  /\ \A u \in VertexUpdates("put", id, v) :
                 /\ u \in Seq(AllUpdates) /\ \A i \in DOMAIN u : u[i].do = "put"
                 /\ \A part \in Parts : /\ Entered("put", u, part) = VertexEntries(id, v)[part]
                                        /\ Entered("drop", u, part) = {}
           /\ \A u \in VertexUpdates("drop", id, v) :
                 /\ u \in Seq(AllUpdates) /\ \A i \in DOMAIN u : u[i].do = "drop"
                 /\ \A part \in Parts : /\ Entered("drop", u, part) = VertexEntries(id, v)[part]
                                        /\ Entered("put", u, part) = {}
<1>1. "put" \in {"put", "drop"} /\ "drop" \in {"put", "drop"} /\ "put" # "drop"
  OBVIOUS
<1>2. ASSUME NEW u \in VertexUpdates("put", id, v)
      PROVE  /\ u \in Seq(AllUpdates) /\ \A i \in DOMAIN u : u[i].do = "put"
             /\ \A part \in Parts : /\ Entered("put", u, part) = VertexEntries(id, v)[part]
                                    /\ Entered("drop", u, part) = {}
  BY <1>1, VertexUpdatesList
<1>3. ASSUME NEW u \in VertexUpdates("drop", id, v)
      PROVE  /\ u \in Seq(AllUpdates) /\ \A i \in DOMAIN u : u[i].do = "drop"
             /\ \A part \in Parts : /\ Entered("drop", u, part) = VertexEntries(id, v)[part]
                                    /\ Entered("put", u, part) = {}
  BY <1>1, VertexUpdatesList
<1>. QED
  BY <1>2, <1>3

(***************************************************************************)
(* The store.                                                              *)
(***************************************************************************)
StoreType ==
    [vertices : PartialMaps(VertexIds, Vertices), edges : PartialMaps(EdgeIds, EdgeRecords),
     out : PartialMaps(VertexIds, SUBSET EdgeIds), in : PartialMaps(VertexIds, SUBSET EdgeIds),
     nextV : Nat \ {0}, nextE : Nat \ {0}]

(* The adjacency sets list edges that are there and have the vertex at the *)
(* right end, and the next identifiers exceed those in use.                *)
StoreShape(s) ==
    /\ s \in StoreType
    /\ \A v \in DOMAIN s.out : \A e \in s.out[v] : e \in DOMAIN s.edges /\ s.edges[e].from = v
    /\ \A v \in DOMAIN s.in : \A e \in s.in[v] : e \in DOMAIN s.edges /\ s.edges[e].to = v
    /\ \A id \in DOMAIN s.vertices : id < s.nextV
    /\ \A id \in DOMAIN s.edges : id < s.nextE

LEMMA PartialMapFacts ==
    ASSUME NEW D, NEW R
    PROVE  /\ \A f \in PartialMaps(D, R) : DOMAIN f \subseteq D /\ f \in [DOMAIN f -> R]
           /\ \A K \in SUBSET D : \A f \in [K -> R] : f \in PartialMaps(D, R)
BY DEF PartialMaps

LEMMA PutType ==
    ASSUME NEW D, NEW R, NEW f \in PartialMaps(D, R), NEW k \in D, NEW v \in R
    PROVE  S!Put(f, k, v) \in PartialMaps(D, R)
<1>1. DOMAIN f \cup {k} \subseteq D /\ f \in [DOMAIN f -> R]
  BY PartialMapFacts
<1>2. S!Put(f, k, v) \in [DOMAIN f \cup {k} -> R]
  BY <1>1 DEF S!Put
<1>. QED
  BY <1>1, <1>2, PartialMapFacts

LEMMA WithoutType ==
    ASSUME NEW D, NEW R, NEW f \in PartialMaps(D, R), NEW K
    PROVE  S!Without(f, K) \in PartialMaps(D, R)
<1>1. DOMAIN f \ K \subseteq D /\ f \in [DOMAIN f -> R]
  BY PartialMapFacts
<1>2. S!Without(f, K) \in [DOMAIN f \ K -> R]
  BY <1>1 DEF S!Without
<1>. QED
  BY <1>1, <1>2, PartialMapFacts

LEMMA StoreFields ==
    ASSUME NEW s \in StoreType
    PROVE  /\ DOMAIN s.vertices \subseteq VertexIds /\ s.vertices \in [DOMAIN s.vertices -> Vertices]
           /\ DOMAIN s.edges \subseteq EdgeIds /\ s.edges \in [DOMAIN s.edges -> EdgeRecords]
           /\ DOMAIN s.out \subseteq VertexIds /\ s.out \in [DOMAIN s.out -> SUBSET EdgeIds]
           /\ DOMAIN s.in \subseteq VertexIds /\ s.in \in [DOMAIN s.in -> SUBSET EdgeIds]
           /\ s.nextV \in Nat \ {0} /\ s.nextE \in Nat \ {0}
BY PartialMapFacts DEF StoreType

(* An entry of the graph, and the element it is an entry of.               *)
LEMMA IndexOfMember ==
    ASSUME NEW s, NEW part \in Parts, NEW x
    PROVE  x \in IndexOf(s)[part] <=>
              \/ \E id \in DOMAIN s.vertices : x \in VertexEntries(id, s.vertices[id])[part]
              \/ \E id \in DOMAIN s.edges : x \in EdgeEntries(id, s.edges[id])[part]
BY IndexOfParts

(* Two vertices, two edges, or a vertex and an edge share no entry.        *)
LEMMA EntriesApart ==
    ASSUME NEW part \in Parts, NEW x, NEW id, NEW id2
    PROVE  /\ \A v, w : x \in VertexEntries(id, v)[part] /\ x \in VertexEntries(id2, w)[part]
                           => id = id2
           /\ \A e, f : x \in EdgeEntries(id, e)[part] /\ x \in EdgeEntries(id2, f)[part]
                           => id = id2
           /\ \A v, e : ~(x \in VertexEntries(id, v)[part] /\ x \in EdgeEntries(id2, e)[part])
<1>1. \A v : x \in VertexEntries(id, v)[part] =>
                /\ part = "labels" => x[2] = id
                /\ part \in {"props", "ranges"} => x[3] = id
                /\ part # "edges"
  BY VertexEntryFacts
<1>2. \A w : x \in VertexEntries(id2, w)[part] =>
                /\ part = "labels" => x[2] = id2
                /\ part \in {"props", "ranges"} => x[3] = id2
  BY VertexEntryFacts
<1>3. \A e : x \in EdgeEntries(id, e)[part] => part = "edges" /\ x = <<e.label, id>>
  BY DEF Parts, EdgeEntries
<1>4. \A e : x \in EdgeEntries(id2, e)[part] => part = "edges" /\ x = <<e.label, id2>>
  BY DEF Parts, EdgeEntries
<1>5. part = "labels" \/ part \in {"props", "ranges"} \/ part = "edges"
  BY DEF Parts
<1>6. \A v, w : x \in VertexEntries(id, v)[part] /\ x \in VertexEntries(id2, w)[part] => id = id2
  BY <1>1, <1>2, <1>5
<1>7. \A e, f : x \in EdgeEntries(id, e)[part] /\ x \in EdgeEntries(id2, f)[part] => id = id2
  BY <1>3, <1>4
<1>. QED
  BY <1>1, <1>4, <1>6, <1>7

(* The updates of a write, done in their order, turn the entries of the    *)
(* old graph into those of the new one.                                    *)
WriteSound(s, t, q) ==
    /\ StoreShape(t)
    /\ q \in Seq(AllUpdates) /\ PutsLast(q)
    /\ \A part \in Parts :
          IndexOf(t)[part] = (IndexOf(s)[part] \ Entered("drop", q, part)) \cup Entered("put", q, part)

LEMMA OnlyPutsLast ==
    ASSUME NEW q, NEW do, \A i \in DOMAIN q : q[i].do = do
    PROVE  PutsLast(q)
BY DEF PutsLast

LEMMA CreateVertexSound ==
    ASSUME NEW s, StoreShape(s), s.nextV =< MaxVertexId, NEW v \in Vertices,
           NEW q \in VertexUpdates("put", s.nextV, v)
    PROVE  WriteSound(s, S!AddVertex(s, s.nextV, v), q)
<1> DEFINE id == s.nextV
           t == S!AddVertex(s, id, v)
<1>1. s \in StoreType
  BY DEF StoreShape
<1>2. id \in VertexIds /\ id \in Nat \ {0}
  BY <1>1, StoreFields, FiniteAssumption DEF VertexIds
<1>3. id \notin DOMAIN s.vertices
  <2>1. \A i \in DOMAIN s.vertices : i \in Nat /\ i < id
    BY <1>1, StoreFields, IdFacts DEF StoreShape
  <2>. QED
    BY <1>2, <2>1
<1>4. /\ t.vertices = S!Put(s.vertices, id, v) /\ t.edges = s.edges
      /\ t.out = S!Put(s.out, id, {}) /\ t.in = S!Put(s.in, id, {})
      /\ t.nextV = S!Raise(s.nextV, id + 1) /\ t.nextE = s.nextE
  BY <1>1 DEF S!AddVertex, StoreType
<1>. HIDE DEF t
<1>5. t.nextV = id + 1
  BY <1>2, <1>4 DEF S!Raise
<1>6. /\ t.vertices \in PartialMaps(VertexIds, Vertices)
      /\ t.out \in PartialMaps(VertexIds, SUBSET EdgeIds)
      /\ t.in \in PartialMaps(VertexIds, SUBSET EdgeIds)
      /\ DOMAIN t.vertices = DOMAIN s.vertices \cup {id} /\ t.vertices[id] = v
      /\ \A i \in DOMAIN s.vertices : t.vertices[i] = s.vertices[i]
      /\ DOMAIN t.out = DOMAIN s.out \cup {id} /\ t.out[id] = {}
      /\ \A i \in DOMAIN s.out : i # id => t.out[i] = s.out[i]
      /\ DOMAIN t.in = DOMAIN s.in \cup {id} /\ t.in[id] = {}
      /\ \A i \in DOMAIN s.in : i # id => t.in[i] = s.in[i]
  <2>1. {} \in SUBSET EdgeIds
    OBVIOUS
  <2>2. /\ s.vertices \in PartialMaps(VertexIds, Vertices)
        /\ s.out \in PartialMaps(VertexIds, SUBSET EdgeIds)
        /\ s.in \in PartialMaps(VertexIds, SUBSET EdgeIds)
    BY <1>1 DEF StoreType
  <2>3. /\ t.vertices \in PartialMaps(VertexIds, Vertices)
        /\ t.out \in PartialMaps(VertexIds, SUBSET EdgeIds)
        /\ t.in \in PartialMaps(VertexIds, SUBSET EdgeIds)
    BY <1>2, <1>4, <2>1, <2>2, PutType
  <2>4. /\ DOMAIN t.vertices = DOMAIN s.vertices \cup {id} /\ t.vertices[id] = v
        /\ \A i \in DOMAIN s.vertices : t.vertices[i] = s.vertices[i]
    BY <1>3, <1>4 DEF S!Put
  <2>5. /\ DOMAIN t.out = DOMAIN s.out \cup {id} /\ t.out[id] = {}
        /\ \A i \in DOMAIN s.out : i # id => t.out[i] = s.out[i]
        /\ DOMAIN t.in = DOMAIN s.in \cup {id} /\ t.in[id] = {}
        /\ \A i \in DOMAIN s.in : i # id => t.in[i] = s.in[i]
    BY <1>4 DEF S!Put
  <2>. QED
    BY <2>3, <2>4, <2>5
<1>7. StoreShape(t)
  <2>1. /\ s.edges \in PartialMaps(EdgeIds, EdgeRecords) /\ s.nextE \in Nat \ {0}
        /\ id + 1 \in Nat \ {0}
    BY <1>1, <1>2 DEF StoreType
  <2>2. t \in StoreType
    BY <1>1, <1>4, <1>5, <1>6, <2>1 DEF t, S!AddVertex, StoreType
  <2>3. \A i \in DOMAIN t.vertices : i < t.nextV
    <3>1. ASSUME NEW i \in DOMAIN s.vertices
          PROVE  i < id + 1
      <4>1. i \in Nat /\ i < id
        BY <1>1, StoreFields, IdFacts DEF StoreShape
      <4>. QED
        BY <1>2, <4>1
    <3>2. id < id + 1
      BY <1>2
    <3>. QED
      BY <1>5, <1>6, <3>1, <3>2
  <2>. QED
    BY <1>4, <1>6, <2>2, <2>3 DEF StoreShape
<1>8. /\ q \in Seq(AllUpdates) /\ PutsLast(q)
      /\ \A part \in Parts : Entered("put", q, part) = VertexEntries(id, v)[part]
                             /\ Entered("drop", q, part) = {}
  BY <1>1, <1>2, PutsAndDrops, OnlyPutsLast
<1>9. ASSUME NEW part \in Parts
      PROVE  IndexOf(t)[part] = IndexOf(s)[part] \cup VertexEntries(id, v)[part]
  <2>1. ASSUME NEW x
        PROVE  x \in IndexOf(t)[part] <=> x \in IndexOf(s)[part] \/ x \in VertexEntries(id, v)[part]
    BY <1>4, <1>6, IndexOfMember
  <2>. QED
    BY <2>1
<1>. QED
  BY <1>7, <1>8, <1>9 DEF WriteSound, t

LEMMA UpdateVertexSound ==
    ASSUME NEW s, StoreShape(s), NEW id \in VertexIds, S!HasVertex(s, id), NEW v \in Vertices,
           NEW drops \in VertexUpdates("drop", id, s.vertices[id]),
           NEW puts \in VertexUpdates("put", id, v)
    PROVE  WriteSound(s, S!UpdateVertex(s, id, v), drops \o puts)
<1> DEFINE t == S!UpdateVertex(s, id, v)
           q == drops \o puts
<1>1. s \in StoreType /\ id \in DOMAIN s.vertices /\ s.vertices[id] \in Vertices
  BY StoreFields DEF StoreShape, S!HasVertex
<1>2. /\ t.vertices = S!Put(s.vertices, id, v)
      /\ t.edges = s.edges /\ t.out = s.out /\ t.in = s.in
      /\ t.nextV = s.nextV /\ t.nextE = s.nextE
  BY <1>1 DEF S!UpdateVertex, StoreType
<1>. HIDE DEF t
<1>3. /\ t.vertices \in PartialMaps(VertexIds, Vertices)
      /\ DOMAIN t.vertices = DOMAIN s.vertices /\ t.vertices[id] = v
      /\ \A i \in DOMAIN s.vertices : i # id => t.vertices[i] = s.vertices[i]
  <2>1. s.vertices \in PartialMaps(VertexIds, Vertices)
    BY <1>1 DEF StoreType
  <2>2. t.vertices \in PartialMaps(VertexIds, Vertices)
    BY <1>2, <2>1, PutType
  <2>. QED
    BY <1>1, <1>2, <2>2 DEF S!Put
<1>5. StoreShape(t)
  <2>1. t \in StoreType
    BY <1>1, <1>2, <1>3 DEF t, S!UpdateVertex, StoreType
  <2>. QED
    BY <1>2, <1>3, <2>1 DEF StoreShape
<1>6. /\ drops \in Seq(AllUpdates) /\ \A i \in DOMAIN drops : drops[i].do = "drop"
      /\ puts \in Seq(AllUpdates) /\ \A i \in DOMAIN puts : puts[i].do = "put"
      /\ \A part \in Parts :
            /\ Entered("drop", drops, part) = VertexEntries(id, s.vertices[id])[part]
            /\ Entered("put", drops, part) = {}
            /\ Entered("put", puts, part) = VertexEntries(id, v)[part]
            /\ Entered("drop", puts, part) = {}
  BY <1>1, PutsAndDrops
<1>7. /\ q \in Seq(AllUpdates)
      /\ \A part \in Parts :
            /\ Entered("drop", q, part) = VertexEntries(id, s.vertices[id])[part]
            /\ Entered("put", q, part) = VertexEntries(id, v)[part]
  <2>1. q \in Seq(AllUpdates)
    BY <1>6, ConcatLists
  <2>2. ASSUME NEW part \in Parts, NEW do
        PROVE  Entered(do, q, part) = Entered(do, drops, part) \cup Entered(do, puts, part)
    BY <1>6, EnteredConcat
  <2>. HIDE DEF q
  <2>. QED
    BY <1>6, <2>1, <2>2
<1>8. PutsLast(q)
  <2>1. /\ DOMAIN drops = 1..Len(drops) /\ Len(drops) \in Nat
        /\ DOMAIN puts = 1..Len(puts) /\ Len(puts) \in Nat
        /\ DOMAIN q = 1..(Len(drops) + Len(puts))
        /\ \A i \in 1..Len(drops) : q[i] = drops[i]
        /\ \A i \in DOMAIN q : i > Len(drops) => i - Len(drops) \in 1..Len(puts) /\ q[i] = puts[i - Len(drops)]
    BY <1>6
  <2>. HIDE DEF q
  <2>2. \A i \in DOMAIN q : q[i].do = "put" <=> i > Len(drops)
    BY <1>6, <2>1
  <2>. QED
    BY <2>1, <2>2 DEF PutsLast
<1>9. ASSUME NEW part \in Parts
      PROVE  IndexOf(t)[part] =
                (IndexOf(s)[part] \ VertexEntries(id, s.vertices[id])[part])
                   \cup VertexEntries(id, v)[part]
  <2>1. ASSUME NEW x
        PROVE  x \in IndexOf(t)[part] <=>
                  \/ x \in IndexOf(s)[part] /\ x \notin VertexEntries(id, s.vertices[id])[part]
                  \/ x \in VertexEntries(id, v)[part]
    <3>1. x \in IndexOf(t)[part] <=>
              \/ x \in VertexEntries(id, v)[part]
              \/ \E i \in DOMAIN s.vertices : i # id /\ x \in VertexEntries(i, s.vertices[i])[part]
              \/ \E i \in DOMAIN s.edges : x \in EdgeEntries(i, s.edges[i])[part]
      BY <1>1, <1>2, <1>3, IndexOfMember
    <3>2. x \in IndexOf(s)[part] <=>
              \/ x \in VertexEntries(id, s.vertices[id])[part]
              \/ \E i \in DOMAIN s.vertices : i # id /\ x \in VertexEntries(i, s.vertices[i])[part]
              \/ \E i \in DOMAIN s.edges : x \in EdgeEntries(i, s.edges[i])[part]
      BY <1>1, IndexOfMember
    <3>. QED
      BY <3>1, <3>2, EntriesApart
  <2>. QED
    BY <2>1
<1>. HIDE DEF q
<1>10. WriteSound(s, t, q)
  BY <1>5, <1>7, <1>8, <1>9 DEF WriteSound
<1>. QED
  BY <1>10 DEF t, q

LEMMA EdgeUpdateFacts ==
    ASSUME NEW do \in {"put", "drop"}, NEW id \in EdgeIds, NEW e \in EdgeRecords
    PROVE  /\ EdgeUpdate(do, id, e) \in AllUpdates /\ EdgeUpdate(do, id, e).do = do
           /\ \A part \in Parts : \A x, other :
                 Update(other, part, x) = EdgeUpdate(do, id, e)
                    <=> other = do /\ x \in EdgeEntries(id, e)[part]
<1>1. <<e.label, id>> \in Universe["edges"]
  BY DEF Universe, EdgeRecords
<1>2. EdgeUpdate(do, id, e) \in AllUpdates
  BY <1>1, UpdateIsOne DEF EdgeUpdate, Parts
<1>3. ASSUME NEW part \in Parts, NEW x, NEW other
      PROVE  Update(other, part, x) = EdgeUpdate(do, id, e)
                <=> other = do /\ x \in EdgeEntries(id, e)[part]
  <2>1. Update(other, part, x) = EdgeUpdate(do, id, e)
           <=> other = do /\ part = "edges" /\ x = <<e.label, id>>
    BY UpdateEquality DEF EdgeUpdate
  <2>2. x \in EdgeEntries(id, e)[part] <=> part = "edges" /\ x = <<e.label, id>>
    BY DEF EdgeEntries, Parts
  <2>. QED
    BY <2>1, <2>2
<1>. QED
  BY <1>2, <1>3 DEF EdgeUpdate, Update

LEMMA CreateEdgeSound ==
    ASSUME NEW s, StoreShape(s), s.nextE =< MaxEdgeId, NEW e \in EdgeRecords,
           S!CanAddEdge(s, s.nextE, e)
    PROVE  WriteSound(s, S!AddEdge(s, s.nextE, e), <<EdgeUpdate("put", s.nextE, e)>>)
<1> DEFINE id == s.nextE
           t == S!AddEdge(s, id, e)
           q == <<EdgeUpdate("put", id, e)>>
<1>1. s \in StoreType /\ id \notin DOMAIN s.edges
  BY DEF StoreShape, S!CanAddEdge, S!HasEdge
<1>2. id \in EdgeIds /\ id \in Nat \ {0}
  BY <1>1, StoreFields, FiniteAssumption DEF EdgeIds
<1>3. /\ t.edges = S!Put(s.edges, id, e) /\ t.vertices = s.vertices
      /\ t.out = [s.out EXCEPT ![e.from] = s.out[e.from] \cup {id}]
      /\ t.in = [s.in EXCEPT ![e.to] = s.in[e.to] \cup {id}]
      /\ t.nextE = S!Raise(s.nextE, id + 1) /\ t.nextV = s.nextV
  BY <1>1 DEF S!AddEdge, StoreType
<1>. HIDE DEF t
<1>4. t.nextE = id + 1 /\ id + 1 \in Nat \ {0}
  BY <1>2, <1>3 DEF S!Raise
<1>5. t.edges \in PartialMaps(EdgeIds, EdgeRecords)
  <2>1. s.edges \in PartialMaps(EdgeIds, EdgeRecords)
    BY <1>1 DEF StoreType
  <2>. QED
    BY <1>2, <1>3, <2>1, PutType
<1>6. /\ DOMAIN t.edges = DOMAIN s.edges \cup {id} /\ t.edges[id] = e
      /\ \A i \in DOMAIN s.edges : t.edges[i] = s.edges[i]
  BY <1>1, <1>3 DEF S!Put
<1>7. /\ DOMAIN t.out = DOMAIN s.out /\ DOMAIN t.in = DOMAIN s.in
      /\ \A v \in DOMAIN s.out : t.out[v] = IF v = e.from THEN s.out[v] \cup {id} ELSE s.out[v]
      /\ \A v \in DOMAIN s.in : t.in[v] = IF v = e.to THEN s.in[v] \cup {id} ELSE s.in[v]
  BY <1>3
<1>8. t.out \in PartialMaps(VertexIds, SUBSET EdgeIds) /\ t.in \in PartialMaps(VertexIds, SUBSET EdgeIds)
  <2>1. /\ DOMAIN s.out \subseteq VertexIds /\ s.out \in [DOMAIN s.out -> SUBSET EdgeIds]
        /\ DOMAIN s.in \subseteq VertexIds /\ s.in \in [DOMAIN s.in -> SUBSET EdgeIds]
    BY <1>1, StoreFields
  <2>2. t.out \in [DOMAIN s.out -> SUBSET EdgeIds]
    <3>1. t.out = [v \in DOMAIN s.out |-> t.out[v]]
      BY <1>3, <1>7
    <3>2. ASSUME NEW v \in DOMAIN s.out
          PROVE  t.out[v] \in SUBSET EdgeIds
      <4>1. s.out[v] \in SUBSET EdgeIds
        BY <2>1
      <4>. QED
        BY <1>2, <1>7, <4>1
    <3>. QED
      BY <3>1, <3>2
  <2>3. t.in \in [DOMAIN s.in -> SUBSET EdgeIds]
    <3>1. t.in = [v \in DOMAIN s.in |-> t.in[v]]
      BY <1>3, <1>7
    <3>2. ASSUME NEW v \in DOMAIN s.in
          PROVE  t.in[v] \in SUBSET EdgeIds
      <4>1. s.in[v] \in SUBSET EdgeIds
        BY <2>1
      <4>. QED
        BY <1>2, <1>7, <4>1
    <3>. QED
      BY <3>1, <3>2
  <2>. QED
    BY <2>1, <2>2, <2>3, PartialMapFacts
<1>9. StoreShape(t)
  <2>1. s.vertices \in PartialMaps(VertexIds, Vertices) /\ s.nextV \in Nat \ {0}
    BY <1>1 DEF StoreType
  <2>2. t \in StoreType
    BY <1>1, <1>3, <1>4, <1>5, <1>8, <2>1 DEF t, S!AddEdge, StoreType
  <2>3. \A i \in DOMAIN t.edges : i < t.nextE
    <3>1. ASSUME NEW i \in DOMAIN s.edges
          PROVE  i < id + 1
      <4>1. i \in Nat /\ i < id
        BY <1>1, StoreFields, IdFacts DEF StoreShape
      <4>. QED
        BY <1>2, <4>1
    <3>2. id < id + 1
      BY <1>2
    <3>. QED
      BY <1>4, <1>6, <3>1, <3>2
  <2>4. ASSUME NEW v \in DOMAIN t.out, NEW i \in t.out[v]
        PROVE  i \in DOMAIN t.edges /\ t.edges[i].from = v
    <3>1. v \in DOMAIN s.out /\ (i \in s.out[v] \/ (v = e.from /\ i = id))
      BY <1>7
    <3>2. i \in s.out[v] => i \in DOMAIN s.edges /\ s.edges[i].from = v
      BY <3>1 DEF StoreShape
    <3>. QED
      BY <1>6, <3>1, <3>2
  <2>5. ASSUME NEW v \in DOMAIN t.in, NEW i \in t.in[v]
        PROVE  i \in DOMAIN t.edges /\ t.edges[i].to = v
    <3>1. v \in DOMAIN s.in /\ (i \in s.in[v] \/ (v = e.to /\ i = id))
      BY <1>7
    <3>2. i \in s.in[v] => i \in DOMAIN s.edges /\ s.edges[i].to = v
      BY <3>1 DEF StoreShape
    <3>. QED
      BY <1>6, <3>1, <3>2
  <2>. QED
    BY <1>3, <2>2, <2>3, <2>4, <2>5 DEF StoreShape
<1>10. /\ q \in Seq(AllUpdates) /\ PutsLast(q)
       /\ \A part \in Parts : Entered("put", q, part) = EdgeEntries(id, e)[part]
                              /\ Entered("drop", q, part) = {}
  <2>1. /\ EdgeUpdate("put", id, e) \in AllUpdates /\ EdgeUpdate("put", id, e).do = "put"
        /\ \A part \in Parts : \A x, other :
              Update(other, part, x) = EdgeUpdate("put", id, e)
                 <=> other = "put" /\ x \in EdgeEntries(id, e)[part]
    BY <1>2, EdgeUpdateFacts
  <2>2. ToSet(q) = {EdgeUpdate("put", id, e)}
    BY DEF ToSet
  <2>3. q \in Seq(AllUpdates) /\ \A i \in DOMAIN q : q[i].do = "put"
    BY <2>1
  <2>. HIDE DEF q
  <2>4. \A part \in Parts : EdgeEntries(id, e)[part] \subseteq Universe[part]
    BY <1>2, EdgeEntriesTyped
  <2>5. ASSUME NEW part \in Parts
        PROVE  /\ Entered("put", q, part) = EdgeEntries(id, e)[part]
               /\ Entered("drop", q, part) = {}
    <3>1. \A x : Update("put", part, x) \in ToSet(q) <=> x \in EdgeEntries(id, e)[part]
      BY <2>1, <2>2
    <3>2. \A x : Update("drop", part, x) \notin ToSet(q)
      BY <2>1, <2>2
    <3>. QED
      BY <2>4, <3>1, <3>2 DEF Entered
  <2>. QED
    BY <2>3, <2>5, OnlyPutsLast
<1>. HIDE DEF q
<1>11. ASSUME NEW part \in Parts
       PROVE  IndexOf(t)[part] = IndexOf(s)[part] \cup EdgeEntries(id, e)[part]
  <2>1. ASSUME NEW x
        PROVE  x \in IndexOf(t)[part] <=> x \in IndexOf(s)[part] \/ x \in EdgeEntries(id, e)[part]
    BY <1>3, <1>6, IndexOfMember
  <2>. QED
    BY <2>1
<1>. QED
  BY <1>9, <1>10, <1>11 DEF WriteSound, t, q

(* The entries of a set of edges.                                          *)
EntriesOfEdges(s, E, part) == UNION {EdgeEntries(i, s.edges[i])[part] : i \in E}

LEMMA DeleteEdgesSound ==
    ASSUME NEW s, StoreShape(s), NEW E \in SUBSET DOMAIN s.edges
    PROVE  LET t == S!DeleteEdges(s, E)
           IN  /\ StoreShape(t)
               /\ t.vertices = s.vertices
               /\ \A part \in Parts : IndexOf(t)[part] = IndexOf(s)[part] \ EntriesOfEdges(s, E, part)
<1> DEFINE t == S!DeleteEdges(s, E)
<1>1. s \in StoreType
  BY DEF StoreShape
<1>2. /\ t.edges = S!Without(s.edges, E) /\ t.vertices = s.vertices
      /\ t.out = [v \in DOMAIN s.out |-> {i \in s.out[v] : i \notin E \/ s.edges[i].from # v}]
      /\ t.in = [v \in DOMAIN s.in |-> {i \in s.in[v] : i \notin E \/ s.edges[i].to # v}]
      /\ t.nextE = s.nextE /\ t.nextV = s.nextV
  BY <1>1 DEF S!DeleteEdges, StoreType
<1>. HIDE DEF t
<1>3. /\ DOMAIN t.edges = DOMAIN s.edges \ E
      /\ \A i \in DOMAIN s.edges \ E : t.edges[i] = s.edges[i]
  BY <1>2 DEF S!Without
<1>4. t.edges \in PartialMaps(EdgeIds, EdgeRecords)
  <2>1. s.edges \in PartialMaps(EdgeIds, EdgeRecords)
    BY <1>1 DEF StoreType
  <2>. QED
    BY <1>2, <2>1, WithoutType
<1>5. t.out \in PartialMaps(VertexIds, SUBSET EdgeIds) /\ t.in \in PartialMaps(VertexIds, SUBSET EdgeIds)
  <2>1. /\ DOMAIN s.out \subseteq VertexIds /\ s.out \in [DOMAIN s.out -> SUBSET EdgeIds]
        /\ DOMAIN s.in \subseteq VertexIds /\ s.in \in [DOMAIN s.in -> SUBSET EdgeIds]
    BY <1>1, StoreFields
  <2>2. t.out \in [DOMAIN s.out -> SUBSET EdgeIds] /\ t.in \in [DOMAIN s.in -> SUBSET EdgeIds]
    BY <1>2, <2>1
  <2>. QED
    BY <2>1, <2>2, PartialMapFacts
<1>6. StoreShape(t)
  <2>1. s.vertices \in PartialMaps(VertexIds, Vertices) /\ s.nextV \in Nat \ {0} /\ s.nextE \in Nat \ {0}
    BY <1>1 DEF StoreType
  <2>2. t \in StoreType
    BY <1>1, <1>2, <1>4, <1>5, <2>1 DEF t, S!DeleteEdges, StoreType
  <2>3. \A v \in DOMAIN t.out : \A i \in t.out[v] : i \in DOMAIN t.edges /\ t.edges[i].from = v
    BY <1>2, <1>3 DEF StoreShape
  <2>4. \A v \in DOMAIN t.in : \A i \in t.in[v] : i \in DOMAIN t.edges /\ t.edges[i].to = v
    BY <1>2, <1>3 DEF StoreShape
  <2>. QED
    BY <1>2, <1>3, <2>2, <2>3, <2>4 DEF StoreShape
<1>7. ASSUME NEW part \in Parts
      PROVE  IndexOf(t)[part] = IndexOf(s)[part] \ EntriesOfEdges(s, E, part)
  <2>1. ASSUME NEW x
        PROVE  x \in IndexOf(t)[part] <=>
                  x \in IndexOf(s)[part] /\ ~\E i \in E : x \in EdgeEntries(i, s.edges[i])[part]
    <3>1. x \in IndexOf(t)[part] <=>
              \/ \E i \in DOMAIN s.vertices : x \in VertexEntries(i, s.vertices[i])[part]
              \/ \E i \in DOMAIN s.edges \ E : x \in EdgeEntries(i, s.edges[i])[part]
      BY <1>2, <1>3, IndexOfMember
    <3>2. x \in IndexOf(s)[part] <=>
              \/ \E i \in DOMAIN s.vertices : x \in VertexEntries(i, s.vertices[i])[part]
              \/ \E i \in DOMAIN s.edges \ E : x \in EdgeEntries(i, s.edges[i])[part]
              \/ \E i \in E : x \in EdgeEntries(i, s.edges[i])[part]
      BY IndexOfMember
    <3>3. \A i \in E, j \in DOMAIN s.edges \ E :
             ~(x \in EdgeEntries(i, s.edges[i])[part] /\ x \in EdgeEntries(j, s.edges[j])[part])
      BY EntriesApart
    <3>4. \A i \in E, j \in DOMAIN s.vertices :
             ~(x \in EdgeEntries(i, s.edges[i])[part] /\ x \in VertexEntries(j, s.vertices[j])[part])
      BY EntriesApart
    <3>. QED
      BY <3>1, <3>2, <3>3, <3>4
  <2>. QED
    BY <2>1 DEF EntriesOfEdges
<1>8. /\ StoreShape(t) /\ t.vertices = s.vertices
      /\ \A part \in Parts : IndexOf(t)[part] = IndexOf(s)[part] \ EntriesOfEdges(s, E, part)
  BY <1>2, <1>6, <1>7
<1>. QED
  BY <1>8 DEF t

LEMMA DeleteEdgeSound ==
    ASSUME NEW s, StoreShape(s), NEW id, S!HasEdge(s, id)
    PROVE  WriteSound(s, S!DeleteEdge(s, id), <<EdgeUpdate("drop", id, s.edges[id])>>)
<1> DEFINE t == S!DeleteEdges(s, {id})
           u == EdgeUpdate("drop", id, s.edges[id])
           q == <<u>>
<1>1. id \in DOMAIN s.edges /\ {id} \in SUBSET DOMAIN s.edges
  BY DEF S!HasEdge
<1>2. id \in EdgeIds /\ s.edges[id] \in EdgeRecords
  BY <1>1, StoreFields DEF StoreShape
<1>3. /\ StoreShape(t)
      /\ \A part \in Parts : IndexOf(t)[part] = IndexOf(s)[part] \ EntriesOfEdges(s, {id}, part)
  BY <1>1, DeleteEdgesSound
<1>4. /\ u \in AllUpdates /\ u.do = "drop"
      /\ \A part \in Parts : \A x, other :
            Update(other, part, x) = u
               <=> other = "drop" /\ x \in EdgeEntries(id, s.edges[id])[part]
  BY <1>2, EdgeUpdateFacts
<1>. HIDE DEF u, t
<1>5. ToSet(q) = {u} /\ q \in Seq(AllUpdates) /\ \A i \in DOMAIN q : q[i].do = "drop"
  <2>1. ToSet(q) = {u}
    BY DEF ToSet
  <2>. QED
    BY <1>4, <2>1
<1>. HIDE DEF q
<1>6. ASSUME NEW part \in Parts
      PROVE  /\ Entered("drop", q, part) = EdgeEntries(id, s.edges[id])[part]
             /\ Entered("put", q, part) = {}
  <2>1. EdgeEntries(id, s.edges[id])[part] \subseteq Universe[part]
    BY <1>2, EdgeEntriesTyped
  <2>2. \A x : Update("drop", part, x) \in ToSet(q) <=> x \in EdgeEntries(id, s.edges[id])[part]
    BY <1>4, <1>5
  <2>3. \A x : Update("put", part, x) \notin ToSet(q)
    BY <1>4, <1>5
  <2>. QED
    BY <2>1, <2>2, <2>3 DEF Entered
<1>7. \A part : EntriesOfEdges(s, {id}, part) = EdgeEntries(id, s.edges[id])[part]
  BY DEF EntriesOfEdges
<1>8. WriteSound(s, t, q)
  BY <1>3, <1>5, <1>6, <1>7, OnlyPutsLast DEF WriteSound
<1>. QED
  BY <1>8 DEF S!DeleteEdge, t, q, u

(* The edges of a vertex are among the store's.                            *)
LEMMA EdgesOfFacts ==
    ASSUME NEW s, StoreShape(s), NEW id
    PROVE  /\ S!EdgesOf(s, id, "BOTH") \in SUBSET DOMAIN s.edges
           /\ IsFiniteSet(S!EdgesOf(s, id, "BOTH"))
<1>1. S!EdgesOf(s, id, "BOTH") = (IF id \in DOMAIN s.out THEN s.out[id] ELSE {}) \cup
                                 (IF id \in DOMAIN s.in THEN s.in[id] ELSE {})
  BY DEF S!EdgesOf
<1>2. S!EdgesOf(s, id, "BOTH") \in SUBSET DOMAIN s.edges
  BY <1>1 DEF StoreShape
<1>3. DOMAIN s.edges \subseteq EdgeIds
  BY StoreFields DEF StoreShape
<1>. QED
  BY <1>2, <1>3, IdFacts, FS_Subset

LEMMA DeleteVertexSound ==
    ASSUME NEW s, StoreShape(s), NEW id \in VertexIds, S!HasVertex(s, id),
           NEW edges \in SetToSeqs(S!EdgesOf(s, id, "BOTH")),
           NEW drops \in VertexUpdates("drop", id, s.vertices[id])
    PROVE  WriteSound(s, S!DeleteVertex(S!DeleteEdges(s, S!EdgesOf(s, id, "BOTH")), id),
                      [i \in DOMAIN edges |-> EdgeUpdate("drop", edges[i], s.edges[edges[i]])]
                         \o drops)
<1> DEFINE E == S!EdgesOf(s, id, "BOTH")
           m == S!DeleteEdges(s, E)
           t == S!DeleteVertex(m, id)
           p == [i \in DOMAIN edges |-> EdgeUpdate("drop", edges[i], s.edges[edges[i]])]
           q == p \o drops
<1>1. E \in SUBSET DOMAIN s.edges /\ IsFiniteSet(E)
  BY EdgesOfFacts
<1>2. id \in DOMAIN s.vertices /\ s.vertices[id] \in Vertices
  BY StoreFields DEF StoreShape, S!HasVertex
<1>3. /\ StoreShape(m) /\ m.vertices = s.vertices
      /\ \A part \in Parts : IndexOf(m)[part] = IndexOf(s)[part] \ EntriesOfEdges(s, E, part)
  <2>. HIDE DEF E
  <2>. QED
    BY <1>1, DeleteEdgesSound
<1>. HIDE DEF m
<1>4. m \in StoreType
  BY <1>3 DEF StoreShape
<1>5. /\ t.edges = m.edges /\ t.vertices = S!Without(m.vertices, {id})
      /\ t.out = S!Without(m.out, {id}) /\ t.in = S!Without(m.in, {id})
      /\ t.nextE = m.nextE /\ t.nextV = m.nextV
  BY <1>4 DEF S!DeleteVertex, StoreType
<1>. HIDE DEF t
<1>6. /\ DOMAIN t.vertices = DOMAIN m.vertices \ {id}
      /\ \A i \in DOMAIN t.vertices : t.vertices[i] = m.vertices[i]
      /\ DOMAIN t.out = DOMAIN m.out \ {id} /\ DOMAIN t.in = DOMAIN m.in \ {id}
      /\ \A i \in DOMAIN t.out : t.out[i] = m.out[i]
      /\ \A i \in DOMAIN t.in : t.in[i] = m.in[i]
  BY <1>5 DEF S!Without
<1>7. StoreShape(t)
  <2>1. /\ m.edges \in PartialMaps(EdgeIds, EdgeRecords)
        /\ m.vertices \in PartialMaps(VertexIds, Vertices)
        /\ m.out \in PartialMaps(VertexIds, SUBSET EdgeIds)
        /\ m.in \in PartialMaps(VertexIds, SUBSET EdgeIds)
        /\ m.nextV \in Nat \ {0} /\ m.nextE \in Nat \ {0}
    BY <1>4 DEF StoreType
  <2>2. /\ t.vertices \in PartialMaps(VertexIds, Vertices)
        /\ t.out \in PartialMaps(VertexIds, SUBSET EdgeIds)
        /\ t.in \in PartialMaps(VertexIds, SUBSET EdgeIds)
    BY <1>5, <2>1, WithoutType
  <2>3. t \in StoreType
    BY <1>4, <1>5, <2>1, <2>2 DEF t, S!DeleteVertex, StoreType
  <2>. QED
    <3>1. ASSUME NEW v \in DOMAIN t.out, NEW i \in t.out[v]
          PROVE  i \in DOMAIN t.edges /\ t.edges[i].from = v
      <4>1. v \in DOMAIN m.out /\ i \in m.out[v]
        BY <1>6
      <4>2. i \in DOMAIN m.edges /\ m.edges[i].from = v
        BY <1>3, <4>1 DEF StoreShape
      <4>. QED
        BY <1>5, <4>2
    <3>2. ASSUME NEW v \in DOMAIN t.in, NEW i \in t.in[v]
          PROVE  i \in DOMAIN t.edges /\ t.edges[i].to = v
      <4>1. v \in DOMAIN m.in /\ i \in m.in[v]
        BY <1>6
      <4>2. i \in DOMAIN m.edges /\ m.edges[i].to = v
        BY <1>3, <4>1 DEF StoreShape
      <4>. QED
        BY <1>5, <4>2
    <3>3. /\ \A i \in DOMAIN t.vertices : i < t.nextV
          /\ \A i \in DOMAIN t.edges : i < t.nextE
      BY <1>3, <1>5, <1>6 DEF StoreShape
    <3>. QED
      BY <2>3, <3>1, <3>2, <3>3 DEF StoreShape
<1>8. ASSUME NEW part \in Parts
      PROVE  IndexOf(t)[part] = IndexOf(m)[part] \ VertexEntries(id, s.vertices[id])[part]
  <2>1. ASSUME NEW x
        PROVE  x \in IndexOf(t)[part] <=>
                  x \in IndexOf(m)[part] /\ x \notin VertexEntries(id, s.vertices[id])[part]
    <3>1. x \in IndexOf(t)[part] <=>
              \/ \E i \in DOMAIN s.vertices : i # id /\ x \in VertexEntries(i, s.vertices[i])[part]
              \/ \E i \in DOMAIN m.edges : x \in EdgeEntries(i, m.edges[i])[part]
      <4>1. x \in IndexOf(t)[part] <=>
                \/ \E i \in DOMAIN t.vertices : x \in VertexEntries(i, t.vertices[i])[part]
                \/ \E i \in DOMAIN t.edges : x \in EdgeEntries(i, t.edges[i])[part]
        BY IndexOfMember
      <4>2. \A i : i \in DOMAIN t.vertices <=> i \in DOMAIN s.vertices /\ i # id
        BY <1>3, <1>6
      <4>3. \A i \in DOMAIN t.vertices : t.vertices[i] = s.vertices[i]
        BY <1>3, <1>6
      <4>. QED
        BY <1>5, <4>1, <4>2, <4>3
    <3>2. x \in IndexOf(m)[part] <=>
              \/ x \in VertexEntries(id, s.vertices[id])[part]
              \/ \E i \in DOMAIN s.vertices : i # id /\ x \in VertexEntries(i, s.vertices[i])[part]
              \/ \E i \in DOMAIN m.edges : x \in EdgeEntries(i, m.edges[i])[part]
      BY <1>2, <1>3, IndexOfMember
    <3>. QED
      BY <3>1, <3>2, EntriesApart
  <2>. QED
    BY <2>1
<1>9. edges \in Seq(E) /\ \A i \in E : \E j \in DOMAIN edges : edges[j] = i
  BY <1>1, SetToSeqsLists
<1>10. /\ DOMAIN edges = 1..Len(edges) /\ Len(edges) \in Nat
       /\ \A j \in DOMAIN edges : edges[j] \in E
  BY <1>9
<1>11. ASSUME NEW i \in E
       PROVE  /\ EdgeUpdate("drop", i, s.edges[i]) \in AllUpdates
              /\ EdgeUpdate("drop", i, s.edges[i]).do = "drop"
              /\ \A part \in Parts : EdgeEntries(i, s.edges[i])[part] \subseteq Universe[part]
              /\ \A part \in Parts : \A x, other :
                    Update(other, part, x) = EdgeUpdate("drop", i, s.edges[i])
                       <=> other = "drop" /\ x \in EdgeEntries(i, s.edges[i])[part]
  <2>1. i \in EdgeIds /\ s.edges[i] \in EdgeRecords
    BY <1>1, StoreFields DEF StoreShape
  <2>. QED
    BY <2>1, EdgeUpdateFacts, EdgeEntriesTyped
<1>12. /\ p \in Seq(AllUpdates) /\ \A i \in DOMAIN p : p[i].do = "drop"
       /\ ToSet(p) = {EdgeUpdate("drop", i, s.edges[i]) : i \in E}
  <2>1. p = [j \in 1..Len(edges) |-> EdgeUpdate("drop", edges[j], s.edges[edges[j]])]
    BY <1>10
  <2>2. ToSet(p) = {EdgeUpdate("drop", edges[j], s.edges[edges[j]]) : j \in 1..Len(edges)}
    BY <2>1 DEF ToSet
  <2>. HIDE DEF E, p
  <2>3. p \in Seq(AllUpdates)
    BY <1>10, <1>11, <2>1
  <2>4. \A i \in DOMAIN p : p[i].do = "drop"
    BY <1>10, <1>11, <2>1
  <2>5. {EdgeUpdate("drop", edges[j], s.edges[edges[j]]) : j \in 1..Len(edges)}
           = {EdgeUpdate("drop", i, s.edges[i]) : i \in E}
    BY <1>9, <1>10
  <2>. QED
    BY <2>2, <2>3, <2>4, <2>5
<1>. HIDE DEF E, p
<1>13. ASSUME NEW part \in Parts
       PROVE  /\ Entered("drop", p, part) = EntriesOfEdges(s, E, part)
              /\ Entered("put", p, part) = {}
  <2>1. \A x : Update("drop", part, x) \in ToSet(p)
                  <=> \E i \in E : x \in EdgeEntries(i, s.edges[i])[part]
    BY <1>11, <1>12
  <2>2. \A x : Update("put", part, x) \notin ToSet(p)
    BY <1>11, <1>12
  <2>. QED
    BY <1>11, <2>1, <2>2 DEF Entered, EntriesOfEdges
<1>14. /\ drops \in Seq(AllUpdates) /\ \A i \in DOMAIN drops : drops[i].do = "drop"
       /\ \A part \in Parts :
             /\ Entered("drop", drops, part) = VertexEntries(id, s.vertices[id])[part]
             /\ Entered("put", drops, part) = {}
  BY <1>2, PutsAndDrops
<1>15. q \in Seq(AllUpdates)
  BY <1>12, <1>14, ConcatLists
<1>16. ASSUME NEW part \in Parts
       PROVE  /\ Entered("drop", q, part)
                    = EntriesOfEdges(s, E, part) \cup VertexEntries(id, s.vertices[id])[part]
              /\ Entered("put", q, part) = {}
  <2>1. \A do : Entered(do, q, part) = Entered(do, p, part) \cup Entered(do, drops, part)
    BY <1>12, <1>14, EnteredConcat
  <2>. HIDE DEF q
  <2>. QED
    BY <1>13, <1>14, <2>1
<1>17. PutsLast(q)
  <2>1. /\ Len(p) \in Nat /\ Len(drops) \in Nat
        /\ \A i \in DOMAIN q : \/ i \in DOMAIN p /\ q[i] = p[i]
                               \/ i - Len(p) \in DOMAIN drops /\ q[i] = drops[i - Len(p)]
    BY <1>12, <1>14
  <2>2. \A i \in DOMAIN q : q[i].do = "drop"
    BY <1>12, <1>14, <2>1
  <2>. QED
    BY <2>2, OnlyPutsLast
<1>. HIDE DEF q
<1>18. WriteSound(s, t, q)
  BY <1>3, <1>7, <1>8, <1>15, <1>16, <1>17 DEF WriteSound
<1>. QED
  BY <1>18 DEF t, q, m, E, p

(***************************************************************************)
(* Loads and rebuilds.                                                     *)
(***************************************************************************)
SnapshotShape(p) ==
    /\ p \in [vertices : PartialMaps(VertexIds, Vertices), edges : PartialMaps(EdgeIds, EdgeRecords),
              nextV : Nat \ {0}, nextE : Nat \ {0}]
    /\ \A id \in DOMAIN p.vertices : id < p.nextV
    /\ \A id \in DOMAIN p.edges : id < p.nextE

LEMMA SnapshotHasShape ==
    ASSUME NEW s, StoreShape(s)
    PROVE  SnapshotShape(S!SnapshotOf(s))
BY DEF StoreShape, StoreType, SnapshotShape, S!SnapshotOf

LEMMA EmptyStoreShape == StoreShape(S!NewMemStore)
<1>1. \A D, R : S!EmptyMap \in PartialMaps(D, R)
  <2>1. ASSUME NEW D, NEW R
        PROVE  S!EmptyMap \in PartialMaps(D, R)
    <3>1. {} \in SUBSET D /\ S!EmptyMap \in [{} -> R]
      BY DEF S!EmptyMap
    <3>. QED
      BY <3>1, PartialMapFacts
  <2>. QED
    BY <2>1
<1>2. DOMAIN S!EmptyMap = {}
  BY DEF S!EmptyMap
<1>. QED
  BY <1>1, <1>2 DEF S!NewMemStore, StoreShape, StoreType

LEMMA EmptyIndex ==
    ASSUME NEW part \in Parts
    PROVE  IndexOf(S!NewMemStore)[part] = {}
<1>1. DOMAIN S!NewMemStore.vertices = {} /\ DOMAIN S!NewMemStore.edges = {}
  BY DEF S!NewMemStore, S!EmptyMap
<1>. QED
  BY <1>1, IndexOfMember

(* A recorded counter above every id is what Reset ends with.              *)
LEMMA NextAfterRecorded ==
    ASSUME NEW ids \in SUBSET Nat, NEW n \in Nat \ {0}, \A i \in ids : i < n
    PROVE  S!NextAfter(ids, S!Raise(1, n)) = n
<1>1. S!Raise(1, n) = n
  BY DEF S!Raise
<1> DEFINE Bounds == {n} \cup {i + 1 : i \in ids}
<1>2. n \in Bounds /\ n >= n /\ \A i \in ids : i < n
  OBVIOUS
<1>3. ASSUME NEW m \in Bounds, m >= n
      PROVE  m = n
  BY <1>3
<1>4. (CHOOSE m \in Bounds : m >= n /\ \A i \in ids : i < m) = n
  BY <1>2, <1>3
<1>. QED
  BY <1>1, <1>4 DEF S!NextAfter

LEMMA ResetHasShape ==
    ASSUME NEW p, SnapshotShape(p)
    PROVE  StoreShape(S!Reset(p))
<1> DEFINE t == S!Reset(p)
           outs == [v \in DOMAIN p.vertices |-> {e \in DOMAIN p.edges : p.edges[e].from = v}]
           ins == [v \in DOMAIN p.vertices |-> {e \in DOMAIN p.edges : p.edges[e].to = v}]
<1>1. /\ p.vertices \in PartialMaps(VertexIds, Vertices) /\ p.edges \in PartialMaps(EdgeIds, EdgeRecords)
      /\ p.nextV \in Nat \ {0} /\ p.nextE \in Nat \ {0}
      /\ \A id \in DOMAIN p.vertices : id < p.nextV
      /\ \A id \in DOMAIN p.edges : id < p.nextE
  BY DEF SnapshotShape
<1>2. DOMAIN p.vertices \subseteq VertexIds /\ DOMAIN p.edges \subseteq EdgeIds
  BY <1>1, PartialMapFacts
<1>3. t = [vertices |-> p.vertices, edges |-> p.edges, out |-> outs, in |-> ins,
           nextV |-> S!NextAfter(DOMAIN p.vertices, S!Raise(1, p.nextV)),
           nextE |-> S!NextAfter(DOMAIN p.edges, S!Raise(1, p.nextE))]
  BY DEF S!Reset
<1>. HIDE DEF t
<1>4. t.nextV = p.nextV
  <2>1. DOMAIN p.vertices \in SUBSET Nat
    BY <1>2, IdFacts
  <2>. QED
    BY <1>1, <1>3, <2>1, NextAfterRecorded
<1>5. t.nextE = p.nextE
  <2>1. DOMAIN p.edges \in SUBSET Nat
    BY <1>2, IdFacts
  <2>. QED
    BY <1>1, <1>3, <2>1, NextAfterRecorded
<1>6. outs \in PartialMaps(VertexIds, SUBSET EdgeIds) /\ ins \in PartialMaps(VertexIds, SUBSET EdgeIds)
  <2>1. outs \in [DOMAIN p.vertices -> SUBSET EdgeIds] /\ ins \in [DOMAIN p.vertices -> SUBSET EdgeIds]
    BY <1>2
  <2>. HIDE DEF outs, ins
  <2>. QED
    BY <1>2, <2>1, PartialMapFacts
<1>7. /\ \A v \in DOMAIN outs : \A e \in outs[v] : e \in DOMAIN p.edges /\ p.edges[e].from = v
      /\ \A v \in DOMAIN ins : \A e \in ins[v] : e \in DOMAIN p.edges /\ p.edges[e].to = v
  OBVIOUS
<1>. HIDE DEF outs, ins
<1>8. /\ t.vertices = p.vertices /\ t.edges = p.edges /\ t.out = outs /\ t.in = ins
  BY <1>3
<1>9. t \in StoreType
  BY <1>1, <1>3, <1>4, <1>5, <1>6 DEF StoreType
<1>10. StoreShape(t)
  BY <1>1, <1>4, <1>5, <1>7, <1>8, <1>9 DEF StoreShape
<1>. QED
  BY <1>10 DEF t

(* All that a rebuild does is enter.                                       *)
OnlyPuts(q) == \A u \in ToSet(q) : u.do = "put"

LEMMA InOrderLists ==
    ASSUME NEW A \in SUBSET Nat, IsFiniteSet(A)
    PROVE  /\ InOrder(A) \in Seq(A)
           /\ \A x \in A : \E i \in DOMAIN InOrder(A) : InOrder(A)[i] = x
<1>1. \E s \in SetToSeqs(A) : \A i, j \in DOMAIN s : i < j => s[i] < s[j]
  BY SortedListing
<1>2. InOrder(A) \in SetToSeqs(A)
  BY <1>1 DEF InOrder
<1>. QED
  BY <1>2, SetToSeqsLists

LEMMA VerticesRead ==
    ASSUME NEW s, StoreShape(s),
           NEW updates \in [DOMAIN InOrder(DOMAIN s.vertices) ->
                              UNION {VertexUpdates("put", id, s.vertices[id]) : id \in DOMAIN s.vertices}],
           \A i \in DOMAIN InOrder(DOMAIN s.vertices) :
              updates[i] \in VertexUpdates("put", InOrder(DOMAIN s.vertices)[i],
                                           s.vertices[InOrder(DOMAIN s.vertices)[i]])
    PROVE  /\ FlattenSeq(updates) \in Seq(AllUpdates) /\ OnlyPuts(FlattenSeq(updates))
           /\ \A part \in Parts \ {"edges"} : IndexOf(s)[part] \subseteq Entered("put", FlattenSeq(updates), part)
<1> DEFINE A == DOMAIN s.vertices
           ids == InOrder(A)
           flat == FlattenSeq(updates)
<1>1. A \subseteq VertexIds /\ \A id \in A : s.vertices[id] \in Vertices
  BY StoreFields DEF StoreShape
<1>2. A \in SUBSET Nat /\ IsFiniteSet(A)
  BY <1>1, IdFacts, FS_Subset
<1>3. ids \in Seq(A) /\ \A id \in A : \E i \in DOMAIN ids : ids[i] = id
  <2>. HIDE DEF A
  <2>. QED
    BY <1>2, InOrderLists
<1>4. /\ DOMAIN updates = DOMAIN ids
      /\ \A i \in DOMAIN ids : updates[i] \in VertexUpdates("put", ids[i], s.vertices[ids[i]])
  OBVIOUS
<1>. HIDE DEF ids, A
<1>5. DOMAIN ids = 1..Len(ids) /\ Len(ids) \in Nat /\ \A i \in DOMAIN ids : ids[i] \in A
  BY <1>3
<1>6. ASSUME NEW i \in DOMAIN ids
      PROVE  /\ updates[i] \in Seq(AllUpdates) /\ \A j \in DOMAIN updates[i] : updates[i][j].do = "put"
             /\ \A part \in Parts : Entered("put", updates[i], part)
                                       = VertexEntries(ids[i], s.vertices[ids[i]])[part]
  <2>1. ids[i] \in VertexIds /\ s.vertices[ids[i]] \in Vertices
    BY <1>1, <1>5
  <2>. QED
    BY <1>4, <2>1, PutsAndDrops
<1>7. updates \in Seq(Seq(AllUpdates))
  <2>1. updates = [i \in 1..Len(ids) |-> updates[i]]
    BY <1>4, <1>5
  <2>. QED
    BY <1>5, <1>6, <2>1
<1>8. /\ flat \in Seq(AllUpdates)
      /\ ToSet(flat) = UNION {ToSet(updates[i]) : i \in DOMAIN updates}
  BY <1>7, FlattenSeqLists
<1>. HIDE DEF flat
<1>9. OnlyPuts(flat)
  <2>1. \A i \in DOMAIN ids : \A u \in ToSet(updates[i]) : u.do = "put"
    BY <1>6 DEF ToSet
  <2>. QED
    BY <1>4, <1>8, <2>1 DEF OnlyPuts
<1>10. ASSUME NEW part \in Parts \ {"edges"}, NEW x \in IndexOf(s)[part]
       PROVE  x \in Entered("put", flat, part)
  <2>1. PICK id \in A : x \in VertexEntries(id, s.vertices[id])[part]
    <3>1. \A id, e : x \notin EdgeEntries(id, e)[part]
      BY DEF EdgeEntries, Parts
    <3>. QED
      BY <3>1, IndexOfMember DEF A
  <2>2. PICK i \in DOMAIN ids : ids[i] = id
    BY <1>3
  <2>3. x \in Entered("put", updates[i], part)
    BY <1>6, <2>1, <2>2
  <2>. QED
    BY <1>4, <1>8, <2>3 DEF Entered
<1>. QED
  BY <1>8, <1>9, <1>10 DEF flat

LEMMA EdgesRead ==
    ASSUME NEW s, StoreShape(s)
    PROVE  LET ids == InOrder(DOMAIN s.edges)
               q == [i \in DOMAIN ids |-> EdgeUpdate("put", ids[i], s.edges[ids[i]])]
           IN  /\ q \in Seq(AllUpdates) /\ OnlyPuts(q)
               /\ IndexOf(s)["edges"] \subseteq Entered("put", q, "edges")
<1> DEFINE A == DOMAIN s.edges
           ids == InOrder(A)
           q == [i \in DOMAIN ids |-> EdgeUpdate("put", ids[i], s.edges[ids[i]])]
<1>1. A \subseteq EdgeIds /\ \A id \in A : s.edges[id] \in EdgeRecords
  BY StoreFields DEF StoreShape
<1>2. A \in SUBSET Nat /\ IsFiniteSet(A)
  BY <1>1, IdFacts, FS_Subset
<1>3. ids \in Seq(A) /\ \A id \in A : \E i \in DOMAIN ids : ids[i] = id
  <2>. HIDE DEF A
  <2>. QED
    BY <1>2, InOrderLists
<1>. HIDE DEF ids, A
<1>4. DOMAIN ids = 1..Len(ids) /\ Len(ids) \in Nat /\ \A i \in DOMAIN ids : ids[i] \in A
  BY <1>3
<1>5. ASSUME NEW i \in DOMAIN ids
      PROVE  /\ EdgeUpdate("put", ids[i], s.edges[ids[i]]) \in AllUpdates
             /\ EdgeUpdate("put", ids[i], s.edges[ids[i]]).do = "put"
  <2>1. ids[i] \in EdgeIds /\ s.edges[ids[i]] \in EdgeRecords
    BY <1>1, <1>4
  <2>. QED
    BY <2>1, EdgeUpdateFacts
<1>6. q = [i \in 1..Len(ids) |-> EdgeUpdate("put", ids[i], s.edges[ids[i]])]
  BY <1>4
<1>7. q \in Seq(AllUpdates) /\ OnlyPuts(q)
  <2>1. \A i \in DOMAIN q : q[i].do = "put"
    BY <1>4, <1>5, <1>6
  <2>2. q \in Seq(AllUpdates)
    BY <1>4, <1>5, <1>6
  <2>. QED
    BY <2>1, <2>2 DEF OnlyPuts, ToSet
<1>8. ASSUME NEW x \in IndexOf(s)["edges"]
      PROVE  x \in Entered("put", q, "edges")
  <2>1. PICK id \in A : x \in EdgeEntries(id, s.edges[id])["edges"]
    <3>1. \A id, v : x \notin VertexEntries(id, v)["edges"]
      BY DEF VertexEntries
    <3>. QED
      BY <3>1, IndexOfMember DEF A, Parts
  <2>2. PICK i \in DOMAIN ids : ids[i] = id
    BY <1>3
  <2>3. q[i] = EdgeUpdate("put", id, s.edges[id]) /\ q[i] \in ToSet(q)
    BY <1>4, <2>2 DEF ToSet
  <2>4. id \in EdgeIds /\ s.edges[id] \in EdgeRecords
    BY <1>1
  <2>5. Update("put", "edges", x) = EdgeUpdate("put", id, s.edges[id])
    BY <2>1, <2>4, EdgeUpdateFacts DEF Parts
  <2>6. x \in Universe["edges"]
    BY <2>1, <2>4, EdgeEntriesTyped DEF Parts
  <2>. QED
    BY <2>3, <2>5, <2>6 DEF Entered
<1>. QED
  BY <1>7, <1>8 DEF q, ids, A

(***************************************************************************)
(* The inductive invariant.                                                *)
(***************************************************************************)
Stages == {"idle", "labels", "props", "ranges", "edges", "read", "vertices", "reindex"}

TypeInv ==
    /\ StoreShape(store) /\ SnapshotShape(saved)
    /\ todo \in Seq(AllUpdates) /\ PutsLast(todo)
    /\ index \in Entries
    /\ \A part \in Parts : IsFiniteSet(index[part])
    /\ rebuild \in [Rebuilders -> [pc : Stages, todo : Seq(AllUpdates)]]
    /\ \A r \in Rebuilders :
          /\ OnlyPuts(rebuild[r].todo)
          /\ rebuild[r].pc \notin {"vertices", "reindex"} => rebuild[r].todo = <<>>

(* A rebuild that has yet to read what belongs in an index.                *)
Waiting(r, part) ==
    \/ rebuild[r].pc \in {"labels", "props", "ranges", "edges", "read"}
    \/ part = "edges" /\ rebuild[r].pc = "vertices"

(* What the rebuilds have read and will still enter.                       *)
Coming(part) == UNION {Entered("put", rebuild[r].todo, part) : r \in Rebuilders}

(* Every entry of the graph is in the index and stays, or is on its way    *)
(* there, unless a rebuild has yet to read it.                             *)
Covered(part) ==
    \/ \E r \in Rebuilders : Waiting(r, part)
    \/ IndexOf(store)[part] \subseteq
          Entered("put", todo, part)
             \cup ((index[part] \cup Coming(part)) \ Entered("drop", todo, part))

(* Without rebuilds the updates the writer has left turn the index into    *)
(* that of its graph.                                                      *)
Exact(part) ==
    /\ IndexOf(store)[part] =
          (index[part] \ Entered("drop", todo, part)) \cup Entered("put", todo, part)
    /\ index[part] \subseteq IndexOf(before)[part] \cup IndexOf(store)[part]

IndInv ==
    /\ TypeInv
    /\ \A part \in Parts : Covered(part)
    /\ Rebuilders = {} => \A part \in Parts : Exact(part)

LEMMA EntriesFields ==
    \A ix \in Entries :
       /\ DOMAIN ix = Parts
       /\ \A part \in Parts : ix[part] \subseteq Universe[part]
BY DEF Entries, Parts, Universe

LEMMA PerformFacts ==
    ASSUME NEW ix \in Entries, \A part \in Parts : IsFiniteSet(ix[part]), NEW u \in AllUpdates
    PROVE  /\ Perform(ix, u) \in Entries
           /\ \A part \in Parts : IsFiniteSet(Perform(ix, u)[part])
           /\ \A part \in Parts :
                 Perform(ix, u)[part] =
                    IF part # u.part THEN ix[part]
                    ELSE IF u.do = "put" THEN ix[part] \cup {u.entry} ELSE ix[part] \ {u.entry}
<1>1. u.part \in Parts /\ u.entry \in Universe[u.part]
  BY UpdateFacts
<1>2. DOMAIN ix = Parts /\ \A part \in Parts : ix[part] \subseteq Universe[part]
  BY EntriesFields
<1> DEFINE new == IF u.do = "put" THEN ix[u.part] \cup {u.entry} ELSE ix[u.part] \ {u.entry}
<1>3. new \in SUBSET Universe[u.part] /\ IsFiniteSet(new)
  <2>1. IsFiniteSet(ix[u.part] \cup {u.entry}) /\ IsFiniteSet(ix[u.part] \ {u.entry})
    BY <1>1, FS_AddElement, FS_RemoveElement
  <2>. QED
    BY <1>1, <1>2, <2>1
<1>4. Perform(ix, u) = [ix EXCEPT ![u.part] = new]
  BY DEF Perform
<1>. HIDE DEF new
<1>5. Perform(ix, u) \in Entries
  <2>1. u.part = "labels" \/ u.part = "props" \/ u.part = "ranges" \/ u.part = "edges"
    BY <1>1 DEF Parts
  <2>. QED
    BY <1>3, <1>4, <2>1 DEF Entries, Universe
<1>6. \A part \in Parts : Perform(ix, u)[part] = IF part = u.part THEN new ELSE ix[part]
  BY <1>2, <1>4
<1>. QED
  BY <1>3, <1>5, <1>6 DEF new

LEMMA InitInv == Init => IndInv
<1>. SUFFICES ASSUME Init PROVE IndInv
  OBVIOUS
<1>1. StoreShape(store) /\ SnapshotShape(saved)
  BY EmptyStoreShape, SnapshotHasShape DEF Init
<1>2. todo \in Seq(AllUpdates) /\ PutsLast(todo)
  BY DEF Init, PutsLast
<1>3. \A part \in Parts : index[part] = {} /\ IndexOf(store)[part] = {}
  BY EmptyIndex DEF Init
<1>4. index \in Entries
  BY <1>3 DEF Init, IndexOf, Entries, Parts
<1>5. \A part \in Parts : IsFiniteSet(index[part])
  BY <1>3, FS_EmptySet
<1>6. /\ rebuild \in [Rebuilders -> [pc : Stages, todo : Seq(AllUpdates)]]
      /\ \A r \in Rebuilders : rebuild[r].todo = <<>>
  BY DEF Init, Stages
<1>7. OnlyPuts(<<>>)
  BY DEF OnlyPuts, ToSet
<1>8. TypeInv
  BY <1>1, <1>2, <1>4, <1>5, <1>6, <1>7 DEF TypeInv
<1>9. \A part \in Parts : Covered(part)
  BY <1>3 DEF Covered
<1>10. \A part \in Parts : Exact(part)
  BY <1>3, EnteredEmpty DEF Exact, Init
<1>. QED
  BY <1>8, <1>9, <1>10 DEF IndInv

(* A write that announces all it changes.                                  *)
LEMMA WriteStep ==
    ASSUME IndInv, NEW new, NEW updates, WriteSound(store, new, updates), Write(new, updates)
    PROVE  IndInv'
<1>1. /\ todo = <<>> /\ store' = new /\ before' = store /\ todo' = updates
      /\ index' = index /\ saved' = saved /\ rebuild' = rebuild
  BY DEF Write, GraphFree
<1>2. TypeInv'
  BY <1>1 DEF IndInv, TypeInv, WriteSound
<1>3. \A part \in Parts : \A do : Entered(do, todo, part) = {}
  BY <1>1, EnteredEmpty
<1>4. ASSUME NEW part \in Parts
      PROVE  /\ IndexOf(store')[part] =
                   (IndexOf(store)[part] \ Entered("drop", todo', part)) \cup Entered("put", todo', part)
             /\ Coming(part)' = Coming(part)
             /\ \A r \in Rebuilders : Waiting(r, part)' <=> Waiting(r, part)
  BY <1>1 DEF WriteSound, Coming, Waiting
<1>5. ASSUME NEW part \in Parts
      PROVE  Covered(part)'
  <2>1. CASE \E r \in Rebuilders : Waiting(r, part)
    BY <1>4, <2>1 DEF Covered
  <2>2. CASE ~\E r \in Rebuilders : Waiting(r, part)
    <3>1. IndexOf(store)[part] \subseteq index[part] \cup Coming(part)
      BY <1>3, <2>2 DEF IndInv, Covered
    <3>. QED
      BY <1>1, <1>4, <3>1 DEF Covered
  <2>. QED
    BY <2>1, <2>2
<1>6. ASSUME Rebuilders = {}, NEW part \in Parts
      PROVE  Exact(part)'
  <2>1. IndexOf(store)[part] = index[part]
    BY <1>3, <1>6 DEF IndInv, Exact
  <2>. QED
    BY <1>1, <1>4, <2>1 DEF Exact
<1>. QED
  BY <1>2, <1>5, <1>6 DEF IndInv

(* One update of the writer.                                               *)
LEMMA NotifyStep ==
    ASSUME IndInv, Notify
    PROVE  IndInv'
<1> DEFINE u == Head(todo)
<1>1. /\ todo # <<>> /\ index' = Perform(index, u) /\ todo' = Tail(todo)
      /\ store' = store /\ before' = before /\ saved' = saved /\ rebuild' = rebuild
  BY DEF Notify, GraphFree
<1>2. todo \in Seq(AllUpdates) /\ PutsLast(todo) /\ index \in Entries
      /\ \A part \in Parts : IsFiniteSet(index[part])
  BY DEF IndInv, TypeInv
<1>3. /\ u \in AllUpdates /\ Tail(todo) \in Seq(AllUpdates)
      /\ \A i \in DOMAIN Tail(todo) : i + 1 \in DOMAIN todo /\ Tail(todo)[i] = todo[i + 1]
      /\ 1 \in DOMAIN todo /\ u = todo[1] /\ ToSet(todo) = {u} \cup ToSet(Tail(todo))
  BY <1>1, <1>2, HeadAndTail
<1>4. u.do \in {"put", "drop"}
  BY <1>3, UpdateFacts
<1>. HIDE DEF u
<1>5. PutsLast(Tail(todo))
  <2>1. \A i \in DOMAIN Tail(todo) : i \in Nat
    BY <1>3
  <2>2. \A i, j \in DOMAIN Tail(todo) : i < j => i + 1 < j + 1
    BY <2>1
  <2>. QED
    BY <1>2, <1>3, <2>2 DEF PutsLast
<1>6. u.do = "put" => \A part : Entered("drop", todo, part) = {}
  <2>. SUFFICES ASSUME u.do = "put", NEW part PROVE Entered("drop", todo, part) = {}
    OBVIOUS
  <2>1. \A i \in DOMAIN todo : i \in Nat /\ (i = 1 \/ 1 < i)
    BY <1>2
  <2>2. \A i \in DOMAIN todo : todo[i].do = "put"
    BY <1>2, <1>3, <2>1 DEF PutsLast
  <2>3. \A x : Update("drop", part, x).do = "drop"
    BY DEF Update
  <2>. QED
    BY <2>2, <2>3 DEF Entered, ToSet
<1>7. /\ index' \in Entries /\ \A part \in Parts : IsFiniteSet(index'[part])
      /\ \A part \in Parts :
            index'[part] =
               IF part # u.part THEN index[part]
               ELSE IF u.do = "put" THEN index[part] \cup {u.entry} ELSE index[part] \ {u.entry}
  <2>1. /\ Perform(index, u) \in Entries /\ \A part \in Parts : IsFiniteSet(Perform(index, u)[part])
        /\ \A part \in Parts :
              Perform(index, u)[part] =
                 IF part # u.part THEN index[part]
                 ELSE IF u.do = "put" THEN index[part] \cup {u.entry} ELSE index[part] \ {u.entry}
    BY <1>2, <1>3, PerformFacts
  <2>. QED
    BY <1>1, <2>1
<1>8. TypeInv'
  BY <1>1, <1>3, <1>5, <1>7 DEF IndInv, TypeInv
<1> DEFINE Moved(part) == {x \in {u.entry} : u.part = part}
<1>9. ASSUME NEW part \in Parts
      PROVE  /\ u.do = "put" =>
                   /\ Entered("drop", todo, part) = {} /\ Entered("drop", todo', part) = {}
                   /\ Entered("put", todo, part) = Entered("put", todo', part) \cup Moved(part)
                   /\ index'[part] = index[part] \cup Moved(part)
             /\ u.do = "drop" =>
                   /\ Entered("put", todo, part) = Entered("put", todo', part)
                   /\ Entered("drop", todo, part) = Entered("drop", todo', part) \cup Moved(part)
                   /\ index'[part] = index[part] \ Moved(part)
  <2>1. \A do : Entered(do, todo, part) =
           Entered(do, todo', part) \cup {x \in {u.entry} : u.do = do /\ u.part = part}
    BY <1>1, <1>2, EnteredHeadTail DEF u
  <2>2. index'[part] = IF part # u.part THEN index[part]
                       ELSE IF u.do = "put" THEN index[part] \cup {u.entry} ELSE index[part] \ {u.entry}
    BY <1>7
  <2>. QED
    BY <1>6, <2>1, <2>2
<1>. HIDE DEF Moved
<1>10. \A part \in Parts : /\ Coming(part)' = Coming(part)
                           /\ \A r \in Rebuilders : Waiting(r, part)' <=> Waiting(r, part)
  BY <1>1 DEF Coming, Waiting
<1>11. ASSUME NEW part \in Parts
       PROVE  Covered(part)'
  <2>1. CASE \E r \in Rebuilders : Waiting(r, part)
    BY <1>10, <2>1 DEF Covered
  <2>2. CASE ~\E r \in Rebuilders : Waiting(r, part)
    <3>1. IndexOf(store)[part] \subseteq
             Entered("put", todo, part) \cup
             ((index[part] \cup Coming(part)) \ Entered("drop", todo, part))
      BY <2>2 DEF IndInv, Covered
    <3>2. CASE u.do = "put"
      BY <1>1, <1>9, <1>10, <3>1, <3>2 DEF Covered
    <3>3. CASE u.do = "drop"
      BY <1>1, <1>9, <1>10, <3>1, <3>3 DEF Covered
    <3>. QED
      BY <1>4, <3>2, <3>3
  <2>. QED
    BY <2>1, <2>2
<1>12. ASSUME Rebuilders = {}, NEW part \in Parts
       PROVE  Exact(part)'
  <2>1. /\ IndexOf(store)[part] =
              (index[part] \ Entered("drop", todo, part)) \cup Entered("put", todo, part)
        /\ index[part] \subseteq IndexOf(before)[part] \cup IndexOf(store)[part]
    BY <1>12 DEF IndInv, Exact
  <2>2. CASE u.do = "put"
    BY <1>1, <1>9, <2>1, <2>2 DEF Exact
  <2>3. CASE u.do = "drop"
    BY <1>1, <1>9, <2>1, <2>3 DEF Exact
  <2>. QED
    BY <1>4, <2>2, <2>3
<1>. QED
  BY <1>8, <1>11, <1>12 DEF IndInv

(***************************************************************************)
(* The steps of a rebuild.                                                 *)
(***************************************************************************)
LEMMA MoveFacts ==
    ASSUME TypeInv, NEW r \in Rebuilders, NEW from, NEW to \in Stages,
           NEW q \in Seq(AllUpdates), OnlyPuts(q), to \notin {"vertices", "reindex"} => q = <<>>,
           Move(r, from, to, q)
    PROVE  /\ rebuild[r].pc = from
           /\ rebuild'[r].pc = to /\ rebuild'[r].todo = q
           /\ \A other \in Rebuilders \ {r} : rebuild'[other] = rebuild[other]
           /\ rebuild' \in [Rebuilders -> [pc : Stages, todo : Seq(AllUpdates)]]
           /\ \A x \in Rebuilders :
                 /\ OnlyPuts(rebuild'[x].todo)
                 /\ rebuild'[x].pc \notin {"vertices", "reindex"} => rebuild'[x].todo = <<>>
<1>1. /\ rebuild[r].pc = from /\ rebuild' = [rebuild EXCEPT ![r] = [pc |-> to, todo |-> q]]
      /\ rebuild \in [Rebuilders -> [pc : Stages, todo : Seq(AllUpdates)]]
  BY DEF Move, TypeInv
<1>2. /\ rebuild'[r].pc = to /\ rebuild'[r].todo = q
      /\ \A other \in Rebuilders \ {r} : rebuild'[other] = rebuild[other]
      /\ rebuild' \in [Rebuilders -> [pc : Stages, todo : Seq(AllUpdates)]]
  BY <1>1
<1>3. ASSUME NEW x \in Rebuilders
      PROVE  /\ OnlyPuts(rebuild'[x].todo)
             /\ rebuild'[x].pc \notin {"vertices", "reindex"} => rebuild'[x].todo = <<>>
  <2>1. CASE x = r
    BY <1>2, <2>1
  <2>2. CASE x # r
    BY <1>2, <2>2 DEF TypeInv
  <2>. QED
    BY <2>1, <2>2
<1>. QED
  BY <1>1, <1>2, <1>3

LEMMA NothingToDo == <<>> \in Seq(AllUpdates) /\ OnlyPuts(<<>>)
BY DEF OnlyPuts, ToSet

(* A rebuild that has just begun, or goes on clearing, has all to read.    *)
LEMMA WaitingStep ==
    ASSUME IndInv, NEW r \in Rebuilders, NEW from,
           NEW to \in {"labels", "props", "ranges", "edges", "read"}, Move(r, from, to, <<>>),
           StoreShape(store'), SnapshotShape(saved'), todo' = todo,
           index' \in Entries, \A part \in Parts : IsFiniteSet(index'[part])
    PROVE  IndInv'
<1>1. to \in Stages /\ to \notin {"vertices", "reindex"}
  BY DEF Stages
<1>2. TypeInv
  BY DEF IndInv
<1>3. /\ rebuild'[r].pc = to
      /\ rebuild' \in [Rebuilders -> [pc : Stages, todo : Seq(AllUpdates)]]
      /\ \A x \in Rebuilders :
            /\ OnlyPuts(rebuild'[x].todo)
            /\ rebuild'[x].pc \notin {"vertices", "reindex"} => rebuild'[x].todo = <<>>
  BY <1>1, <1>2, NothingToDo, MoveFacts
<1>4. TypeInv'
  BY <1>2, <1>3 DEF TypeInv
<1>5. \A part : Waiting(r, part)'
  BY <1>3 DEF Waiting
<1>. QED
  BY <1>4, <1>5 DEF IndInv, Covered

LEMMA SaveStep ==
    ASSUME IndInv, Save
    PROVE  IndInv'
<1>1. /\ saved' = S!SnapshotOf(store) /\ store' = store /\ before' = before /\ todo' = todo
      /\ index' = index /\ rebuild' = rebuild
  BY DEF Save
<1>2. SnapshotShape(saved')
  BY <1>1, SnapshotHasShape DEF IndInv, TypeInv
<1>3. TypeInv'
  BY <1>1, <1>2 DEF IndInv, TypeInv
<1>4. \A part \in Parts : Covered(part)'
  BY <1>1 DEF IndInv, Covered, Coming, Waiting
<1>5. Rebuilders = {} => \A part \in Parts : Exact(part)'
  BY <1>1 DEF IndInv, Exact
<1>. QED
  BY <1>3, <1>4, <1>5 DEF IndInv

LEMMA StartStep ==
    ASSUME IndInv, NEW r \in Rebuilders, StartRebuild(r)
    PROVE  IndInv'
<1>1. /\ Move(r, "idle", "labels", <<>>) /\ store' = store /\ saved' = saved /\ todo' = todo
      /\ index' = index
  BY DEF StartRebuild, graph
<1>. QED
  BY <1>1, WaitingStep DEF IndInv, TypeInv

LEMMA LoadStep ==
    ASSUME IndInv, NEW r \in Rebuilders, Load(r)
    PROVE  IndInv'
<1>1. /\ Move(r, "idle", "labels", <<>>) /\ store' = S!Reset(saved) /\ saved' = saved /\ todo' = todo
      /\ index' = index
  BY DEF Load
<1>2. StoreShape(store')
  BY <1>1, ResetHasShape DEF IndInv, TypeInv
<1>. QED
  BY <1>1, <1>2, WaitingStep DEF IndInv, TypeInv

LEMMA ClearStep ==
    ASSUME IndInv, NEW r \in Rebuilders, Clear(r)
    PROVE  IndInv'
<1> DEFINE part == rebuild[r].pc
<1>1. /\ part \in {"labels", "props", "ranges", "edges"}
      /\ Move(r, part, ClearNext[part], <<>>)
      /\ index' = [index EXCEPT ![part] = {}]
      /\ store' = store /\ saved' = saved /\ todo' = todo
  BY DEF Clear, ClearNext, graph
<1>2. ClearNext[part] \in {"props", "ranges", "edges", "read"}
  BY <1>1 DEF ClearNext
<1>3. index \in Entries /\ \A p \in Parts : IsFiniteSet(index[p])
  BY DEF IndInv, TypeInv
<1>. HIDE DEF part
<1>4. index' \in Entries
  BY <1>1, <1>3 DEF Entries
<1>5. \A p \in Parts : index'[p] = IF p = part THEN {} ELSE index[p]
  BY <1>1, <1>3, EntriesFields
<1>6. \A p \in Parts : IsFiniteSet(index'[p])
  BY <1>3, <1>5, FS_EmptySet
<1>. QED
  BY <1>1, <1>2, <1>4, <1>6, WaitingStep DEF IndInv, TypeInv

LEMMA ReadVerticesStep ==
    ASSUME IndInv, NEW r \in Rebuilders, ReadVertices(r)
    PROVE  IndInv'
<1>1. PICK updates \in [DOMAIN InOrder(DOMAIN store.vertices) ->
                           UNION {VertexUpdates("put", id, store.vertices[id]) : id \in DOMAIN store.vertices}] :
         /\ \A i \in DOMAIN InOrder(DOMAIN store.vertices) :
               updates[i] \in VertexUpdates("put", InOrder(DOMAIN store.vertices)[i],
                                            store.vertices[InOrder(DOMAIN store.vertices)[i]])
         /\ Move(r, "read", "vertices", FlattenSeq(updates))
  BY DEF ReadVertices
<1> DEFINE q == FlattenSeq(updates)
<1>2. /\ todo = <<>> /\ todo' = todo /\ store' = store /\ saved' = saved /\ index' = index
  BY DEF ReadVertices, GraphFree, graph
<1>3. TypeInv /\ StoreShape(store)
  BY DEF IndInv, TypeInv
<1>4. /\ q \in Seq(AllUpdates) /\ OnlyPuts(q)
      /\ \A part \in Parts \ {"edges"} : IndexOf(store)[part] \subseteq Entered("put", q, part)
  BY <1>1, <1>3, VerticesRead
<1>5. Move(r, "read", "vertices", q) /\ "vertices" \in Stages
  BY <1>1 DEF Stages
<1>. HIDE DEF q
<1>6. /\ rebuild'[r].pc = "vertices" /\ rebuild'[r].todo = q
      /\ rebuild' \in [Rebuilders -> [pc : Stages, todo : Seq(AllUpdates)]]
      /\ \A x \in Rebuilders :
            /\ OnlyPuts(rebuild'[x].todo)
            /\ rebuild'[x].pc \notin {"vertices", "reindex"} => rebuild'[x].todo = <<>>
  BY <1>3, <1>4, <1>5, MoveFacts
<1>7. TypeInv'
  BY <1>2, <1>3, <1>6 DEF TypeInv
<1>8. ASSUME NEW part \in Parts
      PROVE  Covered(part)'
  <2>1. CASE part = "edges"
    BY <1>6, <2>1 DEF Covered, Waiting
  <2>2. CASE part # "edges"
    <3>1. IndexOf(store)[part] \subseteq Coming(part)'
      BY <1>4, <1>6, <2>2 DEF Coming
    <3>2. Entered("drop", todo', part) = {}
      BY <1>2, EnteredEmpty
    <3>. QED
      BY <1>2, <3>1, <3>2 DEF Covered
  <2>. QED
    BY <2>1, <2>2
<1>. QED
  BY <1>7, <1>8 DEF IndInv

LEMMA ReadEdgesStep ==
    ASSUME IndInv, NEW r \in Rebuilders, ReadEdges(r)
    PROVE  IndInv'
<1> DEFINE ids == InOrder(DOMAIN store.edges)
           q == [i \in DOMAIN ids |-> EdgeUpdate("put", ids[i], store.edges[ids[i]])]
<1>1. /\ todo = <<>> /\ todo' = todo /\ store' = store /\ saved' = saved /\ index' = index
      /\ rebuild[r].todo = <<>> /\ Move(r, "vertices", "reindex", q)
  BY DEF ReadEdges, GraphFree, graph
<1>2. TypeInv /\ StoreShape(store)
  BY DEF IndInv, TypeInv
<1>3. /\ q \in Seq(AllUpdates) /\ OnlyPuts(q)
      /\ IndexOf(store)["edges"] \subseteq Entered("put", q, "edges")
  BY <1>2, EdgesRead
<1>. HIDE DEF q
<1>4. "reindex" \in Stages
  BY DEF Stages
<1>5. /\ rebuild[r].pc = "vertices" /\ rebuild'[r].pc = "reindex" /\ rebuild'[r].todo = q
      /\ \A other \in Rebuilders \ {r} : rebuild'[other] = rebuild[other]
      /\ rebuild' \in [Rebuilders -> [pc : Stages, todo : Seq(AllUpdates)]]
      /\ \A x \in Rebuilders :
            /\ OnlyPuts(rebuild'[x].todo)
            /\ rebuild'[x].pc \notin {"vertices", "reindex"} => rebuild'[x].todo = <<>>
  BY <1>1, <1>2, <1>3, <1>4, MoveFacts
<1>6. TypeInv'
  BY <1>1, <1>2, <1>5 DEF TypeInv
<1>7. ASSUME NEW part \in Parts
      PROVE  Covered(part)'
  <2>1. Entered("drop", todo', part) = {} /\ Entered("drop", todo, part) = {}
        /\ Entered("put", todo, part) = {}
    BY <1>1, EnteredEmpty
  <2>2. CASE part = "edges"
    <3>1. IndexOf(store)[part] \subseteq Coming(part)'
      BY <1>3, <1>5, <2>2 DEF Coming
    <3>. QED
      BY <1>1, <2>1, <3>1 DEF Covered
  <2>3. CASE part # "edges"
    <3>1. CASE \E x \in Rebuilders : Waiting(x, part)
      <4>1. PICK x \in Rebuilders : Waiting(x, part)
        BY <3>1
      <4>2. x # r
        BY <1>5, <2>3, <4>1 DEF Waiting
      <4>3. Waiting(x, part)'
        BY <1>5, <4>1, <4>2 DEF Waiting
      <4>. QED
        BY <4>3 DEF Covered
    <3>2. CASE ~\E x \in Rebuilders : Waiting(x, part)
      <4>1. IndexOf(store)[part] \subseteq index[part] \cup Coming(part)
        BY <2>1, <3>2 DEF IndInv, Covered
      <4>2. Entered("put", rebuild[r].todo, part) = {}
        BY <1>1, EnteredEmpty
      <4>3. Coming(part) \subseteq Coming(part)'
        BY <1>5, <4>2 DEF Coming
      <4>. QED
        BY <1>1, <2>1, <4>1, <4>3 DEF Covered
    <3>. QED
      BY <3>1, <3>2
  <2>. QED
    BY <2>2, <2>3
<1>. QED
  BY <1>6, <1>7 DEF IndInv

LEMMA ReindexStep ==
    ASSUME IndInv, NEW r \in Rebuilders, Reindex(r)
    PROVE  IndInv'
<1> DEFINE q == rebuild[r].todo
           u == Head(q)
<1>1. /\ rebuild[r].pc \in {"vertices", "reindex"} /\ q # <<>>
      /\ index' = Perform(index, u)
      /\ rebuild' = [rebuild EXCEPT ![r].todo = Tail(q)]
      /\ todo' = todo /\ store' = store /\ saved' = saved
  BY DEF Reindex, graph
<1>2. /\ TypeInv /\ index \in Entries /\ \A part \in Parts : IsFiniteSet(index[part])
      /\ rebuild \in [Rebuilders -> [pc : Stages, todo : Seq(AllUpdates)]]
      /\ OnlyPuts(q)
  BY DEF IndInv, TypeInv
<1>3. q \in Seq(AllUpdates)
  BY <1>2
<1>4. /\ \A other \in Rebuilders \ {r} : rebuild'[other] = rebuild[other]
      /\ rebuild'[r].pc = rebuild[r].pc /\ rebuild'[r].todo = Tail(q)
      /\ \A x \in Rebuilders : rebuild'[x] = [pc |-> rebuild[x].pc,
                                              todo |-> IF x = r THEN Tail(q) ELSE rebuild[x].todo]
      /\ rebuild' = [x \in Rebuilders |-> rebuild'[x]]
  BY <1>1, <1>2
<1>. HIDE DEF q
<1>5. /\ u \in AllUpdates /\ Tail(q) \in Seq(AllUpdates) /\ ToSet(q) = {u} \cup ToSet(Tail(q))
  BY <1>1, <1>3, HeadAndTail
<1>6. \A part : Entered("put", q, part) =
         Entered("put", Tail(q), part) \cup {x \in {u.entry} : u.do = "put" /\ u.part = part}
  BY <1>1, <1>3, EnteredHeadTail
<1>. HIDE DEF u
<1>7. u.do = "put" /\ OnlyPuts(Tail(q))
  BY <1>2, <1>5 DEF OnlyPuts
<1>8. /\ index' \in Entries /\ \A part \in Parts : IsFiniteSet(index'[part])
      /\ \A part \in Parts :
            index'[part] = IF part # u.part THEN index[part] ELSE index[part] \cup {u.entry}
  <2>1. /\ Perform(index, u) \in Entries /\ \A part \in Parts : IsFiniteSet(Perform(index, u)[part])
        /\ \A part \in Parts :
              Perform(index, u)[part] =
                 IF part # u.part THEN index[part]
                 ELSE IF u.do = "put" THEN index[part] \cup {u.entry} ELSE index[part] \ {u.entry}
    BY <1>2, <1>5, PerformFacts
  <2>. QED
    BY <1>1, <1>7, <2>1
<1>9. TypeInv'
  <2>1. rebuild' \in [Rebuilders -> [pc : Stages, todo : Seq(AllUpdates)]]
    <3>1. ASSUME NEW x \in Rebuilders
          PROVE  rebuild'[x] \in [pc : Stages, todo : Seq(AllUpdates)]
      <4>1. rebuild[x].pc \in Stages /\ rebuild[x].todo \in Seq(AllUpdates)
        BY <1>2
      <4>. QED
        BY <1>4, <1>5, <4>1
    <3>. QED
      BY <1>4, <3>1
  <2>2. ASSUME NEW x \in Rebuilders
        PROVE  /\ OnlyPuts(rebuild'[x].todo)
               /\ rebuild'[x].pc \notin {"vertices", "reindex"} => rebuild'[x].todo = <<>>
    <3>1. CASE x = r
      BY <1>1, <1>4, <1>7, <3>1
    <3>2. CASE x # r
      BY <1>2, <1>4, <3>2 DEF TypeInv
    <3>. QED
      BY <3>1, <3>2
  <2>. QED
    BY <1>1, <1>2, <1>8, <2>1, <2>2 DEF TypeInv
<1>10. ASSUME NEW part \in Parts
       PROVE  Covered(part)'
  <2>1. \A x \in Rebuilders : Waiting(x, part)' <=> Waiting(x, part)
    BY <1>4 DEF Waiting
  <2>2. index[part] \cup Coming(part) \subseteq index'[part] \cup Coming(part)'
    <3>1. index[part] \subseteq index'[part]
      BY <1>8
    <3>2. ASSUME NEW x \in Rebuilders, NEW e \in Entered("put", rebuild[x].todo, part)
          PROVE  e \in index'[part] \cup Coming(part)'
      <4>1. CASE x = r
        <5>1. e \in Entered("put", Tail(q), part) \/ (u.part = part /\ e = u.entry)
          BY <1>6, <3>2, <4>1 DEF q
        <5>2. Entered("put", Tail(q), part) \subseteq Coming(part)'
          BY <1>4 DEF Coming
        <5>. QED
          BY <1>8, <5>1, <5>2
      <4>2. CASE x # r
        BY <1>4, <3>2, <4>2 DEF Coming
      <4>. QED
        BY <4>1, <4>2
    <3>. QED
      BY <3>1, <3>2 DEF Coming
  <2>3. CASE \E x \in Rebuilders : Waiting(x, part)
    BY <2>1, <2>3 DEF Covered
  <2>4. CASE ~\E x \in Rebuilders : Waiting(x, part)
    <3>1. IndexOf(store)[part] \subseteq
             Entered("put", todo, part) \cup
             ((index[part] \cup Coming(part)) \ Entered("drop", todo, part))
      BY <2>4 DEF IndInv, Covered
    <3>. QED
      BY <1>1, <2>2, <3>1 DEF Covered
  <2>. QED
    BY <2>3, <2>4
<1>. QED
  BY <1>9, <1>10 DEF IndInv

LEMMA EndStep ==
    ASSUME IndInv, NEW r \in Rebuilders, EndRebuild(r)
    PROVE  IndInv'
<1>1. /\ rebuild[r].todo = <<>> /\ Move(r, "reindex", "idle", <<>>)
      /\ todo' = todo /\ store' = store /\ saved' = saved /\ index' = index
  BY DEF EndRebuild, graph
<1>2. TypeInv /\ "idle" \in Stages
  BY DEF IndInv, Stages
<1>3. /\ rebuild[r].pc = "reindex" /\ rebuild'[r].pc = "idle" /\ rebuild'[r].todo = <<>>
      /\ \A other \in Rebuilders \ {r} : rebuild'[other] = rebuild[other]
      /\ rebuild' \in [Rebuilders -> [pc : Stages, todo : Seq(AllUpdates)]]
      /\ \A x \in Rebuilders :
            /\ OnlyPuts(rebuild'[x].todo)
            /\ rebuild'[x].pc \notin {"vertices", "reindex"} => rebuild'[x].todo = <<>>
  BY <1>1, <1>2, NothingToDo, MoveFacts
<1>4. TypeInv'
  BY <1>1, <1>2, <1>3 DEF TypeInv
<1>5. ASSUME NEW part \in Parts
      PROVE  Covered(part)'
  <2>1. \A x \in Rebuilders : rebuild'[x].todo = rebuild[x].todo
    BY <1>1, <1>3
  <2>2. Coming(part)' = Coming(part)
    BY <2>1 DEF Coming
  <2>3. \A x \in Rebuilders : Waiting(x, part) => Waiting(x, part)'
    BY <1>3 DEF Waiting
  <2>. QED
    BY <1>1, <2>2, <2>3 DEF IndInv, Covered
<1>. QED
  BY <1>4, <1>5 DEF IndInv

(* An audit changes nothing but what it knows. *)
LEMMA AuditsOnly ==
    ASSUME NEW a, Audit(a)
    PROVE  UNCHANGED <<graph, index, rebuild>>
BY DEF Audit, StartAudit, LookUp, EndLookups, Count

LEMMA NextStep == IndInv /\ [Next]_vars => IndInv'
<1>. SUFFICES ASSUME IndInv, [Next]_vars PROVE IndInv'
  OBVIOUS
<1>1. StoreShape(store)
  BY DEF IndInv, TypeInv
<1>2. ASSUME NEW v \in Vertices, CreateVertex(v)
      PROVE  IndInv'
  BY <1>1, <1>2, CreateVertexSound, WriteStep DEF CreateVertex
<1>3. ASSUME NEW id \in VertexIds, NEW v \in Vertices, UpdateVertex(id, v)
      PROVE  IndInv'
  BY <1>1, <1>3, UpdateVertexSound, WriteStep DEF UpdateVertex
<1>4. ASSUME NEW id \in VertexIds, DeleteVertex(id)
      PROVE  IndInv'
  BY <1>1, <1>4, DeleteVertexSound, WriteStep DEF DeleteVertex
<1>5. ASSUME NEW from \in VertexIds, NEW to \in VertexIds, NEW label \in EdgeLabels,
             CreateEdge(from, to, label)
      PROVE  IndInv'
  <2>1. NewEdge(from, to, label) \in EdgeRecords
    BY DEF NewEdge, EdgeRecords
  <2>. QED
    BY <1>1, <1>5, <2>1, CreateEdgeSound, WriteStep DEF CreateEdge
<1>6. ASSUME NEW id \in EdgeIds, DeleteEdge(id)
      PROVE  IndInv'
  BY <1>1, <1>6, DeleteEdgeSound, WriteStep DEF DeleteEdge
<1>7. CASE Notify
  BY <1>7, NotifyStep
<1>8. CASE Save
  BY <1>8, SaveStep
<1>9. ASSUME NEW r \in Rebuilders,
             \/ StartRebuild(r) \/ Load(r) \/ Clear(r) \/ ReadVertices(r) \/ ReadEdges(r)
             \/ Reindex(r) \/ EndRebuild(r)
      PROVE  IndInv'
  BY <1>9, StartStep, LoadStep, ClearStep, ReadVerticesStep, ReadEdgesStep, ReindexStep, EndStep
<1>10. CASE UNCHANGED <<store, before, todo, saved, index, rebuild>>
  <2>1. TypeInv'
    BY <1>10 DEF IndInv, TypeInv
  <2>2. \A part \in Parts : Covered(part)'
    BY <1>10 DEF IndInv, Covered, Coming, Waiting
  <2>3. Rebuilders = {} => \A part \in Parts : Exact(part)'
    BY <1>10 DEF IndInv, Exact
  <2>. QED
    BY <2>1, <2>2, <2>3 DEF IndInv
<1>11. CASE UNCHANGED vars
  BY <1>10, <1>11 DEF vars
<1>12. CASE \E a \in Auditors : Audit(a)
  BY <1>10, <1>12, AuditsOnly DEF graph
<1>. QED
  BY <1>2, <1>3, <1>4, <1>5, <1>6, <1>7, <1>8, <1>9, <1>11, <1>12 DEF Next, Change

(***************************************************************************)
(* Audits.                                                                 *)
(***************************************************************************)
AuditStages == {"idle", "look", "labels", "props", "ranges", "edges", "done"}

(* The indexes an audit has counted when it stands at a stage. *)
Counted ==
    [look |-> {}, labels |-> {}, props |-> {"labels"}, ranges |-> {"labels", "props"},
     edges |-> {"labels", "props", "ranges"}, done |-> Parts]

(* With no rebuild met, an entry the audit wants is in its index or has    *)
(* left it meanwhile.                                                      *)
AmongWriters(x) ==
    /\ \A r \in Rebuilders : rebuild[r].pc = "idle"
    /\ \A y \in Lookups(x.want) : y[2] \in index[y[1]] \/ y \in x.gone
    /\ x.missing \subseteq x.gone

(* With no change met, what has been looked up and counted is as it was.   *)
InQuiet(x) ==
    /\ x.want = IndexOf(store)
    /\ \A y \in Lookups(x.want) : y \in x.left \/ y \in x.missing \/ y[2] \in index[y[1]]
    /\ \A y \in x.missing : y \in Lookups(x.want) /\ y[2] \notin index[y[1]]
    /\ x.off \subseteq Counted[x.pc]
    /\ \A part \in Counted[x.pc] :
          part \in x.off <=> Cardinality(index[part]) # Cardinality(x.want[part])

AuditBound(x) ==
    /\ x = [pc |-> x.pc, want |-> x.want, left |-> x.left, missing |-> x.missing,
            off |-> x.off, gone |-> x.gone, met |-> x.met]
    /\ x.pc \in AuditStages
    /\ x.left \subseteq Lookups(x.want)
    /\ x.pc # "look" => x.left = {}
    /\ x.pc # "idle" /\ "rebuild" \notin x.met => AmongWriters(x)
    /\ x.pc # "idle" /\ "change" \notin x.met => InQuiet(x)

AuditInv ==
    /\ audit = [a \in Auditors |-> audit[a]]
    /\ \A a \in Auditors : AuditBound(audit[a])

LEMMA LookupsFacts ==
    ASSUME NEW s, NEW y
    PROVE  y \in Lookups(IndexOf(s)) <=>
              \E part \in Parts : \E x \in IndexOf(s)[part] : y = <<part, x>>
<1>1. DOMAIN IndexOf(s) = Parts
  BY DEF IndexOf, Parts
<1>. QED
  BY <1>1 DEF Lookups

(* Between writes, with no rebuild under way, no entry is missing. *)
LEMMA QuietComplete ==
    ASSUME IndInv, GraphFree, \A r \in Rebuilders : rebuild[r].pc = "idle", NEW part \in Parts
    PROVE  IndexOf(store)[part] \subseteq index[part]
<1>1. todo = <<>> /\ \A r \in Rebuilders : rebuild[r].todo = <<>>
  BY DEF GraphFree, IndInv, TypeInv
<1>2. Entered("put", todo, part) = {} /\ Coming(part) = {}
  BY <1>1, EnteredEmpty DEF Coming
<1>3. ~\E r \in Rebuilders : Waiting(r, part)
  BY DEF Waiting
<1>. QED
  BY <1>2, <1>3 DEF IndInv, Covered

LEMMA InitAudit == Init => AuditInv
<1>. SUFFICES ASSUME Init, NEW a \in Auditors
              PROVE  AuditBound(NoAudit)
  BY DEF Init, AuditInv
<1>. QED
  BY DEF NoAudit, AuditBound, AuditStages

(* The other steps add to the histories what the bounds then allow. *)
LEMMA MeetsKeeps ==
    ASSUME AuditInv, Meets
    PROVE  AuditInv'
<1>1. audit' = [a \in Auditors |-> audit'[a]]
  BY DEF Meets
<1>2. ASSUME NEW a \in Auditors
      PROVE  AuditBound(audit[a])'
  <2>1. AuditBound(audit[a])
    BY DEF AuditInv
  <2>2. CASE audit[a].pc = "idle"
    <3>1. audit'[a] = audit[a]
      BY <2>2 DEF Meets
    <3>. QED
      BY <2>1, <2>2, <3>1 DEF AuditBound, Lookups
  <2>3. CASE audit[a].pc # "idle"
    <3> DEFINE x == audit[a]
               left == {y \in Lookups(x.want) : y[2] \in index[y[1]] /\ y[2] \notin index'[y[1]]}
               xx == [x EXCEPT !.gone = @ \cup left, !.met = @ \cup Changing \cup Rebuilding']
    <3>1. audit'[a] = xx
      BY <2>3 DEF Meets
    <3>2. x = [pc |-> x.pc, want |-> x.want, left |-> x.left, missing |-> x.missing,
               off |-> x.off, gone |-> x.gone, met |-> x.met]
      BY <2>1 DEF AuditBound
    <3>3. /\ audit'[a].pc = x.pc /\ audit'[a].want = x.want /\ audit'[a].left = x.left
          /\ audit'[a].missing = x.missing /\ audit'[a].off = x.off
          /\ audit'[a].gone = x.gone \cup left
          /\ audit'[a].met = (x.met \cup Changing) \cup Rebuilding'
          /\ audit'[a] = [pc |-> x.pc, want |-> x.want, left |-> x.left, missing |-> x.missing,
                          off |-> x.off, gone |-> x.gone \cup left,
                          met |-> (x.met \cup Changing) \cup Rebuilding']
      BY <3>1, <3>2
    <3>. HIDE DEF left
    <3>4. ASSUME "rebuild" \notin audit'[a].met
          PROVE  AmongWriters(audit[a])'
      <4>1. \A r \in Rebuilders : rebuild'[r].pc = "idle"
        BY <3>3, <3>4 DEF Rebuilding
      <4>2. AmongWriters(x)
        BY <2>1, <2>3, <3>3, <3>4 DEF AuditBound
      <4>3. ASSUME NEW y \in Lookups(x.want)
            PROVE  y[2] \in index'[y[1]] \/ y \in audit'[a].gone
        BY <3>3, <4>2 DEF AmongWriters, left
      <4>4. audit'[a].missing \subseteq audit'[a].gone
        BY <3>3, <4>2 DEF AmongWriters
      <4>. QED
        BY <3>3, <4>1, <4>3, <4>4 DEF AmongWriters, Lookups
    <3>5. ASSUME "change" \notin audit'[a].met
          PROVE  InQuiet(audit[a])'
      <4>1. store' = store /\ index' = index
        BY <3>3, <3>5 DEF Changing
      <4>2. InQuiet(x)
        BY <2>1, <2>3, <3>3, <3>5 DEF AuditBound
      <4>3. IndexOf(store') = IndexOf(store)
        BY <4>1
      <4>. QED
        BY <3>3, <4>1, <4>2, <4>3 DEF InQuiet, Lookups
    <3>. QED
      BY <2>1, <2>3, <3>3, <3>4, <3>5 DEF AuditBound, Lookups
  <2>. QED
    BY <2>2, <2>3
<1>. QED
  BY <1>1, <1>2 DEF AuditInv

AuditRecord(pc, want, left, missing, off, gone, met) ==
    [pc |-> pc, want |-> want, left |-> left, missing |-> missing, off |-> off, gone |-> gone,
     met |-> met]

LEMMA RecordChanges ==
    ASSUME NEW p, NEW w, NEW l, NEW m, NEW o, NEW g, NEW t, NEW r,
           r = AuditRecord(p, w, l, m, o, g, t)
    PROVE  /\ \A n : [r EXCEPT !.pc = n] = AuditRecord(n, w, l, m, o, g, t)
           /\ \A n : [r EXCEPT !.want = n] = AuditRecord(p, n, l, m, o, g, t)
           /\ \A n : [r EXCEPT !.left = n] = AuditRecord(p, w, n, m, o, g, t)
           /\ \A n : [r EXCEPT !.missing = n] = AuditRecord(p, w, l, n, o, g, t)
           /\ \A n : [r EXCEPT !.off = n] = AuditRecord(p, w, l, m, n, g, t)
           /\ \A n : [r EXCEPT !.met = n] = AuditRecord(p, w, l, m, o, g, n)
BY DEF AuditRecord

(* A step of an audit concerns that audit alone. *)
LEMMA OneAudit ==
    ASSUME AuditInv, NEW a \in Auditors, NEW new, UNCHANGED <<graph, index, rebuild>>,
           audit' = [audit EXCEPT ![a] = new], AuditBound(new)
    PROVE  AuditInv'
<1>1. store' = store /\ index' = index /\ rebuild' = rebuild
  BY DEF graph
<1>2. audit' = [b \in Auditors |-> audit'[b]]
  BY DEF AuditInv
<1>3. ASSUME NEW b \in Auditors
      PROVE  AuditBound(audit[b])'
  <2>1. AuditBound(audit'[b])
    BY DEF AuditInv
  <2>. QED
    BY <1>1, <2>1 DEF AuditBound, AmongWriters, InQuiet, Lookups
<1>. QED
  BY <1>2, <1>3 DEF AuditInv

LEMMA StartAuditStep ==
    ASSUME IndInv, AuditInv, NEW a \in Auditors, StartAudit(a)
    PROVE  AuditInv'
<1> DEFINE want == IndexOf(store)
           new == [NoAudit EXCEPT !.pc = "look", !.want = want, !.left = Lookups(want),
                                  !.met = Rebuilding]
<1>1. /\ GraphFree /\ UNCHANGED <<graph, index, rebuild>> /\ audit' = [audit EXCEPT ![a] = new]
  BY DEF StartAudit
<1>2. new = [pc |-> "look", want |-> want, left |-> Lookups(want), missing |-> {}, off |-> {},
             gone |-> {}, met |-> Rebuilding]
  <2> DEFINE r1 == [NoAudit EXCEPT !.pc = "look"]
             r2 == [r1 EXCEPT !.want = want]
             r3 == [r2 EXCEPT !.left = Lookups(want)]
             r4 == [r3 EXCEPT !.met = Rebuilding]
  <2>1. NoAudit = AuditRecord("idle", IndexOf(S!NewMemStore), {}, {}, {}, {}, {})
    BY DEF NoAudit, AuditRecord
  <2>2. new = r4
    OBVIOUS
  <2>. HIDE DEF want, new
  <2>3. r1 = AuditRecord("look", IndexOf(S!NewMemStore), {}, {}, {}, {}, {})
    BY <2>1, RecordChanges
  <2>. HIDE DEF r1
  <2>4. r2 = AuditRecord("look", want, {}, {}, {}, {}, {})
    BY <2>3, RecordChanges
  <2>. HIDE DEF r2
  <2>5. r3 = AuditRecord("look", want, Lookups(want), {}, {}, {}, {})
    BY <2>4, RecordChanges
  <2>. HIDE DEF r3
  <2>6. r4 = AuditRecord("look", want, Lookups(want), {}, {}, {}, Rebuilding)
    BY <2>5, RecordChanges
  <2>. QED
    BY <2>2, <2>6 DEF AuditRecord
<1>3. ASSUME "rebuild" \notin Rebuilding
      PROVE  /\ \A r \in Rebuilders : rebuild[r].pc = "idle"
             /\ \A y \in Lookups(want) : y[2] \in index[y[1]]
  <2>1. \A r \in Rebuilders : rebuild[r].pc = "idle"
    BY <1>3 DEF Rebuilding
  <2>2. \A part \in Parts : want[part] \subseteq index[part]
    BY <1>1, <2>1, QuietComplete
  <2>3. ASSUME NEW y \in Lookups(want)
        PROVE  y[2] \in index[y[1]]
    <3>1. PICK part \in Parts : \E x \in IndexOf(store)[part] : y = <<part, x>>
      BY <2>3, LookupsFacts
    <3>. QED
      BY <2>2, <3>1
  <2>. QED
    BY <2>1, <2>3
<1>. HIDE DEF new
<1>4. AmongWriters(new) \/ "rebuild" \in new.met
  BY <1>2, <1>3 DEF AmongWriters
<1>5. InQuiet(new)
  BY <1>2 DEF InQuiet, Counted
<1>6. AuditBound(new)
  BY <1>2, <1>4, <1>5 DEF AuditBound, AuditStages
<1>. QED
  BY <1>1, <1>6, OneAudit

LEMMA LookUpStep ==
    ASSUME AuditInv, NEW a \in Auditors, LookUp(a)
    PROVE  AuditInv'
<1> DEFINE x == audit[a]
<1>1. /\ x.pc = "look" /\ UNCHANGED <<graph, index, rebuild>>
      /\ \E y \in x.left :
            audit' = [audit EXCEPT
                        ![a].left = @ \ {y},
                        ![a].missing = @ \cup (IF y[2] \in index[y[1]] THEN {} ELSE {y})]
  BY DEF LookUp
<1>2. PICK y \in x.left :
         audit' = [audit EXCEPT
                     ![a].left = @ \ {y},
                     ![a].missing = @ \cup (IF y[2] \in index[y[1]] THEN {} ELSE {y})]
  BY <1>1
<1> DEFINE found == IF y[2] \in index[y[1]] THEN {} ELSE {y}
           new == [pc |-> x.pc, want |-> x.want, left |-> x.left \ {y},
                   missing |-> x.missing \cup found, off |-> x.off, gone |-> x.gone, met |-> x.met]
<1>3. AuditBound(x) /\ a \in DOMAIN audit
  BY DEF AuditInv
<1>4. audit' = [audit EXCEPT ![a] = new]
  <2>1. x = [pc |-> x.pc, want |-> x.want, left |-> x.left, missing |-> x.missing,
             off |-> x.off, gone |-> x.gone, met |-> x.met]
    BY <1>3 DEF AuditBound
  <2>2. [x EXCEPT !.left = @ \ {y}, !.missing = @ \cup found] = new
    <3>1. x = AuditRecord(x.pc, x.want, x.left, x.missing, x.off, x.gone, x.met)
      BY <2>1 DEF AuditRecord
    <3> DEFINE l == x.left \ {y}
               m == x.missing \cup found
               r == [x EXCEPT !.left = l]
    <3>3. [x EXCEPT !.left = @ \ {y}, !.missing = @ \cup found] = [r EXCEPT !.missing = m]
      OBVIOUS
    <3>. HIDE DEF l, m
    <3>2. r = AuditRecord(x.pc, x.want, l, x.missing, x.off, x.gone, x.met)
      BY <3>1, RecordChanges
    <3>. HIDE DEF r
    <3>4. [r EXCEPT !.missing = m] = AuditRecord(x.pc, x.want, l, m, x.off, x.gone, x.met)
      BY <3>2, RecordChanges
    <3>. QED
      BY <3>3, <3>4 DEF AuditRecord, l, m
  <2>3. audit' = [audit EXCEPT ![a] = [x EXCEPT !.left = @ \ {y}, !.missing = @ \cup found]]
    BY <1>2, <1>3
  <2>. QED
    BY <2>2, <2>3
<1>5. y \in Lookups(x.want) /\ (y \in found <=> y[2] \notin index[y[1]]) /\ found \subseteq {y}
  BY <1>2, <1>3 DEF AuditBound
<1>6. /\ new.pc = x.pc /\ new.want = x.want /\ new.left = x.left \ {y}
      /\ new.missing = x.missing \cup found /\ new.off = x.off /\ new.gone = x.gone
      /\ new.met = x.met
      /\ new = [pc |-> new.pc, want |-> new.want, left |-> new.left, missing |-> new.missing,
                off |-> new.off, gone |-> new.gone, met |-> new.met]
  OBVIOUS
<1>. HIDE DEF found, new
<1>7. ASSUME "rebuild" \notin new.met
      PROVE  AmongWriters(new)
  BY <1>1, <1>3, <1>5, <1>6, <1>7 DEF AuditBound, AmongWriters
<1>8. ASSUME "change" \notin new.met
      PROVE  InQuiet(new)
  <2>1. InQuiet(x)
    BY <1>1, <1>3, <1>6, <1>8 DEF AuditBound
  <2>. QED
    BY <1>5, <1>6, <2>1 DEF InQuiet
<1>9. AuditBound(new)
  BY <1>1, <1>3, <1>6, <1>7, <1>8 DEF AuditBound
<1>. QED
  BY <1>1, <1>4, <1>9, OneAudit

LEMMA EndLookupsStep ==
    ASSUME AuditInv, NEW a \in Auditors, EndLookups(a)
    PROVE  AuditInv'
<1> DEFINE x == audit[a]
           new == [pc |-> "labels", want |-> x.want, left |-> x.left, missing |-> x.missing,
                   off |-> x.off, gone |-> x.gone, met |-> x.met]
<1>1. /\ x.pc = "look" /\ x.left = {} /\ UNCHANGED <<graph, index, rebuild>>
      /\ audit' = [audit EXCEPT ![a].pc = "labels"]
  BY DEF EndLookups
<1>2. AuditBound(x) /\ a \in DOMAIN audit
  BY DEF AuditInv
<1>3. audit' = [audit EXCEPT ![a] = new]
  <2>1. x = [pc |-> x.pc, want |-> x.want, left |-> x.left, missing |-> x.missing,
             off |-> x.off, gone |-> x.gone, met |-> x.met]
    BY <1>2 DEF AuditBound
  <2>2. [x EXCEPT !.pc = "labels"] = new
    BY <2>1
  <2>3. audit' = [audit EXCEPT ![a] = [x EXCEPT !.pc = "labels"]]
    BY <1>1, <1>2
  <2>. QED
    BY <2>2, <2>3
<1>4. "rebuild" \notin x.met => AmongWriters(new)
  BY <1>1, <1>2 DEF AuditBound, AmongWriters
<1>5. "change" \notin x.met => InQuiet(new)
  BY <1>1, <1>2 DEF AuditBound, InQuiet, Counted
<1>6. AuditBound(new)
  BY <1>1, <1>2, <1>4, <1>5 DEF AuditBound, AuditStages
<1>. QED
  BY <1>1, <1>3, <1>6, OneAudit

LEMMA CountStep ==
    ASSUME AuditInv, NEW a \in Auditors, Count(a)
    PROVE  AuditInv'
<1> DEFINE x == audit[a]
           part == x.pc
           off == IF Cardinality(index[part]) = Cardinality(x.want[part]) THEN {} ELSE {part}
           new == [pc |-> CountNext[part], want |-> x.want, left |-> x.left, missing |-> x.missing,
                   off |-> x.off \cup off, gone |-> x.gone, met |-> x.met]
<1>1. /\ part \in DOMAIN CountNext /\ UNCHANGED <<graph, index, rebuild>>
      /\ audit' = [audit EXCEPT
                     ![a].pc = CountNext[part],
                     ![a].off = @ \cup (IF Cardinality(index[part]) = Cardinality(x.want[part])
                                        THEN {} ELSE {part})]
  BY DEF Count
<1>2. AuditBound(x) /\ a \in DOMAIN audit
  BY DEF AuditInv
<1>3. audit' = [audit EXCEPT ![a] = new]
  <2>1. x = [pc |-> x.pc, want |-> x.want, left |-> x.left, missing |-> x.missing,
             off |-> x.off, gone |-> x.gone, met |-> x.met]
    BY <1>2 DEF AuditBound
  <2>2. [x EXCEPT !.pc = CountNext[part], !.off = @ \cup off] = new
    <3>1. x = AuditRecord(x.pc, x.want, x.left, x.missing, x.off, x.gone, x.met)
      BY <2>1 DEF AuditRecord
    <3> DEFINE n == CountNext[part]
               o == x.off \cup off
               r == [x EXCEPT !.pc = n]
    <3>. HIDE DEF n, off
    <3>2. r = AuditRecord(n, x.want, x.left, x.missing, x.off, x.gone, x.met)
      BY <3>1, RecordChanges
    <3>3. [x EXCEPT !.pc = n, !.off = @ \cup off] = [r EXCEPT !.off = o]
      OBVIOUS
    <3>. HIDE DEF r, o
    <3>4. [r EXCEPT !.off = o] = AuditRecord(n, x.want, x.left, x.missing, o, x.gone, x.met)
      BY <3>2, RecordChanges
    <3>. QED
      BY <3>3, <3>4 DEF AuditRecord, n, o
  <2>3. audit' = [audit EXCEPT ![a] = [x EXCEPT !.pc = CountNext[part], !.off = @ \cup off]]
    BY <1>1, <1>2
  <2>. QED
    BY <2>2, <2>3
<1>4. /\ part \in Parts /\ part \notin {"idle", "look"}
      /\ Counted[CountNext[part]] = Counted[part] \cup {part} /\ part \notin Counted[part]
      /\ CountNext[part] \in AuditStages /\ CountNext[part] \notin {"idle", "look"}
  BY <1>1 DEF CountNext, Parts, Counted, AuditStages
<1>5. /\ new.pc = CountNext[part] /\ new.want = x.want /\ new.left = x.left
      /\ new.missing = x.missing /\ new.off = x.off \cup off /\ new.gone = x.gone
      /\ new.met = x.met
      /\ new = [pc |-> new.pc, want |-> new.want, left |-> new.left, missing |-> new.missing,
                off |-> new.off, gone |-> new.gone, met |-> new.met]
  OBVIOUS
<1>6. /\ off \subseteq {part}
      /\ part \in off <=> Cardinality(index[part]) # Cardinality(x.want[part])
  OBVIOUS
<1>. HIDE DEF new, off
<1>7. "rebuild" \notin x.met => AmongWriters(new)
  BY <1>2, <1>4, <1>5 DEF AuditBound, AmongWriters
<1>8. "change" \notin x.met => InQuiet(new)
  BY <1>2, <1>4, <1>5, <1>6 DEF AuditBound, InQuiet
<1>9. AuditBound(new)
  BY <1>2, <1>4, <1>5, <1>7, <1>8 DEF AuditBound
<1>. QED
  BY <1>1, <1>3, <1>9, OneAudit

LEMMA AuditNext == IndInv /\ AuditInv /\ [Next]_vars => AuditInv'
<1>. SUFFICES ASSUME IndInv, AuditInv, [Next]_vars PROVE AuditInv'
  OBVIOUS
<1>1. CASE Change /\ Meets
  BY <1>1, MeetsKeeps
<1>2. CASE \E a \in Auditors : Audit(a)
  BY <1>2, StartAuditStep, LookUpStep, EndLookupsStep, CountStep DEF Audit
<1>3. CASE UNCHANGED vars
  BY <1>3 DEF vars, AuditInv, AuditBound, AmongWriters, InQuiet, Lookups
<1>. QED
  BY <1>1, <1>2, <1>3 DEF Next

(* IndInv and AuditInv hold in every reachable state, for all bounds,      *)
(* contents, rebuilders and auditors (index_manager.go:14-44, 78,          *)
(* graph.go:171-176).                                                      *)
THEOREM Inductive == Spec => [](IndInv /\ AuditInv)
BY InitInv, InitAudit, NextStep, AuditNext, PTL DEF Spec

(***************************************************************************)
(* What follows from it.                                                   *)
(***************************************************************************)

(* The stored ids stay within their bounds, the indexes hold entries of    *)
(* the graph's kinds and every pending update is for one of them           *)
(* (index_manager.go:14-38).                                               *)
THEOREM TypeCorrect == Spec => []TypeOK
<1>1. IndInv /\ AuditInv => TypeOK
  <2>. SUFFICES ASSUME IndInv, AuditInv PROVE TypeOK
    OBVIOUS
  <2>1. DOMAIN store.vertices \subseteq VertexIds /\ DOMAIN store.edges \subseteq EdgeIds
    BY StoreFields DEF IndInv, TypeInv, StoreShape
  <2>2. index \in Entries /\ DOMAIN index = Parts
    BY EntriesFields DEF IndInv, TypeInv
  <2>3. \A i \in DOMAIN todo : todo[i].part \in DOMAIN index
    <3>1. todo \in Seq(AllUpdates)
      BY DEF IndInv, TypeInv
    <3>2. \A i \in DOMAIN todo : todo[i] \in AllUpdates
      BY <3>1
    <3>. QED
      BY <2>2, <3>2, UpdateFacts
  <2>4. \A r \in Rebuilders : rebuild[r].pc \in Stages
    BY DEF IndInv, TypeInv
  <2>5. \A a \in Auditors : audit[a].pc \in AuditStages
    BY DEF AuditInv, AuditBound
  <2>. QED
    BY <2>1, <2>2, <2>3, <2>4, <2>5 DEF TypeOK, Stages, AuditStages
<1>. QED
  BY <1>1, Inductive, PTL

(* However rebuilds, loads and writers interleave, once they are done no   *)
(* element of the graph is missing from an index (index_manager.go:39-44). *)
THEOREM Complete == Spec => []NothingMissing
<1>1. IndInv => NothingMissing
  <2>. SUFFICES ASSUME IndInv, Quiet, NEW part \in DOMAIN IndexOf(store)
                PROVE  IndexOf(store)[part] \subseteq index[part]
    BY DEF NothingMissing, Within
  <2>1. part \in Parts
    BY DEF IndexOf, Parts
  <2>. QED
    BY <2>1, QuietComplete DEF Quiet
<1>. QED
  BY <1>1, Inductive, PTL

(* Without rebuilds the indexes agree with the graph whenever no write is  *)
(* under way (index_manager.go:14-38, graph.go:171-176).                   *)
THEOREM ExactWithoutRebuilds ==
    ASSUME Rebuilders = {}
    PROVE  Spec => []IndexExact
<1>1. IndInv => IndexExact
  <2>. SUFFICES ASSUME IndInv, Quiet PROVE index = IndexOf(store)
    BY DEF IndexExact
  <2>1. todo = <<>>
    BY DEF Quiet, GraphFree
  <2>2. \A part \in Parts : index[part] = IndexOf(store)[part]
    BY <2>1, EnteredEmpty DEF IndInv, Exact
  <2>3. index \in Entries
    BY DEF IndInv, TypeInv
  <2>. QED
    BY <2>2, <2>3 DEF Entries, IndexOf, Parts
<1>. QED
  BY <1>1, Inductive, PTL

(* While a write announces its changes, a lookup returns elements that     *)
(* carried the entry before it or carry it after it, and misses of those   *)
(* that do both only what the write will put back (index_manager.go:15-16).*)
THEOREM LookupsFollow == Spec => []LookupsKeepUp
<1>1. IndInv => LookupsKeepUp
  <2>. SUFFICES ASSUME IndInv, Rebuilders = {}, NEW part \in DOMAIN index
                PROVE  /\ index[part] \subseteq IndexOf(before)[part] \cup IndexOf(store)[part]
                       /\ \A entry \in (IndexOf(before)[part] \cap IndexOf(store)[part]) \ index[part] :
                             \E u \in ToSet(todo) : u.do = "put" /\ u.part = part /\ u.entry = entry
    BY DEF LookupsKeepUp
  <2>1. part \in Parts
    BY EntriesFields DEF IndInv, TypeInv
  <2>2. Exact(part)
    BY <2>1 DEF IndInv
  <2>3. ASSUME NEW entry \in IndexOf(store)[part] \ index[part]
        PROVE  \E u \in ToSet(todo) : u.do = "put" /\ u.part = part /\ u.entry = entry
    <3>1. Update("put", part, entry) \in ToSet(todo)
      BY <2>2 DEF Exact, Entered
    <3>. QED
      BY <3>1 DEF Update
  <2>. QED
    BY <2>2, <2>3 DEF Exact
<1>. QED
  BY <1>1, Inductive, PTL

(* What an audit reports missing has been taken out while it ran, unless   *)
(* a rebuild was under way; and on a graph and indexes that stay as they   *)
(* are, finding every entry and counting them tells whether the indexes    *)
(* are those of the graph (index_manager.go:59-78).                        *)
THEOREM AuditsAreBounded == Spec => []AuditTells
<1>1. IndInv /\ AuditInv => AuditTells
  <2>. SUFFICES ASSUME IndInv, AuditInv, NEW a \in Auditors, audit[a].pc = "done"
                PROVE  /\ "rebuild" \notin audit[a].met => audit[a].missing \subseteq audit[a].gone
                       /\ "change" \notin audit[a].met => (Healthy(a) <=> index = IndexOf(store))
    BY DEF AuditTells
  <2>1. AuditBound(audit[a])
    BY DEF AuditInv
  <2>2. DOMAIN index = Parts /\ index \in Entries /\ \A part \in Parts : IsFiniteSet(index[part])
    BY EntriesFields DEF IndInv, TypeInv
  <2>3. "rebuild" \notin audit[a].met => audit[a].missing \subseteq audit[a].gone
    BY <2>1 DEF AuditBound, AmongWriters
  <2>4. ASSUME "change" \notin audit[a].met
        PROVE  Healthy(a) <=> index = IndexOf(store)
    <3>1. /\ audit[a].want = IndexOf(store) /\ audit[a].left = {}
          /\ \A y \in Lookups(IndexOf(store)) : y \in audit[a].missing \/ y[2] \in index[y[1]]
          /\ \A y \in audit[a].missing :
                y \in Lookups(IndexOf(store)) /\ y[2] \notin index[y[1]]
          /\ audit[a].off \subseteq Parts
          /\ \A part \in Parts :
                part \in audit[a].off <=>
                   Cardinality(index[part]) # Cardinality(IndexOf(store)[part])
      BY <2>1, <2>4 DEF AuditBound, InQuiet, Counted
    <3>2. \A y : y \in Lookups(IndexOf(store)) <=>
                 \E part \in Parts : \E x \in IndexOf(store)[part] : y = <<part, x>>
      BY LookupsFacts
    <3>3. ASSUME Healthy(a)
          PROVE  index = IndexOf(store)
      <4>1. \A part \in Parts : IndexOf(store)[part] \subseteq index[part]
        <5>. SUFFICES ASSUME NEW part \in Parts, NEW x \in IndexOf(store)[part]
                      PROVE  x \in index[part]
          OBVIOUS
        <5>1. <<part, x>> \in Lookups(IndexOf(store))
          BY <3>2
        <5>. QED
          BY <3>1, <3>3, <5>1 DEF Healthy
      <4>2. \A part \in Parts : Cardinality(index[part]) = Cardinality(IndexOf(store)[part])
        BY <3>1, <3>3 DEF Healthy
      <4>3. \A part \in Parts : index[part] = IndexOf(store)[part]
        BY <2>2, <4>1, <4>2, FS_Subset
      <4>. QED
        BY <2>2, <4>3 DEF Entries, IndexOf, Parts
    <3>4. ASSUME index = IndexOf(store)
          PROVE  Healthy(a)
      <4>1. audit[a].missing = {}
        <5>. SUFFICES ASSUME NEW y \in audit[a].missing
                      PROVE  FALSE
          OBVIOUS
        <5>1. PICK part \in Parts : \E x \in IndexOf(store)[part] : y = <<part, x>>
          BY <3>1, <3>2
        <5>. QED
          BY <3>1, <3>4, <5>1
      <4>2. audit[a].off = {}
        BY <3>1, <3>4
      <4>. QED
        BY <4>1, <4>2 DEF Healthy
    <3>. QED
      BY <3>3, <3>4
  <2>. QED
    BY <2>3, <2>4
<1>. QED
  BY <1>1, Inductive, PTL
=============================================================================
