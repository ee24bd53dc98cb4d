------------------------- MODULE ReadRequestsProofs -------------------------
(***************************************************************************)
(* What a read request may answer while writers go on, for every graph it  *)
(* meets and every number of writes.  All of it rests on the history of    *)
(* the query: an edge keeps its contents and its identifier, a vertex that *)
(* no writer touched is the same in every graph the query lived through.   *)
(***************************************************************************)
EXTENDS ReadRequests, SequenceLemmas

(* The greatest of finitely many numbers. *)
LEMMA MaxIsGreatest ==
    ASSUME NEW A \in SUBSET Nat, IsFiniteSet(A), A # {}
    PROVE  Max(A) \in A /\ \A x \in A : x =< Max(A)
<1> DEFINE s == CHOOSE t \in SetToSeqs(A) : \A i, j \in DOMAIN t : i < j => t[i] < t[j]
<1>1. s \in Seq(A) /\ ToSet(s) = A /\ \A i, j \in DOMAIN s : i < j => s[i] < s[j]
  <2>. HIDE DEF s
  <2>1. s = CHOOSE t \in SetToSeqs(A) : \A i, j \in DOMAIN t : i < j => t[i] < t[j]
    BY DEF s
  <2>. QED
    BY <2>1, AscendingList
<1>. HIDE DEF s
<1>2. Len(s) \in Nat /\ DOMAIN s = 1..Len(s) /\ \A i \in 1..Len(s) : s[i] \in A
  BY <1>1
<1>3. \A x \in A : \E i \in DOMAIN s : x = s[i]
  BY <1>1 DEF ToSet
<1>4. Len(s) \in 1..Len(s) /\ s[Len(s)] \in A
  <2>1. PICK x \in A : TRUE
    OBVIOUS
  <2>2. PICK i \in 1..Len(s) : x = s[i]
    BY <1>2, <1>3
  <2>3. Len(s) \in 1..Len(s)
    BY <1>2, <2>2
  <2>. QED
    BY <1>2, <2>3
<1>5. ASSUME NEW x \in A
      PROVE  s[Len(s)] >= x
  <2>1. PICK i \in 1..Len(s) : x = s[i]
    BY <1>2, <1>3
  <2>2. i < Len(s) => s[i] < s[Len(s)]
    BY <1>1, <1>2, <1>4
  <2>3. x \in Nat /\ s[Len(s)] \in Nat
    BY <1>4
  <2>. QED
    BY <1>2, <2>1, <2>2, <2>3
<1>6. Max(A) \in A /\ \A x \in A : Max(A) >= x
  BY <1>4, <1>5 DEF Max
<1>. QED
  <2>1. Max(A) \in Nat /\ \A x \in A : x \in Nat
    BY <1>6
  <2>. QED
    BY <1>6, <2>1

(* The ids of a map, listed in ascending order. *)
LEMMA SortedKeys ==
    ASSUME NEW A \in SUBSET Nat, IsFiniteSet(A)
    PROVE  /\ sortedKeys(A) \in Seq(A) /\ ToSet(sortedKeys(A)) = A
           /\ \A i, j \in DOMAIN sortedKeys(A) : sortedKeys(A)[i] = sortedKeys(A)[j] => i = j
<1> DEFINE s == sortedKeys(A)
<1>1. s = CHOOSE t \in SetToSeqs(A) : \A i, j \in DOMAIN t : i < j => t[i] < t[j]
  BY DEF sortedKeys
<1>. HIDE DEF s
<1>2. s \in Seq(A) /\ ToSet(s) = A /\ \A i, j \in DOMAIN s : i < j => s[i] < s[j]
  BY <1>1, AscendingList
<1>3. ASSUME NEW i \in DOMAIN s, NEW j \in DOMAIN s, s[i] = s[j]
      PROVE  i = j
  <2>1. i \in Nat /\ j \in Nat /\ s[i] \in Nat
    <3>1. DOMAIN s = 1..Len(s) /\ Len(s) \in Nat /\ \A k \in 1..Len(s) : s[k] \in A
      BY <1>2
    <3>2. i \in 1..Len(s) /\ j \in 1..Len(s)
      BY <3>1
    <3>3. \A x \in A : x \in Nat
      OBVIOUS
    <3>4. s[i] \in Nat
      BY <3>1, <3>2, <3>3
    <3>. QED
      BY <3>1, <3>2, <3>4
  <2>2. ~(i < j) /\ ~(j < i)
    BY <1>2, <1>3, <2>1
  <2>. QED
    BY <2>1, <2>2
<1>. QED
  BY <1>2, <1>3 DEF s
-----------------------------------------------------------------------------
(***************************************************************************)
(* The history of the query.                                               *)
(***************************************************************************)
Graph == [vertices |-> vertices, edges |-> edges]

QueryGiven == \E start \in Starts : query = start.query
EdgesKept ==
    \A g, h \in lived : \A e \in DOMAIN g.edges :
        e \in DOMAIN h.edges => h.edges[e] = g.edges[e]
UntouchedKept ==
    \A g, h \in lived : \A id \in DOMAIN g.vertices :
        id \notin touched => id \in DOMAIN h.vertices /\ h.vertices[id] = g.vertices[id]

History ==
    /\ QueryGiven
    /\ Graph \in lived
    /\ \A g \in lived : IsGraph(g)
    /\ EdgesKept
    /\ UntouchedKept

LEMMA InitHistory == Init => History
<1>. SUFFICES ASSUME Init PROVE History
  OBVIOUS
<1>1. PICK start \in Starts :
          query = start.query /\ vertices = start.vertices /\ edges = start.edges
  BY DEF Init
<1>2. IsGraph(Graph)
  BY <1>1, StartsWithGraph DEF IsGraph, Graph
<1>3. lived = {Graph}
  BY DEF Init, Graph
<1>. QED
  BY <1>1, <1>2, <1>3 DEF History, QueryGiven, EdgesKept, UntouchedKept

(* What the graph a query sees has in common with the rest of its history. *)
LEMMA NowFacts ==
    ASSUME History
    PROVE  /\ DOMAIN vertices \subseteq VertexIds /\ DOMAIN edges \subseteq EdgeIds
           /\ \A e \in DOMAIN edges : edges[e].from \in DOMAIN vertices /\ edges[e].to \in DOMAIN vertices
           /\ DOMAIN vertices \subseteq Ids /\ DOMAIN edges \subseteq EverIds
<1>1. IsGraph(Graph) /\ Graph.vertices = vertices /\ Graph.edges = edges /\ Graph \in lived
  BY DEF History, Graph
<1>. QED
  BY <1>1 DEF IsGraph, Ids, EverIds

LEMMA IdsFacts ==
    ASSUME History
    PROVE  /\ Ids \subseteq VertexIds /\ EverIds \subseteq EdgeIds
           /\ Ids \subseteq Nat /\ EverIds \subseteq Nat
           /\ IsFiniteSet(Ids) /\ IsFiniteSet(EverIds)
           /\ \A id : id \in Ids <=> \E g \in lived : id \in DOMAIN g.vertices
           /\ \A e : e \in EverIds <=> \E g \in lived : e \in DOMAIN g.edges
<1>1. Ids \subseteq VertexIds /\ EverIds \subseteq EdgeIds
  BY DEF History, IsGraph, Ids, EverIds
<1>2. IsFiniteSet(Ids) /\ IsFiniteSet(EverIds)
  BY <1>1, IdsAreNumbers, FS_Subset
<1>. QED
  BY <1>1, <1>2, IdsAreNumbers DEF Ids, EverIds

LEMMA FreshIds ==
    ASSUME History
    PROVE  Max(Ids \cup {0}) + 1 \notin Ids /\ Max(EverIds \cup {0}) + 1 \notin EverIds
<1>1. ASSUME NEW A \in SUBSET Nat, IsFiniteSet(A)
      PROVE  Max(A \cup {0}) + 1 \notin A
  <2>1. IsFiniteSet(A \cup {0}) /\ A \cup {0} \in SUBSET Nat /\ A \cup {0} # {}
    BY <1>1, FS_AddElement
  <2>2. Max(A \cup {0}) \in Nat /\ \A x \in A : x =< Max(A \cup {0})
    BY <2>1, MaxIsGreatest
  <2>. QED
    BY <2>2
<1>. QED
  BY <1>1, IdsFacts

(* A write that gives every element it leaves alone as it was, and new     *)
(* identifiers to new edges, keeps the history in order.                   *)
LEMMA WroteKeeps ==
    ASSUME History, NEW ids, Wrote(ids), IsGraph(Graph'),
           \A e \in DOMAIN edges' :
              IF e \in DOMAIN edges THEN edges'[e] = edges[e] ELSE e \notin EverIds,
           \A id : id \notin ids =>
              /\ id \in DOMAIN vertices' <=> id \in DOMAIN vertices
              /\ id \in DOMAIN vertices => vertices'[id] = vertices[id]
    PROVE  History'
<1>1. /\ lived' = lived \cup {Graph'} /\ touched' = touched \cup ids /\ query' = query
      /\ Graph'.vertices = vertices' /\ Graph'.edges = edges'
      /\ Graph.vertices = vertices /\ Graph.edges = edges /\ Graph \in lived
  BY DEF Wrote, Graph, History
<1>2. EdgesKept'
  <2>1. ASSUME NEW g \in lived, NEW e, e \in DOMAIN g.edges, e \in DOMAIN edges'
        PROVE  g.edges[e] = edges'[e]
    <3>1. e \in EverIds
      BY <2>1 DEF EverIds
    <3>2. e \in DOMAIN edges /\ edges'[e] = edges[e]
      BY <2>1, <3>1
    <3>. QED
      BY <1>1, <2>1, <3>2 DEF History, EdgesKept
  <2>2. ASSUME NEW g \in lived', NEW h \in lived', NEW e \in DOMAIN g.edges, e \in DOMAIN h.edges
        PROVE  h.edges[e] = g.edges[e]
    <3>1. CASE g \in lived /\ h \in lived
      BY <2>2, <3>1 DEF History, EdgesKept
    <3>2. CASE g = Graph' \/ h = Graph'
      BY <1>1, <2>1, <2>2, <3>2
    <3>. QED
      BY <1>1, <3>1, <3>2
  <2>. QED
    BY <2>2 DEF EdgesKept
<1>3. UntouchedKept'
  <2>1. ASSUME NEW g \in lived', NEW h \in lived', NEW id \in DOMAIN g.vertices, id \notin touched'
        PROVE  id \in DOMAIN h.vertices /\ h.vertices[id] = g.vertices[id]
    <3>1. id \notin touched /\ id \notin ids
      BY <1>1, <2>1
    <3>2. /\ id \in DOMAIN vertices' <=> id \in DOMAIN vertices
          /\ id \in DOMAIN vertices => vertices'[id] = vertices[id]
      BY <3>1
    <3>3. \A k \in lived : id \in DOMAIN k.vertices =>
              \A l \in lived : id \in DOMAIN l.vertices /\ l.vertices[id] = k.vertices[id]
      BY <3>1 DEF History, UntouchedKept
    <3>4. id \in DOMAIN vertices
      BY <1>1, <2>1, <3>2, <3>3
    <3>5. \A k \in lived : id \in DOMAIN k.vertices /\ k.vertices[id] = vertices[id]
      BY <1>1, <3>3, <3>4
    <3>6. \A k \in lived' : id \in DOMAIN k.vertices /\ k.vertices[id] = vertices[id]
      BY <1>1, <3>2, <3>4, <3>5
    <3>. QED
      BY <3>6
  <2>. QED
    BY <2>1 DEF UntouchedKept
<1>. QED
  BY <1>1, <1>2, <1>3 DEF History, QueryGiven


LEMMA IsGraphNext ==
    ASSUME DOMAIN vertices' \subseteq VertexIds, DOMAIN edges' \subseteq EdgeIds,
           \A e \in DOMAIN edges' :
              edges'[e].from \in DOMAIN vertices' /\ edges'[e].to \in DOMAIN vertices'
    PROVE  IsGraph(Graph')
<1>1. Graph'.vertices = vertices' /\ Graph'.edges = edges'
  BY DEF Graph
<1>. HIDE DEF Graph
<1>. QED
  BY <1>1 DEF IsGraph

LEMMA MinusFacts ==
    ASSUME NEW f, NEW K
    PROVE  /\ DOMAIN G!Minus(f, K) = DOMAIN f \ K
           /\ \A x \in DOMAIN f \ K : G!Minus(f, K)[x] = f[x]
BY DEF G!Minus

LEMMA CreateVertexHistory ==
    ASSUME History, NEW c, CreateVertex(c)
    PROVE  History'
<1>1. PICK id : /\ id = Max(Ids \cup {0}) + 1 /\ id \in VertexIds
                /\ vertices' = G!With(vertices, id, c) /\ edges' = edges /\ Wrote({id})
  BY DEF CreateVertex, G!AddVertex
<1>2. /\ DOMAIN vertices' = DOMAIN vertices \cup {id}
      /\ \A x \in DOMAIN vertices : x # id => vertices'[x] = vertices[x]
  BY <1>1 DEF G!With
<1>3. IsGraph(Graph')
  <2>1. DOMAIN vertices' \subseteq VertexIds /\ DOMAIN vertices \subseteq DOMAIN vertices'
    BY <1>1, <1>2, NowFacts
  <2>. QED
    BY <1>1, <2>1, NowFacts, IsGraphNext
<1>. QED
  BY <1>1, <1>2, <1>3, WroteKeeps

LEMMA UpdateVertexHistory ==
    ASSUME History, NEW id, NEW c, UpdateVertex(id, c)
    PROVE  History'
<1>1. /\ id \in DOMAIN vertices /\ vertices' = G!With(vertices, id, c) /\ edges' = edges
      /\ Wrote({id})
  BY DEF UpdateVertex, G!ChangeVertex
<1>2. /\ DOMAIN vertices' = DOMAIN vertices
      /\ \A x \in DOMAIN vertices : x # id => vertices'[x] = vertices[x]
  BY <1>1 DEF G!With
<1>3. IsGraph(Graph')
  BY <1>1, <1>2, NowFacts DEF IsGraph, Graph
<1>. QED
  BY <1>1, <1>2, <1>3, WroteKeeps

LEMMA DeleteVertexHistory ==
    ASSUME History, NEW id, DeleteVertex(id)
    PROVE  History'
<1>1. /\ vertices' = G!Minus(vertices, {id}) /\ edges' = G!Minus(edges, G!IncidentEdges(id))
      /\ Wrote({id})
  BY DEF DeleteVertex, G!RemoveVertex
<1>2. /\ DOMAIN vertices' = DOMAIN vertices \ {id}
      /\ \A x \in DOMAIN vertices \ {id} : vertices'[x] = vertices[x]
  BY <1>1, MinusFacts
<1>3. /\ DOMAIN edges' = DOMAIN edges \ G!IncidentEdges(id)
      /\ \A e \in DOMAIN edges \ G!IncidentEdges(id) : edges'[e] = edges[e]
  BY <1>1, MinusFacts
<1>4. \A e \in DOMAIN edges' : edges[e].from # id /\ edges[e].to # id
  BY <1>3 DEF G!IncidentEdges
<1>5. IsGraph(Graph')
  BY <1>2, <1>3, <1>4, NowFacts DEF IsGraph, Graph
<1>. QED
  BY <1>1, <1>2, <1>3, <1>5, WroteKeeps

LEMMA CreateEdgeHistory ==
    ASSUME History, NEW from, NEW to, NEW label, CreateEdge(from, to, label)
    PROVE  History'
<1> DEFINE new == [from |-> from, to |-> to, label |-> label]
<1>1. PICK id : /\ id = Max(EverIds \cup {0}) + 1 /\ id \in EdgeIds
                /\ {from, to} \subseteq DOMAIN vertices
                /\ edges' = G!With(edges, id, new) /\ vertices' = vertices /\ Wrote({})
  BY DEF CreateEdge, G!AddEdge
<1>2. id \notin EverIds /\ id \notin DOMAIN edges
  BY <1>1, FreshIds, NowFacts
<1>3. /\ DOMAIN edges' = DOMAIN edges \cup {id} /\ edges'[id] = new
      /\ \A e \in DOMAIN edges : edges'[e] = edges[e]
  BY <1>1, <1>2 DEF G!With
<1>4. ASSUME NEW e \in DOMAIN edges'
      PROVE  edges'[e].from \in DOMAIN vertices /\ edges'[e].to \in DOMAIN vertices
  <2>1. CASE e = id
    BY <1>1, <1>3, <2>1
  <2>2. CASE e \in DOMAIN edges
    BY <1>3, <2>2, NowFacts
  <2>. QED
    BY <1>3, <2>1, <2>2
<1>5. IsGraph(Graph')
  <2>1. DOMAIN edges' \subseteq EdgeIds
    BY <1>1, <1>3, NowFacts
  <2>. QED
    BY <1>1, <1>4, <2>1, NowFacts, IsGraphNext
<1>. QED
  BY <1>1, <1>2, <1>3, <1>5, WroteKeeps

LEMMA DeleteEdgeHistory ==
    ASSUME History, NEW id, DeleteEdge(id)
    PROVE  History'
<1>1. edges' = G!Minus(edges, {id}) /\ vertices' = vertices /\ Wrote({})
  BY DEF DeleteEdge, G!RemoveEdge
<1>2. /\ DOMAIN edges' = DOMAIN edges \ {id}
      /\ \A e \in DOMAIN edges \ {id} : edges'[e] = edges[e]
  BY <1>1, MinusFacts
<1>3. IsGraph(Graph')
  <2>1. /\ DOMAIN edges' \subseteq EdgeIds
        /\ \A e \in DOMAIN edges' : edges'[e] = edges[e] /\ e \in DOMAIN edges
    BY <1>2, NowFacts
  <2>. QED
    BY <1>1, <2>1, NowFacts, IsGraphNext
<1>. QED
  BY <1>1, <1>2, <1>3, WroteKeeps

(* A write leaves the search alone, but for the update that a lookup in    *)
(* the index falls into.                                                   *)
LEMMA WriteKeeps ==
    ASSUME Write
    PROVE  /\ UNCHANGED search /\ query' = query /\ Open
           /\ lived \subseteq lived' /\ touched \subseteq touched'
<1>1. CASE \E c \in VertexContents : CreateVertex(c)
  BY <1>1 DEF CreateVertex, Wrote
<1>2. CASE \E id \in VertexIds, c \in VertexContents : UpdateVertex(id, c) /\ UNCHANGED search
  BY <1>2 DEF UpdateVertex, Wrote
<1>3. CASE \E id \in VertexIds : DeleteVertex(id)
  BY <1>3 DEF DeleteVertex, Wrote
<1>4. CASE \E from, to \in VertexIds, label \in EdgeLabels : CreateEdge(from, to, label)
  BY <1>4 DEF CreateEdge, Wrote
<1>5. CASE \E id \in EdgeIds : DeleteEdge(id)
  BY <1>5 DEF DeleteEdge, Wrote
<1>. QED
  BY <1>1, <1>2, <1>3, <1>4, <1>5 DEF Write

(* The handler reads and never writes. *)
Reads == UNCHANGED <<vertices, edges, query, lived, touched, writes>>

LEMMA HandleReads ==
    ASSUME Handle
    PROVE  Reads
<1>1. \A new : Go(new) => Reads
  BY DEF Go, Reads
<1>2. \A new : (Fail(new) => Reads) /\ (Answer(new) => Reads)
  BY <1>1 DEF Fail, Answer
<1>3. CASE Traverse
  <2>1. CheckFrom => Reads
    BY <1>1, <1>2 DEF CheckFrom
  <2>2. CheckTo => Reads
    BY <1>1, <1>2 DEF CheckTo
  <2>3. ListVertices => Reads
    BY <1>1, <1>2 DEF ListVertices
  <2>4. Exhausted => Reads
    BY <1>2 DEF Exhausted, Asks, SearchKinds
  <2>5. BFS => Reads
    BY <1>1, <1>2 DEF BFS
  <2>6. DFS => Reads
    BY <1>1, <1>2 DEF DFS
  <2>7. AllSimplePaths => Reads
    BY <1>1, <1>2 DEF AllSimplePaths
  <2>8. ShortestUnweighted => Reads
    BY <1>1, <1>2 DEF ShortestUnweighted
  <2>9. HasCycle => Reads
    BY <1>1, <1>2 DEF HasCycle
  <2>10. \A i : ShortestWeighted(i) => Reads
    BY <1>1, <1>2 DEF ShortestWeighted
  <2>. QED
    BY <1>3, <2>1, <2>2, <2>3, <2>4, <2>5, <2>6, <2>7, <2>8, <2>9, <2>10 DEF Traverse
<1>4. CASE Match
  <2>1. Lookup => Reads
    BY <1>1 DEF Lookup
  <2>2. ReadLeft \/ Scan => Reads
    BY <1>1 DEF ReadLeft, Scan
  <2>3. MatchVertices => Reads
    <3>1. \A rest, rows : Show(rest, rows) => Reads
      BY <1>1, <1>2 DEF Show
    <3>. QED
      BY <1>1, <3>1 DEF MatchVertices
  <2>4. MatchEdges => Reads
    BY <1>1, <1>2 DEF MatchEdges
  <2>5. \A arc : Join(arc) => Reads
    <3>1. \A rest, rows : Show(rest, rows) => Reads
      BY <1>1, <1>2 DEF Show
    <3>. QED
      BY <1>1, <3>1 DEF Join
  <2>6. NextLeft \/ NoMoreLefts => Reads
    BY <1>1, <1>2 DEF NextLeft, NoMoreLefts
  <2>. QED
    BY <1>4, <2>1, <2>2, <2>3, <2>4, <2>5, <2>6 DEF Match
<1>5. CASE View
  BY <1>1, <1>2, <1>5 DEF View
<1>6. CASE Build \/ Quality
  BY <1>2, <1>6 DEF Build, Quality
<1>. QED
  BY <1>3, <1>4, <1>5, <1>6 DEF Handle

LEMMA ReadsHistory ==
    ASSUME History, Reads
    PROVE  History'
BY DEF History, Reads, Graph, QueryGiven, EdgesKept, UntouchedKept

LEMMA NextHistory ==
    ASSUME History, [Next]_vars
    PROVE  History'
<1>1. CASE UNCHANGED vars
  BY <1>1, ReadsHistory DEF vars, Reads
<1>2. CASE Handle
  BY <1>2, HandleReads, ReadsHistory
<1>3. CASE Write
  BY <1>3, CreateVertexHistory, UpdateVertexHistory, DeleteVertexHistory, CreateEdgeHistory,
     DeleteEdgeHistory DEF Write
<1>4. CASE \E id \in VertexIds, c \in VertexContents : LookupDuringUpdate(id, c)
  BY <1>4, UpdateVertexHistory DEF LookupDuringUpdate
<1>. QED
  BY <1>1, <1>2, <1>3, <1>4 DEF Next

(* In every reachable state the history of the query is in order: the      *)
(* graph it sees is one it has lived through, no edge points outside its   *)
(* graph, no edge identifier is given twice, and a vertex outside          *)
(* "touched" was there all the time with the contents it has.              *)
THEOREM HistoryHolds == Spec => []History
<1>1. History /\ [Next]_vars => History'
  BY NextHistory
<1>. QED
  BY <1>1, InitHistory, PTL DEF Spec

-----------------------------------------------------------------------------
(***************************************************************************)
(* What existed at some time, what was there all the time, and how both    *)
(* change while the query runs.                                            *)
(***************************************************************************)
LEMMA EverFacts ==
    ASSUME History, NEW g \in lived, NEW e \in DOMAIN g.edges
    PROVE  /\ e \in EverIds /\ Ever[e] = g.edges[e]
           /\ Ever[e].from \in Ids /\ Ever[e].to \in Ids
<1>1. e \in EverIds
  BY DEF EverIds
<1>2. PICK h \in lived : e \in DOMAIN h.edges /\ Ever[e] = h.edges[e]
  BY <1>1 DEF Ever
<1>3. Ever[e] = g.edges[e]
  BY <1>2 DEF History, EdgesKept
<1>4. g.edges[e].from \in DOMAIN g.vertices /\ g.edges[e].to \in DOMAIN g.vertices
  BY DEF History, IsGraph
<1>. QED
  BY <1>1, <1>3, <1>4 DEF Ids

LEMMA NowEver ==
    ASSUME History, NEW e \in DOMAIN edges
    PROVE  e \in EverIds /\ Ever[e] = edges[e]
<1>1. Graph \in lived /\ Graph.edges = edges
  BY DEF History, Graph
<1>. HIDE DEF Graph
<1>. QED
  BY <1>1, EverFacts

LEMMA EverEnds ==
    ASSUME History, NEW e \in EverIds
    PROVE  Ever[e].from \in Ids /\ Ever[e].to \in Ids
<1>1. PICK g \in lived : e \in DOMAIN g.edges
  BY DEF EverIds
<1>. QED
  BY <1>1, EverFacts

LEMMA AlwaysFacts ==
    ASSUME History
    PROVE  /\ \A e : e \in DOMAIN Always <=> \A g \in lived : e \in DOMAIN g.edges
           /\ \A e \in DOMAIN Always : e \in DOMAIN edges /\ Always[e] = edges[e]
           /\ \A e \in DOMAIN Always : e \in EverIds /\ Always[e] = Ever[e]
<1> DEFINE gone == {e \in EverIds : \E g \in lived : e \notin DOMAIN g.edges}
<1>1. DOMAIN Always = EverIds \ gone /\ \A e \in EverIds \ gone : Always[e] = Ever[e]
  BY DEF Always, Ever, G!Minus
<1>2. Graph \in lived /\ Graph.edges = edges
  BY DEF History, Graph
<1>. HIDE DEF Graph
<1>3. \A e : e \in DOMAIN Always <=> \A g \in lived : e \in DOMAIN g.edges
  BY <1>1, <1>2 DEF EverIds
<1>4. \A e \in DOMAIN Always : e \in DOMAIN edges
  BY <1>2, <1>3
<1>. QED
  BY <1>1, <1>3, <1>4, NowEver

LEMMA LastingFacts ==
    ASSUME History
    PROVE  /\ DOMAIN Lasting = DOMAIN vertices \ touched
           /\ \A id \in DOMAIN Lasting : Lasting[id] = vertices[id]
           /\ \A id : id \in DOMAIN Lasting <=> id \notin touched /\ \A g \in lived : id \in DOMAIN g.vertices
           /\ \A id \in DOMAIN Lasting : \A g \in lived : g.vertices[id] = Lasting[id]
<1>1. /\ DOMAIN Lasting = DOMAIN vertices \ touched
      /\ \A id \in DOMAIN Lasting : Lasting[id] = vertices[id]
  BY DEF Lasting
<1>2. Graph \in lived /\ Graph.vertices = vertices
  BY DEF History, Graph
<1>. HIDE DEF Graph
<1>3. ASSUME NEW id \in DOMAIN Lasting, NEW g \in lived
      PROVE  id \in DOMAIN g.vertices /\ g.vertices[id] = Lasting[id]
  BY <1>1, <1>2 DEF History, UntouchedKept
<1>. QED
  BY <1>1, <1>2, <1>3

(* While the query runs what ever existed grows, and what was there all    *)
(* the time shrinks.                                                       *)
Moves ==
    /\ query' = query /\ lived \subseteq lived'
    /\ Ids \subseteq Ids' /\ EverIds \subseteq EverIds'
    /\ \A e \in EverIds : Ever'[e] = Ever[e]
    /\ \A e \in DOMAIN Always' : e \in DOMAIN Always /\ Always'[e] = Always[e]
    /\ \A id \in DOMAIN Lasting' : id \in DOMAIN Lasting /\ Lasting'[id] = Lasting[id]

LEMMA NextMoves ==
    ASSUME History, [Next]_vars
    PROVE  Moves
<1>1. History'
  BY NextHistory
<1>2. query' = query /\ lived \subseteq lived' /\ touched \subseteq touched'
  <2>1. CASE UNCHANGED vars
    BY <2>1 DEF vars
  <2>2. CASE Handle
    BY <2>2, HandleReads DEF Reads
  <2>3. CASE Write
    BY <2>3, WriteKeeps
  <2>4. CASE \E id \in VertexIds, c \in VertexContents : LookupDuringUpdate(id, c)
    BY <2>4 DEF LookupDuringUpdate, UpdateVertex, Wrote
  <2>. QED
    BY <2>1, <2>2, <2>3, <2>4 DEF Next
<1>3. Ids \subseteq Ids' /\ EverIds \subseteq EverIds'
  BY <1>2 DEF Ids, EverIds
<1>4. ASSUME NEW e \in EverIds
      PROVE  Ever'[e] = Ever[e]
  <2>1. PICK g \in lived : e \in DOMAIN g.edges
    BY DEF EverIds
  <2>2. Ever[e] = g.edges[e]
    BY <2>1, EverFacts
  <2>3. (e \in DOMAIN g.edges => Ever[e] = g.edges[e])'
    <3>1. g \in lived'
      BY <1>2
    <3>2. PICK h \in lived' : e \in DOMAIN h.edges /\ Ever'[e] = h.edges[e]
      BY <1>3, <2>1, <3>1 DEF Ever
    <3>. QED
      BY <1>1, <2>1, <3>1, <3>2 DEF History, EdgesKept
  <2>. QED
    BY <2>1, <2>2, <2>3
<1>5. ASSUME NEW e \in DOMAIN Always'
      PROVE  e \in DOMAIN Always /\ Always'[e] = Always[e]
  <2>1. /\ DOMAIN Always' = EverIds' \ {d \in EverIds' : \E g \in lived' : d \notin DOMAIN g.edges}
        /\ Always'[e] = Ever'[e]
    BY DEF Always, Ever, G!Minus
  <2>2. \A g \in lived' : e \in DOMAIN g.edges
    BY <2>1
  <2>3. e \in DOMAIN Always
    BY <1>2, <2>2, AlwaysFacts
  <2>4. e \in EverIds /\ Always[e] = Ever[e]
    BY <2>3, AlwaysFacts
  <2>. QED
    BY <1>4, <2>1, <2>3, <2>4
<1>6. ASSUME NEW id \in DOMAIN Lasting'
      PROVE  id \in DOMAIN Lasting /\ Lasting'[id] = Lasting[id]
  <2>1. id \in DOMAIN vertices' /\ id \notin touched' /\ Lasting'[id] = vertices'[id]
    BY DEF Lasting
  <2>2. Graph' \in lived' /\ Graph'.vertices = vertices' /\ Graph \in lived /\ Graph.vertices = vertices
    BY <1>1 DEF History, Graph
  <2>3. id \in DOMAIN vertices /\ vertices[id] = vertices'[id]
    <3>. HIDE DEF Graph
    <3>. QED
      BY <1>1, <1>2, <2>1, <2>2 DEF History, UntouchedKept
  <2>. QED
    BY <1>2, <2>1, <2>3 DEF Lasting
<1>. QED
  BY <1>2, <1>3, <1>4, <1>5, <1>6 DEF Moves

(* Each kind of request has its own steps; no step follows the answer.     *)
LEMMA HandleByKind ==
    ASSUME Handle
    PROVE  \/ Asks(SearchKinds) /\ Traverse
           \/ Asks({"match"}) /\ Match
           \/ Asks({"view"}) /\ View
           \/ Asks({"report", "quality"}) /\ (Build \/ Quality)
<1>1. Traverse => Asks(SearchKinds)
  BY DEF Traverse, CheckFrom, CheckTo, ListVertices, Exhausted, BFS, DFS, AllSimplePaths,
     ShortestUnweighted, HasCycle, ShortestWeighted, Working, Asks, SearchKinds
<1>2. Match => Asks({"match"})
  BY DEF Match, Lookup, ReadLeft, Scan, MatchVertices, MatchEdges, NextLeft, NoMoreLefts, Matching
<1>3. View => Asks({"view"})
  BY DEF View
<1>4. Build \/ Quality => Asks({"report", "quality"})
  BY DEF Build, Quality, Asks
<1>. QED
  BY <1>1, <1>2, <1>3, <1>4 DEF Handle
-----------------------------------------------------------------------------
(***************************************************************************)
(* The view of the whole graph.                                            *)
(***************************************************************************)

(* The variables of a handler stay the same ones. *)
Shape ==
    DOMAIN search = IF Asks({"match"})
                    THEN {"pc", "ids", "lefts", "left", "arcs", "seen", "result"}
                    ELSE {"pc", "agenda", "visited", "notes", "result"}

(* What was created after the vertices had been read is not yet among them.*)
ViewInv ==
    Asks({"view"}) =>
        /\ Shape
        /\ search.pc \in {"from", "edges", "done"}
        /\ At("edges") => DOMAIN Lasting \subseteq search.visited
        /\ ViewBounded

LEMMA InitView == Init => ViewInv
<1>. SUFFICES ASSUME Init, Asks({"view"}) PROVE ViewInv
  BY DEF ViewInv
<1>1. search.pc = "from" /\ Shape
  BY DEF Init, NewSearch, Asks, Shape
<1>. QED
  BY <1>1 DEF ViewInv, ViewBounded, At

LEMMA ViewKept ==
    ASSUME ViewInv, Moves, UNCHANGED search, Open
    PROVE  ViewInv'
BY DEF Moves, ViewInv, ViewBounded, Open, At, Asks, Shape

LEMMA ViewStep ==
    ASSUME History, ViewInv, Moves, Asks({"view"}), View, Reads
    PROVE  ViewInv'
<1>1. DOMAIN search = {"pc", "agenda", "visited", "notes", "result"}
  BY DEF ViewInv, Shape, Asks
<1>2. CASE At("from") /\ Go([search EXCEPT !.pc = "edges", !.visited = DOMAIN vertices])
  <2>1. /\ search'.pc = "edges" /\ search'.visited = DOMAIN vertices
        /\ DOMAIN search' = DOMAIN search
    BY <1>1, <1>2 DEF Go
  <2>2. DOMAIN Lasting' \subseteq DOMAIN vertices
    BY DEF Lasting, Reads
  <2>. QED
    BY <1>1, <2>1, <2>2 DEF ViewInv, ViewBounded, At, Moves, Asks, Shape
<1>3. CASE At("edges") /\ Answer([vertices |-> search.visited, edges |-> edges])
  <2>1. /\ search'.pc = "done" /\ DOMAIN search' = DOMAIN search
        /\ search'.result = [vertices |-> search.visited, edges |-> edges]
    BY <1>1, <1>3 DEF Go, Answer
  <2>2. DOMAIN Lasting \subseteq search.visited
    BY <1>3 DEF ViewInv
  <2>3. ASSUME NEW e \in DOMAIN edges
        PROVE  {edges[e].from, edges[e].to} \ search.visited \subseteq touched \cap DOMAIN vertices
    <3>1. edges[e].from \in DOMAIN vertices /\ edges[e].to \in DOMAIN vertices
      BY NowFacts
    <3>. QED
      BY <2>2, <3>1, LastingFacts
  <2>4. DOMAIN Always \subseteq DOMAIN edges
    BY AlwaysFacts
  <2>5. ViewBounded'
    <3>1. touched' = touched /\ vertices' = vertices
      BY DEF Reads
    <3>2. DOMAIN Lasting' \subseteq DOMAIN Lasting /\ DOMAIN Always' \subseteq DOMAIN Always
      BY DEF Moves
    <3>. QED
      BY <2>1, <2>2, <2>3, <2>4, <3>1, <3>2 DEF ViewBounded
  <2>. QED
    BY <1>1, <2>1, <2>5 DEF ViewInv, At, Moves, Asks, Shape
<1>. QED
  BY <1>2, <1>3 DEF View

LEMMA NextView ==
    ASSUME History, ViewInv, [Next]_vars
    PROVE  ViewInv'
<1>1. Moves
  BY NextMoves
<1>2. CASE UNCHANGED vars
  BY <1>2 DEF vars, ViewInv, ViewBounded, At, Asks, Shape, Lasting, Always, Ever, EverIds
<1>3. CASE Handle
  <2>1. Reads
    BY <1>3, HandleReads
  <2>2. CASE Asks({"view"}) /\ View
    BY <1>1, <2>1, <2>2, ViewStep
  <2>3. CASE ~Asks({"view"})
    BY <1>1, <2>3 DEF Moves, ViewInv, Asks
  <2>. QED
    BY <1>3, <2>2, <2>3, HandleByKind DEF Asks, SearchKinds
<1>4. CASE Write
  BY <1>1, <1>4, WriteKeeps, ViewKept
<1>5. CASE \E id \in VertexIds, c \in VertexContents : LookupDuringUpdate(id, c)
  BY <1>1, <1>5 DEF LookupDuringUpdate, Matching, Moves, ViewInv, Asks
<1>. QED
  BY <1>2, <1>3, <1>4, <1>5 DEF Next

(* An edge of the view hangs in the air only if one of its ends came after *)
(* the vertices had been read; nothing that lasts is missing (server.go:64).*)
THEOREM ViewIsBounded == Spec => []ViewBounded
<1>1. Init => History /\ ViewInv
  BY InitHistory, InitView
<1>2. History /\ ViewInv /\ [Next]_vars => (History /\ ViewInv)'
  BY NextHistory, NextView
<1>3. ViewInv => ViewBounded
  BY DEF ViewInv, ViewBounded
<1>. QED
  BY <1>1, <1>2, <1>3, PTL DEF Spec

-----------------------------------------------------------------------------
(***************************************************************************)
(* MATCH: every row existed.                                               *)
(***************************************************************************)

(* The vertices with the contents they had during the query; those the     *)
(* left side of the pattern took for candidates; the edges such a          *)
(* candidate may be joined by; and the rows the pattern allows.            *)
Bindings ==
    UNION {{[id |-> id, content |-> g.vertices[id]] : id \in DOMAIN g.vertices} : g \in lived}
LeftIds == {id \in Ids : HadLabel(id)} \cup query.stale
Lefts == {v \in Bindings : v.id \in LeftIds}
Leads(left, e) ==
    \/ query.dir # "IN" /\ e.from = left.id
    \/ query.dir # "OUT" /\ e.to = left.id
ArcsAt(left) ==
    {<<e, Ever[e]>> : e \in {d \in EverIds :
        Leads(left, Ever[d]) /\ query.label \in {None, Ever[d].label}}}
RowType == [left : Lefts, edge : EverIds \cup {None}, right : Bindings \cup {None}]
GoodRows ==
    {row \in RowType :
        /\ query.dir = None => /\ row.edge = None /\ row.right = None
                               /\ matchesCondition(row.left, None, None)
        /\ query.dir # None => /\ row.right \in Bindings /\ row.edge \in EverIds
                               /\ Fits(Ever, row.left, row.edge, row.right)}

MatchFails ==
    \/ search.result = "vertex" /\ Deleted /\ query.dir # None
    \/ search.result = "variable" /\ ~query.bound

SoundSearch(s) ==
    /\ DOMAIN s = {"pc", "ids", "lefts", "left", "arcs", "seen", "result"}
    /\ s.pc \in {"lookup", "read", "scan", "join", "done", "failed"}
    /\ s.ids \in Seq(LeftIds)
    /\ s.lefts \in Seq(Lefts)
    /\ s.pc = "join" => /\ query.dir # None
                        /\ s.left \in Lefts /\ s.arcs \subseteq ArcsAt(s.left)
    /\ s.pc # "failed" => s.result \in Seq(GoodRows)
    /\ s.pc \notin {"done", "failed"} => Len(s.result) = 0 \/ Len(s.result) < query.limit
    /\ s.pc = "done" => Len(s.result) =< 1 \/ Len(s.result) =< query.limit

MatchSound ==
    Asks({"match"}) => SoundSearch(search) /\ (At("failed") => MatchFails)

LEMMA BindingsDef ==
    \A v : v \in Bindings <=> \E g \in lived : \E id \in DOMAIN g.vertices :
                                  v = [id |-> id, content |-> g.vertices[id]]
BY DEF Bindings

LEMMA NowBound ==
    ASSUME History, NEW id \in DOMAIN vertices
    PROVE  /\ Bind(id) \in Bindings /\ Bind(id).id = id /\ Bind(id).content = vertices[id]
           /\ id \in Ids
<1>1. Graph \in lived /\ Graph.vertices = vertices
  BY DEF History, Graph
<1>. HIDE DEF Graph
<1>2. Bind(id) = [id |-> id, content |-> vertices[id]]
  BY DEF Bind
<1>3. Bind(id) \in Bindings
  BY <1>1, <1>2, BindingsDef
<1>. QED
  BY <1>2, <1>3, NowFacts

LEMMA NowLeft ==
    ASSUME History, NEW id \in DOMAIN vertices,
           query.left = None \/ id \in Labelled(query.left)
    PROVE  id \in LeftIds /\ Bind(id) \in Lefts
<1>1. Graph \in lived /\ Graph.vertices = vertices
  BY DEF History, Graph
<1>. HIDE DEF Graph
<1>2. LeftFits([content |-> vertices[id]])
  BY DEF LeftFits, Labelled
<1>3. id \in LeftIds
  BY <1>1, <1>2, NowFacts DEF LeftIds, HadLabel
<1>. QED
  BY <1>3, NowBound DEF Lefts

(* All these sets only grow. *)
LEMMA SoundSetsGrow ==
    ASSUME History, Moves
    PROVE  /\ Bindings \subseteq Bindings' /\ LeftIds \subseteq LeftIds' /\ Lefts \subseteq Lefts'
           /\ \A left : ArcsAt(left) \subseteq ArcsAt(left)'
           /\ GoodRows \subseteq GoodRows'
<1>1. query' = query /\ lived \subseteq lived'
  BY DEF Moves
<1>2. Bindings \subseteq Bindings'
  BY <1>1 DEF Bindings
<1>3. LeftIds \subseteq LeftIds'
  BY <1>1 DEF LeftIds, HadLabel, LeftFits, Moves
<1>4. Lefts \subseteq Lefts'
  BY <1>2, <1>3 DEF Lefts
<1>5. ASSUME NEW left
      PROVE  ArcsAt(left) \subseteq ArcsAt(left)'
  BY <1>1 DEF ArcsAt, Leads, Moves
<1>6. GoodRows \subseteq GoodRows'
  <2>1. ASSUME NEW row \in GoodRows
        PROVE  row \in GoodRows'
    <3>1. row \in RowType /\ row \in RowType'
      BY <1>1, <1>2, <1>4 DEF GoodRows, RowType, Moves
    <3>2. ASSUME query.dir # None
          PROVE  Fits(Ever, row.left, row.edge, row.right)'
      <4>1. row.edge \in EverIds /\ Fits(Ever, row.left, row.edge, row.right)
        BY <3>2 DEF GoodRows
      <4>2. Ever'[row.edge] = Ever[row.edge]
        BY <4>1 DEF Moves
      <4>. QED
        BY <1>1, <4>1, <4>2 DEF Fits, matchesCondition
    <3>3. query.dir = None => /\ row.edge = None /\ row.right = None
                              /\ matchesCondition(row.left, None, None)
      BY DEF GoodRows
    <3>4. query.dir # None => row.right \in Bindings /\ row.edge \in EverIds
      BY DEF GoodRows
    <3>5. matchesCondition(row.left, None, None)' = matchesCondition(row.left, None, None)
      BY <1>1 DEF matchesCondition
    <3>. QED
      BY <1>1, <1>2, <3>1, <3>2, <3>3, <3>4, <3>5 DEF GoodRows, Moves
  <2>. QED
    BY <2>1
<1>. QED
  BY <1>2, <1>3, <1>4, <1>5, <1>6


LEMMA SoundGrows ==
    ASSUME History, Moves, SoundSearch(search')
    PROVE  SoundSearch(search)'
<1>1. /\ LeftIds \subseteq LeftIds' /\ Lefts \subseteq Lefts'
      /\ GoodRows \subseteq GoodRows' /\ \A left : ArcsAt(left) \subseteq ArcsAt(left)'
  BY SoundSetsGrow
<1>2. Seq(LeftIds) \subseteq Seq(LeftIds') /\ Seq(Lefts) \subseteq Seq(Lefts')
      /\ Seq(GoodRows) \subseteq Seq(GoodRows')
  BY <1>1, SeqMonotonic
<1>3. query' = query
  BY DEF Moves
<1>4. search'.arcs \subseteq ArcsAt(search'.left) => search'.arcs \subseteq ArcsAt(search.left)'
  BY <1>1 DEF ArcsAt, Leads
<1>. QED
  BY <1>1, <1>2, <1>3, <1>4 DEF SoundSearch

(* A row shown is a good one. *)
LEMMA ShowSound ==
    ASSUME History, Asks({"match"}), SoundSearch(search),
           search.pc \notin {"done", "failed"},
           NEW rest, DOMAIN rest = DOMAIN search, SoundSearch(rest), rest.pc = search.pc,
           NEW row \in GoodRows, Show(rest, Append(search.result, row))
    PROVE  SoundSearch(search') /\ (At("failed")' => MatchFails')
<1> DEFINE rows == Append(search.result, row)
<1>1. query.limit \in Nat
  BY StatementsParsed DEF History, QueryGiven, Asks
<1>2. /\ search.result \in Seq(GoodRows) /\ Len(search.result) \in Nat
      /\ rows \in Seq(GoodRows) /\ Len(rows) = Len(search.result) + 1
  BY AppendProperties, LenProperties DEF SoundSearch
<1>3. Len(search.result) = 0 \/ Len(search.result) < query.limit
  BY DEF SoundSearch
<1>4. query' = query
  BY DEF Show, Go, Fail, Answer
<1>5. CASE ~query.bound
  <2>1. search' = [search EXCEPT !.pc = "failed", !.result = "variable"]
    BY <1>5 DEF Show, Fail, Go
  <2>2. /\ DOMAIN search' = DOMAIN search /\ search'.pc = "failed" /\ search'.result = "variable"
        /\ search'.ids = search.ids /\ search'.lefts = search.lefts
    BY <2>1 DEF SoundSearch
  <2>. QED
    BY <1>4, <1>5, <2>2 DEF SoundSearch, At, MatchFails
<1>6. CASE query.bound /\ Len(rows) >= query.limit
  <2>1. search' = [search EXCEPT !.pc = "done", !.result = rows]
    BY <1>6 DEF Show, Answer, Go
  <2>2. /\ DOMAIN search' = DOMAIN search /\ search'.pc = "done" /\ search'.result = rows
        /\ search'.ids = search.ids /\ search'.lefts = search.lefts
    BY <2>1 DEF SoundSearch
  <2>3. Len(rows) =< 1 \/ Len(rows) =< query.limit
    BY <1>1, <1>2, <1>3
  <2>. HIDE DEF rows
  <2>. QED
    BY <1>2, <2>2, <2>3 DEF SoundSearch, At
<1>7. CASE query.bound /\ ~(Len(rows) >= query.limit)
  <2>1. search' = [rest EXCEPT !.result = rows]
    BY <1>7 DEF Show, Go
  <2>2. /\ DOMAIN search' = DOMAIN search /\ search'.pc = rest.pc /\ search'.result = rows
        /\ search'.ids = rest.ids /\ search'.lefts = rest.lefts
        /\ search'.left = rest.left /\ search'.arcs = rest.arcs
    BY <2>1 DEF SoundSearch
  <2>3. Len(rows) < query.limit
    BY <1>1, <1>2, <1>7
  <2>. HIDE DEF rows
  <2>. QED
    BY <1>2, <2>2, <2>3 DEF SoundSearch, At
<1>. QED
  BY <1>5, <1>6, <1>7

(* The list a lookup gives. *)
LEMMA LookupLists ==
    ASSUME NEW A, A \subseteq VertexIds
    PROVE  /\ sortedKeys(A) \in Seq(A) /\ ToSet(sortedKeys(A)) = A
           /\ \A i, j \in DOMAIN sortedKeys(A) : sortedKeys(A)[i] = sortedKeys(A)[j] => i = j
<1>1. A \in SUBSET Nat /\ IsFiniteSet(A)
  BY IdsAreNumbers, FS_Subset
<1>. QED
  BY <1>1, SortedKeys

(* What the index gives are candidates, whether it is exact or not.        *)
LEMMA LookedUpIds ==
    ASSUME History, Asks({"match"}), query.left # None
    PROVE  LookedUp \subseteq VertexIds /\ LookedUp \subseteq LeftIds
<1>1. query.stale \subseteq VertexIds
  BY StatementsParsed DEF History, QueryGiven, Asks
<1>2. Labelled(query.left) \subseteq VertexIds /\ Labelled(query.left) \subseteq LeftIds
  BY NowLeft, NowFacts DEF Labelled
<1>. QED
  BY <1>1, <1>2 DEF LookedUp, LeftIds

LEMMA LookupSound ==
    ASSUME History, Asks({"match"}), SoundSearch(search), Lookup
    PROVE  SoundSearch(search') /\ ~At("failed")'
<1>1. search.pc = "lookup"
  BY DEF Lookup, Matching, At
<1>2. CASE query.left = None
  <2> DEFINE ids == sortedKeys(DOMAIN vertices)
             lefts == [i \in DOMAIN ids |-> Bind(ids[i])]
  <2>1. ids \in Seq(DOMAIN vertices)
    BY LookupLists, NowFacts
  <2>2. search' = [search EXCEPT !.pc = "scan", !.lefts = lefts]
    BY <1>2 DEF Lookup, Go
  <2>. HIDE DEF ids
  <2>3. DOMAIN ids = 1..Len(ids) /\ Len(ids) \in Nat /\ \A i \in 1..Len(ids) : ids[i] \in DOMAIN vertices
    BY <2>1
  <2>4. \A i \in 1..Len(ids) : Bind(ids[i]) \in Lefts
    BY <1>2, <2>3, NowLeft
  <2>5. lefts \in Seq(Lefts)
    BY <2>3, <2>4
  <2>. HIDE DEF lefts
  <2>6. /\ DOMAIN search' = DOMAIN search /\ search'.pc = "scan" /\ search'.lefts = lefts
        /\ search'.ids = search.ids /\ search'.result = search.result
    BY <2>2 DEF SoundSearch
  <2>. QED
    BY <1>1, <2>5, <2>6 DEF SoundSearch, At
<1>3. CASE query.left # None
  <2> DEFINE ids == sortedKeys(LookedUp)
  <2>1. ids \in Seq(LookedUp)
    BY <1>3, LookupLists, LookedUpIds
  <2>2. LookedUp \subseteq LeftIds
    BY <1>3, LookedUpIds
  <2>3. search' = [search EXCEPT !.pc = "read", !.ids = ids]
    BY <1>3 DEF Lookup, Go
  <2>. HIDE DEF ids
  <2>4. ids \in Seq(LeftIds)
    BY <2>1, <2>2, SeqMonotonic
  <2>5. /\ DOMAIN search' = DOMAIN search /\ search'.pc = "read" /\ search'.ids = ids
        /\ search'.lefts = search.lefts /\ search'.result = search.result
    BY <2>3 DEF SoundSearch
  <2>. QED
    BY <1>1, <2>4, <2>5 DEF SoundSearch, At
<1>. QED
  BY <1>2, <1>3

LEMMA LookupDuringSound ==
    ASSUME History, Asks({"match"}), SoundSearch(search),
           NEW id, NEW c, LookupDuringUpdate(id, c)
    PROVE  SoundSearch(search') /\ ~At("failed")'
<1> DEFINE found == LookedUp \ {id}
           ids == sortedKeys(found)
<1>1. /\ search.pc = "lookup" /\ query.left # None
      /\ search' = [search EXCEPT !.pc = "read", !.ids = ids]
  BY DEF LookupDuringUpdate, Matching, At
<1>2. ids \in Seq(found)
  BY <1>1, LookupLists, LookedUpIds
<1>3. found \subseteq LeftIds
  BY <1>1, LookedUpIds
<1>. HIDE DEF ids, found
<1>4. ids \in Seq(LeftIds)
  BY <1>2, <1>3, SeqMonotonic
<1>5. /\ DOMAIN search' = DOMAIN search /\ search'.pc = "read" /\ search'.ids = ids
      /\ search'.lefts = search.lefts /\ search'.result = search.result
  BY <1>1 DEF SoundSearch
<1>. QED
  BY <1>1, <1>4, <1>5 DEF SoundSearch, At

LEMMA ReadLeftSound ==
    ASSUME History, Asks({"match"}), SoundSearch(search), ReadLeft
    PROVE  SoundSearch(search') /\ ~At("failed")'
<1> DEFINE id == Head(search.ids)
           lefts == IF HasVertex(id) THEN Append(search.lefts, Bind(id)) ELSE search.lefts
<1>1. search.pc = "read" /\ search.ids \in Seq(LeftIds) /\ search.ids # <<>>
  BY DEF ReadLeft, Matching, At, SoundSearch
<1>2. id \in LeftIds /\ Tail(search.ids) \in Seq(LeftIds)
  BY <1>1
<1>3. lefts \in Seq(Lefts)
  <2>1. CASE HasVertex(id)
    <3>1. Bind(id) \in Lefts
      BY <1>2, <2>1, NowBound DEF HasVertex, Lefts
    <3>. QED
      BY <2>1, <3>1, AppendProperties DEF SoundSearch
  <2>. QED
    BY <2>1 DEF SoundSearch
<1>4. search' = [search EXCEPT !.ids = Tail(search.ids), !.lefts = lefts]
  BY DEF ReadLeft, Go
<1>. HIDE DEF lefts
<1>5. /\ DOMAIN search' = DOMAIN search /\ search'.pc = "read" /\ search'.ids = Tail(search.ids)
      /\ search'.lefts = lefts /\ search'.result = search.result
  BY <1>1, <1>4 DEF SoundSearch
<1>. QED
  BY <1>1, <1>2, <1>3, <1>5 DEF SoundSearch, At

LEMMA MatchVerticesSound ==
    ASSUME History, Asks({"match"}), SoundSearch(search), MatchVertices
    PROVE  SoundSearch(search') /\ (At("failed")' => MatchFails')
<1> DEFINE left == Head(search.lefts)
           rest == [search EXCEPT !.lefts = Tail(search.lefts)]
<1>1. search.pc = "scan" /\ query.dir = None /\ search.lefts # <<>>
  BY DEF MatchVertices, Matching, At
<1>2. left \in Lefts /\ Tail(search.lefts) \in Seq(Lefts)
  BY <1>1 DEF SoundSearch
<1>3. /\ DOMAIN rest = DOMAIN search /\ rest.pc = search.pc /\ rest.ids = search.ids
      /\ rest.lefts = Tail(search.lefts) /\ rest.result = search.result
  BY DEF SoundSearch
<1>4. SoundSearch(rest)
  <2>. HIDE DEF rest
  <2>. QED
    BY <1>1, <1>2, <1>3 DEF SoundSearch
<1>5. CASE matchesCondition(left, None, None)
  <2>1. Row(left, None, None) \in GoodRows
    BY <1>1, <1>2, <1>5 DEF Row, GoodRows, RowType
  <2>2. Show(rest, Append(search.result, Row(left, None, None)))
    BY <1>5 DEF MatchVertices
  <2>. HIDE DEF rest
  <2>. QED
    BY <1>1, <1>3, <1>4, <2>1, <2>2, ShowSound
<1>6. CASE ~matchesCondition(left, None, None)
  <2>1. search' = rest
    BY <1>6 DEF MatchVertices, Go
  <2>. QED
    BY <1>1, <1>3, <1>4, <2>1 DEF At
<1>. QED
  BY <1>5, <1>6

LEMMA MatchEdgesSound ==
    ASSUME History, Asks({"match"}), SoundSearch(search), MatchEdges
    PROVE  SoundSearch(search') /\ (At("failed")' => MatchFails')
<1> DEFINE left == Head(search.lefts)
           all == EdgesOf(left.id, query.dir)
           fit == {e \in all \ search.seen : query.label \in {None, edges[e].label}}
           arcs == {<<e, edges[e]>> : e \in fit}
           seen == IF query.dir = "BOTH" THEN search.seen \cup all ELSE search.seen
<1>1. search.pc = "scan" /\ query.dir # None /\ search.lefts # <<>>
  BY DEF MatchEdges, Matching, At
<1>2. left \in Lefts /\ Tail(search.lefts) \in Seq(Lefts)
  BY <1>1 DEF SoundSearch
<1>3. CASE ~HasVertex(left.id)
  <2>1. search' = [search EXCEPT !.pc = "failed", !.result = "vertex"] /\ Reads
    BY <1>3 DEF MatchEdges, Fail, Go, Reads
  <2>2. /\ DOMAIN search' = DOMAIN search /\ search'.pc = "failed" /\ search'.result = "vertex"
        /\ search'.ids = search.ids /\ search'.lefts = search.lefts
    BY <2>1 DEF SoundSearch
  <2>3. left.id \in Ids
    BY <1>2, BindingsDef DEF Lefts, Ids
  <2>4. Deleted'
    BY <1>3, <2>1, <2>3 DEF Deleted, HasVertex, Reads, Ids
  <2>. QED
    BY <1>1, <2>1, <2>2, <2>4 DEF SoundSearch, MatchFails, Reads
<1>4. CASE HasVertex(left.id)
  <2>1. search' = [search EXCEPT !.pc = "join", !.left = left, !.lefts = Tail(search.lefts),
                                 !.seen = seen, !.arcs = arcs]
    BY <1>4 DEF MatchEdges, Go
  <2>2. arcs \subseteq ArcsAt(left)
    <3>1. ASSUME NEW e \in fit
          PROVE  <<e, edges[e]>> \in ArcsAt(left)
      <4>1. /\ e \in DOMAIN edges /\ query.label \in {None, edges[e].label}
            /\ Leads(left, edges[e])
        BY DEF EdgesOf, Leads
      <4>2. e \in EverIds /\ Ever[e] = edges[e]
        BY <4>1, NowEver
      <4>. QED
        BY <4>1, <4>2 DEF ArcsAt
    <3>. QED
      BY <3>1
  <2>. HIDE DEF arcs, seen
  <2>3. /\ DOMAIN search' = DOMAIN search /\ search'.pc = "join" /\ search'.left = left
        /\ search'.lefts = Tail(search.lefts) /\ search'.arcs = arcs
        /\ search'.ids = search.ids /\ search'.result = search.result
    BY <2>1 DEF SoundSearch
  <2>. QED
    BY <1>1, <1>2, <2>2, <2>3 DEF SoundSearch, At
<1>. QED
  BY <1>3, <1>4

LEMMA JoinGood ==
    ASSUME History, Asks({"match"}), SoundSearch(search), NEW arc \in search.arcs, Join(arc),
           HasVertex(Other(arc[2], search.left.id, query.dir)),
           query.right = None \/ Other(arc[2], search.left.id, query.dir) \in Labelled(query.right),
           matchesCondition(search.left, arc[2], Bind(Other(arc[2], search.left.id, query.dir)))
    PROVE  Row(search.left, arc[1], Bind(Other(arc[2], search.left.id, query.dir))) \in GoodRows
<1> DEFINE id == Other(arc[2], search.left.id, query.dir)
<1>1. /\ query.dir # None /\ search.left \in Lefts /\ arc \in ArcsAt(search.left)
  BY DEF Join, Matching, At, SoundSearch
<1>2. PICK e \in EverIds : /\ arc = <<e, Ever[e]>> /\ Leads(search.left, Ever[e])
                           /\ query.label \in {None, Ever[e].label}
  BY <1>1 DEF ArcsAt
<1>3. arc[1] = e /\ arc[2] = Ever[e]
  BY <1>2
<1>4. Bind(id) \in Bindings /\ Bind(id).id = id /\ Bind(id).content = vertices[id]
  BY NowBound DEF HasVertex
<1>5. query.right = None \/ query.right \in Bind(id).content.labels
  BY <1>4 DEF Labelled
<1>6. \/ query.dir # "IN" /\ Ever[e].from = search.left.id /\ Ever[e].to = id
      \/ query.dir # "OUT" /\ Ever[e].to = search.left.id /\ Ever[e].from = id
  BY <1>2, <1>3 DEF Leads, Other
<1>7. Fits(Ever, search.left, e, Bind(id))
  BY <1>2, <1>3, <1>4, <1>5, <1>6 DEF Fits
<1>. QED
  BY <1>1, <1>2, <1>3, <1>4, <1>7 DEF Row, GoodRows, RowType

LEMMA JoinSound ==
    ASSUME History, Asks({"match"}), SoundSearch(search), NEW arc \in search.arcs, Join(arc)
    PROVE  SoundSearch(search') /\ (At("failed")' => MatchFails')
<1> DEFINE id == Other(arc[2], search.left.id, query.dir)
           rest == [search EXCEPT !.arcs = search.arcs \ {arc}]
           row == Row(search.left, arc[1], Bind(id))
           skips == \/ ~HasVertex(id)
                    \/ query.right # None /\ id \notin Labelled(query.right)
                    \/ ~matchesCondition(search.left, arc[2], Bind(id))
<1>1. /\ search.pc = "join" /\ query.dir # None
      /\ search.left \in Lefts /\ arc \in ArcsAt(search.left)
  BY DEF Join, Matching, At, SoundSearch
<1>4. /\ DOMAIN rest = DOMAIN search /\ rest.pc = search.pc /\ rest.ids = search.ids
      /\ rest.lefts = search.lefts /\ rest.result = search.result /\ rest.left = search.left
      /\ rest.arcs = search.arcs \ {arc}
  BY DEF SoundSearch
<1>5. SoundSearch(rest)
  <2>. HIDE DEF rest
  <2>. QED
    BY <1>1, <1>4 DEF SoundSearch
<1>6. CASE skips
  <2>1. search' = rest
    BY <1>6 DEF Join, Go
  <2>. QED
    BY <1>1, <1>4, <1>5, <2>1 DEF At
<1>7. CASE ~skips
  <2>1. Show(rest, Append(search.result, row))
    BY <1>7 DEF Join
  <2>3. row \in GoodRows
    BY <1>7, JoinGood
  <2>. HIDE DEF rest, row
  <2>. QED
    BY <1>1, <1>4, <1>5, <2>1, <2>3, ShowSound
<1>. QED
  BY <1>6, <1>7


LEMMA LastStepsSound ==
    ASSUME History, Asks({"match"}), SoundSearch(search), Scan \/ NextLeft \/ NoMoreLefts
    PROVE  SoundSearch(search') /\ ~At("failed")'
<1>1. CASE Scan \/ NextLeft
  <2>1. search' = [search EXCEPT !.pc = "scan"] /\ search.pc \in {"read", "join"}
    BY <1>1 DEF Scan, NextLeft, Matching, At, Go
  <2>2. /\ DOMAIN search' = DOMAIN search /\ search'.pc = "scan" /\ search'.ids = search.ids
        /\ search'.lefts = search.lefts /\ search'.result = search.result
    BY <2>1 DEF SoundSearch
  <2>. QED
    BY <2>1, <2>2 DEF SoundSearch, At
<1>2. CASE NoMoreLefts
  <2>1. /\ search' = [search EXCEPT !.pc = "done", !.result = search.result]
        /\ search.pc = "scan"
    BY <1>2 DEF NoMoreLefts, Matching, At, Answer, Go
  <2>2. /\ DOMAIN search' = DOMAIN search /\ search'.pc = "done" /\ search'.ids = search.ids
        /\ search'.lefts = search.lefts /\ search'.result = search.result
    BY <2>1 DEF SoundSearch
  <2>3. search.result \in Seq(GoodRows) /\ Len(search.result) \in Nat
    BY <2>1 DEF SoundSearch
  <2>4. Len(search.result) = 0 \/ Len(search.result) < query.limit
    BY <2>1 DEF SoundSearch
  <2>5. Len(search.result) =< 1 \/ Len(search.result) =< query.limit
    <3>1. query.limit \in Nat
      BY StatementsParsed DEF History, QueryGiven, Asks
    <3>. QED
      BY <2>3, <2>4, <3>1
  <2>. QED
    BY <2>1, <2>2, <2>3, <2>5 DEF SoundSearch, At
<1>. QED
  BY <1>1, <1>2

LEMMA MatchStepSound ==
    ASSUME History, Asks({"match"}), SoundSearch(search), Match
    PROVE  SoundSearch(search') /\ (At("failed")' => MatchFails')
BY LookupSound, ReadLeftSound, MatchVerticesSound, MatchEdgesSound, JoinSound, LastStepsSound
DEF Match

LEMMA InitMatchSound == Init => MatchSound
<1>. SUFFICES ASSUME Init, Asks({"match"}) PROVE MatchSound
  BY DEF MatchSound
<1>1. search = NewMatch
  BY DEF Init
<1>2. SoundSearch(search)
  BY <1>1 DEF SoundSearch, NewMatch
<1>. QED
  BY <1>1, <1>2 DEF MatchSound, NewMatch, At

LEMMA NextMatchSound ==
    ASSUME History, MatchSound, [Next]_vars
    PROVE  MatchSound'
<1>1. Moves
  BY NextMoves
<1>2. SUFFICES ASSUME Asks({"match"})
               PROVE  SoundSearch(search') /\ (At("failed")' => MatchFails')
  BY <1>1, SoundGrows DEF MatchSound, Moves, Asks
<1>3. SoundSearch(search) /\ (At("failed") => MatchFails)
  BY <1>2 DEF MatchSound
<1>4. CASE UNCHANGED vars
  BY <1>3, <1>4 DEF vars, At, MatchFails, Deleted, Ids
<1>5. CASE Handle
  BY <1>2, <1>3, <1>5, HandleByKind, MatchStepSound DEF Asks, SearchKinds
<1>6. CASE Write
  BY <1>3, <1>6, WriteKeeps DEF Open, At
<1>7. CASE \E id \in VertexIds, c \in VertexContents : LookupDuringUpdate(id, c)
  BY <1>2, <1>3, <1>7, LookupDuringSound DEF At
<1>. QED
  BY <1>4, <1>5, <1>6, <1>7 DEF Next
-----------------------------------------------------------------------------
(***************************************************************************)
(* MATCH: no row is shown twice.                                           *)
(***************************************************************************)

(* Rows differ in their edge or come from different candidates; in an      *)
(* undirected pattern they differ in their edge.                           *)
RowsDistinct(rows) ==
    \A i, j \in DOMAIN rows :
        /\ rows[i].edge = rows[j].edge
        /\ query.dir = "BOTH" \/ rows[i].left.id = rows[j].left.id
        => i = j

(* Nothing left to do gives the row again. *)
Fresh(s, row) ==
    /\ s.pc \in {"scan", "join"} => \A j \in DOMAIN s.lefts : row.left.id # s.lefts[j].id
    /\ s.pc = "join" => \A arc \in s.arcs : row.left.id = s.left.id => row.edge # arc[1]
    /\ query.dir = "BOTH" =>
          /\ row.edge \in s.seen
          /\ s.pc = "join" => \A arc \in s.arcs : row.edge # arc[1]

DistinctLefts(s) ==
    /\ \A i, j \in DOMAIN s.ids : s.ids[i] = s.ids[j] => i = j
    /\ \A i, j \in DOMAIN s.lefts : s.lefts[i].id = s.lefts[j].id => i = j
    /\ \A i \in DOMAIN s.ids, j \in DOMAIN s.lefts : s.ids[i] # s.lefts[j].id
    /\ s.pc = "lookup" => s.ids = <<>> /\ s.lefts = <<>>
    /\ s.pc \in {"lookup", "read"} => s.result = <<>>
    /\ s.pc \in {"scan", "join"} => s.ids = <<>>
    /\ s.pc = "join" => \A j \in DOMAIN s.lefts : s.left.id # s.lefts[j].id

DistinctSearch(s) ==
    /\ DistinctLefts(s)
    /\ s.pc = "join" /\ query.dir = "BOTH" => \A arc \in s.arcs : arc[1] \in s.seen
    /\ s.pc # "failed" => /\ RowsDistinct(s.result)
                          /\ \A i \in DOMAIN s.result : Fresh(s, s.result[i])

MatchDistinct == Asks({"match"}) => DistinctSearch(search)

LEMMA InitMatchDistinct == Init => MatchDistinct
<1>. SUFFICES ASSUME Init, Asks({"match"}) PROVE MatchDistinct
  BY DEF MatchDistinct
<1>1. search = NewMatch
  BY DEF Init
<1>. QED
  BY <1>1 DEF MatchDistinct, DistinctSearch, DistinctLefts, RowsDistinct, NewMatch

LEMMA DistinctGrows ==
    ASSUME query' = query, DistinctSearch(search')
    PROVE  DistinctSearch(search)'
BY DEF DistinctSearch, DistinctLefts, RowsDistinct, Fresh

LEMMA ShowDistinct ==
    ASSUME Asks({"match"}), SoundSearch(search), DistinctSearch(search),
           search.pc \in {"scan", "join"},
           NEW rest, DOMAIN rest = DOMAIN search, rest.pc = search.pc, rest.result = search.result,
           rest.seen = search.seen, DistinctSearch(rest),
           NEW row \in GoodRows, Show(rest, Append(search.result, row)),
           Fresh(rest, row),
           \A i \in DOMAIN search.result :
              ~(/\ search.result[i].edge = row.edge
                /\ query.dir = "BOTH" \/ search.result[i].left.id = row.left.id)
    PROVE  DistinctSearch(search')
<1> DEFINE old == search.result
           rows == Append(old, row)
<1>1. /\ old \in Seq(GoodRows) /\ Len(old) \in Nat /\ DOMAIN old = 1..Len(old)
      /\ DOMAIN rows = 1..(Len(old) + 1) /\ rows[Len(old) + 1] = row
      /\ \A i \in 1..Len(old) : rows[i] = old[i]
  BY AppendProperties, LenProperties DEF SoundSearch
<1>2. /\ RowsDistinct(old)
      /\ \A i \in DOMAIN old : Fresh(rest, old[i])
  BY DEF DistinctSearch
<1>3. \A i \in DOMAIN rows : i \in DOMAIN old \/ (i = Len(old) + 1 /\ rows[i] = row)
  BY <1>1
<1>. HIDE DEF rows
<1>4. RowsDistinct(rows)
  <2>1. ASSUME NEW i \in DOMAIN rows, NEW j \in DOMAIN rows, rows[i].edge = rows[j].edge,
               query.dir = "BOTH" \/ rows[i].left.id = rows[j].left.id
        PROVE  i = j
    <3>1. CASE i \in DOMAIN old /\ j \in DOMAIN old
      BY <1>1, <1>2, <2>1, <3>1 DEF RowsDistinct
    <3>2. CASE i \in DOMAIN old /\ j \notin DOMAIN old
      BY <1>1, <1>3, <2>1, <3>2
    <3>3. CASE i \notin DOMAIN old /\ j \in DOMAIN old
      BY <1>1, <1>3, <2>1, <3>3
    <3>4. CASE i \notin DOMAIN old /\ j \notin DOMAIN old
      BY <1>3, <3>4
    <3>. QED
      BY <3>1, <3>2, <3>3, <3>4
  <2>. QED
    BY <2>1 DEF RowsDistinct
<1>5. \A i \in DOMAIN rows : Fresh(rest, rows[i])
  BY <1>1, <1>2, <1>3
<1>6. DOMAIN search = {"pc", "ids", "lefts", "left", "arcs", "seen", "result"}
  BY DEF SoundSearch
<1>7. CASE ~query.bound
  <2>1. search' = [search EXCEPT !.pc = "failed", !.result = "variable"]
    BY <1>7 DEF Show, Fail, Go
  <2>2. /\ search'.pc = "failed" /\ search'.ids = search.ids /\ search'.lefts = search.lefts
    BY <1>6, <2>1
  <2>. QED
    BY <2>2 DEF DistinctSearch, DistinctLefts
<1>8. CASE query.bound /\ Len(rows) >= query.limit
  <2>1. search' = [search EXCEPT !.pc = "done", !.result = rows]
    BY <1>8 DEF Show, Answer, Go, rows
  <2>2. /\ search'.pc = "done" /\ search'.ids = search.ids /\ search'.lefts = search.lefts
        /\ search'.result = rows /\ search'.seen = search.seen
    BY <1>6, <2>1
  <2>3. \A i \in DOMAIN rows : query.dir = "BOTH" => rows[i].edge \in rest.seen
    BY <1>5 DEF Fresh
  <2>. QED
    BY <1>4, <2>2, <2>3 DEF DistinctSearch, DistinctLefts, Fresh
<1>9. CASE query.bound /\ ~(Len(rows) >= query.limit)
  <2>1. search' = [rest EXCEPT !.result = rows]
    BY <1>9 DEF Show, Go, rows
  <2>2. /\ search'.pc = rest.pc /\ search'.ids = rest.ids /\ search'.lefts = rest.lefts
        /\ search'.result = rows /\ search'.seen = rest.seen
        /\ search'.left = rest.left /\ search'.arcs = rest.arcs
    BY <1>6, <2>1
  <2>. QED
    BY <1>4, <1>5, <2>2 DEF DistinctSearch, DistinctLefts, Fresh
<1>. QED
  BY <1>7, <1>8, <1>9


LEMMA TailFacts ==
    ASSUME NEW S, NEW s \in Seq(S), s # <<>>
    PROVE  /\ Head(s) \in S /\ Head(s) = s[1] /\ 1 \in DOMAIN s
           /\ Tail(s) \in Seq(S) /\ Len(Tail(s)) = Len(s) - 1
           /\ \A i \in DOMAIN Tail(s) : i \in Nat /\ i + 1 \in DOMAIN s /\ i + 1 # 1 /\ Tail(s)[i] = s[i + 1]
           /\ \A i \in DOMAIN s : i = 1 \/ (i - 1 \in DOMAIN Tail(s) /\ Tail(s)[i - 1] = s[i])
<1>1. Len(s) \in Nat /\ Len(s) >= 1 /\ DOMAIN s = 1..Len(s) /\ 1 \in DOMAIN s
  BY EmptySeq, LenProperties
<1>2. /\ Head(s) \in S /\ Head(s) = s[1] /\ Tail(s) \in Seq(S) /\ Len(Tail(s)) = Len(s) - 1
      /\ \A i \in 1..Len(Tail(s)) : Tail(s)[i] = s[i + 1]
  BY <1>1, HeadTailProperties
<1>3. DOMAIN Tail(s) = 1..(Len(s) - 1)
  BY <1>2, LenProperties
<1>4. ASSUME NEW i \in DOMAIN Tail(s)
      PROVE  i \in Nat /\ i + 1 \in DOMAIN s /\ i + 1 # 1 /\ Tail(s)[i] = s[i + 1]
  BY <1>1, <1>2, <1>3
<1>5. ASSUME NEW i \in DOMAIN s
      PROVE  i = 1 \/ (i - 1 \in DOMAIN Tail(s) /\ Tail(s)[i - 1] = s[i])
  <2>1. i # 1 => i - 1 \in 1..(Len(s) - 1) /\ (i - 1) + 1 = i
    BY <1>1
  <2>. QED
    BY <1>2, <1>3, <2>1
<1>. QED
  BY <1>1, <1>2, <1>4, <1>5

LEMMA AppendFacts ==
    ASSUME NEW S, NEW s \in Seq(S), NEW x \in S
    PROVE  /\ Append(s, x) \in Seq(S) /\ Len(Append(s, x)) = Len(s) + 1 /\ Len(s) \in Nat
           /\ Len(s) + 1 \in DOMAIN Append(s, x) /\ Append(s, x)[Len(s) + 1] = x
           /\ \A i \in DOMAIN s : i \in DOMAIN Append(s, x) /\ Append(s, x)[i] = s[i]
           /\ \A i \in DOMAIN Append(s, x) : i \in DOMAIN s \/ i = Len(s) + 1
<1>1. Len(s) \in Nat /\ DOMAIN s = 1..Len(s)
  BY LenProperties
<1>2. /\ Append(s, x) \in Seq(S) /\ Len(Append(s, x)) = Len(s) + 1
      /\ \A i \in 1..Len(s) : Append(s, x)[i] = s[i]
      /\ Append(s, x)[Len(s) + 1] = x
  BY AppendProperties
<1>3. DOMAIN Append(s, x) = 1..(Len(s) + 1)
  BY <1>2, LenProperties
<1>. QED
  BY <1>1, <1>2, <1>3

LEMMA LookupDistinct ==
    ASSUME History, Asks({"match"}), SoundSearch(search), DistinctSearch(search), Lookup
    PROVE  DistinctSearch(search')
<1>0. DOMAIN search = {"pc", "ids", "lefts", "left", "arcs", "seen", "result"}
  BY DEF SoundSearch
<1>1. search.pc = "lookup" /\ search.ids = <<>> /\ search.lefts = <<>> /\ search.result = <<>>
  BY DEF Lookup, Matching, At, DistinctSearch, DistinctLefts
<1>2. CASE query.left = None
  <2> DEFINE ids == sortedKeys(DOMAIN vertices)
             lefts == [i \in DOMAIN ids |-> Bind(ids[i])]
  <2>1. ids \in Seq(DOMAIN vertices) /\ \A i, j \in DOMAIN ids : ids[i] = ids[j] => i = j
    BY LookupLists, NowFacts
  <2>2. search' = [search EXCEPT !.pc = "scan", !.lefts = lefts]
    BY <1>2 DEF Lookup, Go
  <2>. HIDE DEF ids
  <2>3. DOMAIN lefts = DOMAIN ids /\ \A i \in DOMAIN ids : lefts[i].id = ids[i]
    BY DEF Bind
  <2>. HIDE DEF lefts
  <2>4. /\ search'.pc = "scan" /\ search'.lefts = lefts
        /\ search'.ids = search.ids /\ search'.result = search.result
    BY <1>0, <2>2
  <2>. QED
    BY <1>1, <2>1, <2>3, <2>4 DEF DistinctSearch, DistinctLefts, RowsDistinct
<1>3. CASE query.left # None
  <2> DEFINE ids == sortedKeys(LookedUp)
  <2>1. \A i, j \in DOMAIN ids : ids[i] = ids[j] => i = j
    BY <1>3, LookupLists, LookedUpIds
  <2>2. search' = [search EXCEPT !.pc = "read", !.ids = ids]
    BY <1>3 DEF Lookup, Go
  <2>. HIDE DEF ids
  <2>3. /\ search'.pc = "read" /\ search'.ids = ids
        /\ search'.lefts = search.lefts /\ search'.result = search.result
    BY <1>0, <2>2
  <2>. QED
    BY <1>1, <2>1, <2>3 DEF DistinctSearch, DistinctLefts, RowsDistinct
<1>. QED
  BY <1>2, <1>3

LEMMA LookupDuringDistinct ==
    ASSUME History, Asks({"match"}), SoundSearch(search), DistinctSearch(search),
           NEW id, NEW c, LookupDuringUpdate(id, c)
    PROVE  DistinctSearch(search')
<1> DEFINE ids == sortedKeys(LookedUp \ {id})
<1>0. DOMAIN search = {"pc", "ids", "lefts", "left", "arcs", "seen", "result"}
  BY DEF SoundSearch
<1>1. /\ search.pc = "lookup" /\ query.left # None
      /\ search' = [search EXCEPT !.pc = "read", !.ids = ids]
  BY DEF LookupDuringUpdate, Matching, At
<1>2. search.lefts = <<>> /\ search.result = <<>>
  BY <1>1 DEF DistinctSearch, DistinctLefts
<1>3. \A i, j \in DOMAIN ids : ids[i] = ids[j] => i = j
  BY <1>1, LookupLists, LookedUpIds
<1>. HIDE DEF ids
<1>4. /\ search'.pc = "read" /\ search'.ids = ids
      /\ search'.lefts = search.lefts /\ search'.result = search.result
  BY <1>0, <1>1
<1>. QED
  BY <1>2, <1>3, <1>4 DEF DistinctSearch, DistinctLefts, RowsDistinct

LEMMA ReadLeftDistinct ==
    ASSUME History, Asks({"match"}), SoundSearch(search), DistinctSearch(search), ReadLeft
    PROVE  DistinctSearch(search')
<1> DEFINE id == Head(search.ids)
           rest == Tail(search.ids)
           lefts == IF HasVertex(id) THEN Append(search.lefts, Bind(id)) ELSE search.lefts
<1>0. DOMAIN search = {"pc", "ids", "lefts", "left", "arcs", "seen", "result"}
  BY DEF SoundSearch
<1>1. search.pc = "read" /\ search.ids \in Seq(LeftIds) /\ search.ids # <<>>
  BY DEF ReadLeft, Matching, At, SoundSearch
<1>2. /\ id = search.ids[1] /\ 1 \in DOMAIN search.ids
      /\ \A i \in DOMAIN rest : /\ i \in Nat /\ i + 1 \in DOMAIN search.ids /\ i + 1 # 1
                                /\ rest[i] = search.ids[i + 1]
  BY <1>1, TailFacts
<1>3. search' = [search EXCEPT !.ids = rest, !.lefts = lefts]
  BY DEF ReadLeft, Go
<1>4. \A i \in DOMAIN lefts :
          \/ i \in DOMAIN search.lefts /\ lefts[i] = search.lefts[i]
          \/ i = Len(search.lefts) + 1 /\ i \notin DOMAIN search.lefts /\ lefts[i].id = id
  <2>1. search.lefts \in Seq(Lefts)
    BY DEF SoundSearch
  <2>2. CASE HasVertex(id)
    <3>1. Bind(id) \in Lefts /\ Bind(id).id = id
      <4>1. id \in LeftIds
        BY <1>1
      <4>. QED
        BY <2>2, <4>1, NowBound DEF HasVertex, Lefts
    <3>2. DOMAIN search.lefts = 1..Len(search.lefts) /\ Len(search.lefts) \in Nat
      BY <2>1, LenProperties
    <3>. QED
      BY <2>1, <2>2, <3>1, <3>2, AppendFacts
  <2>3. CASE ~HasVertex(id)
    BY <2>3
  <2>. QED
    BY <2>2, <2>3
<1>. HIDE DEF lefts, rest, id
<1>5. /\ search'.pc = "read" /\ search'.ids = rest
      /\ search'.lefts = lefts /\ search'.result = search.result
  BY <1>0, <1>1, <1>3
<1>6. ASSUME NEW i \in DOMAIN rest, NEW j \in DOMAIN rest, rest[i] = rest[j]
      PROVE  i = j
  <2>1. i + 1 = j + 1
    BY <1>2, <1>6 DEF DistinctSearch, DistinctLefts
  <2>. QED
    BY <1>2, <2>1
<1>7. \A i \in DOMAIN rest : rest[i] # id
  BY <1>2 DEF DistinctSearch, DistinctLefts
<1>8. \A j \in DOMAIN search.lefts : search.lefts[j].id # id
  BY <1>2 DEF DistinctSearch, DistinctLefts
<1>9. ASSUME NEW i \in DOMAIN lefts, NEW j \in DOMAIN lefts, lefts[i].id = lefts[j].id
      PROVE  i = j
  BY <1>4, <1>8, <1>9 DEF DistinctSearch, DistinctLefts
<1>10. ASSUME NEW i \in DOMAIN rest, NEW j \in DOMAIN lefts
       PROVE  rest[i] # lefts[j].id
  BY <1>2, <1>4, <1>7 DEF DistinctSearch, DistinctLefts
<1>11. search.result = <<>>
  BY <1>1 DEF DistinctSearch, DistinctLefts
<1>. QED
  BY <1>5, <1>6, <1>9, <1>10, <1>11 DEF DistinctSearch, DistinctLefts, RowsDistinct

(* The candidates that are left, once the first is taken. *)
LEMMA TakenDistinct ==
    ASSUME SoundSearch(search), DistinctSearch(search), search.lefts # <<>>, search.pc = "scan",
           NEW taken, DOMAIN taken = DOMAIN search,
           taken.lefts = Tail(search.lefts), taken.ids = search.ids, taken.result = search.result,
           taken.pc \in {"scan", "join"}, taken.pc = "join" => taken.left = Head(search.lefts)
    PROVE  /\ DistinctLefts(taken)
           /\ \A j \in DOMAIN taken.lefts : Head(search.lefts).id # taken.lefts[j].id
           /\ \A i \in DOMAIN search.result, j \in DOMAIN taken.lefts :
                 search.result[i].left.id # taken.lefts[j].id
           /\ \A i \in DOMAIN search.result : search.result[i].left.id # Head(search.lefts).id
<1> DEFINE left == Head(search.lefts)
           rest == Tail(search.lefts)
<1>1. /\ left = search.lefts[1] /\ 1 \in DOMAIN search.lefts
      /\ \A i \in DOMAIN rest : /\ i \in Nat /\ i + 1 \in DOMAIN search.lefts /\ i + 1 # 1
                                /\ rest[i] = search.lefts[i + 1]
  <2>1. search.lefts \in Seq(Lefts)
    BY DEF SoundSearch
  <2>. QED
    BY <2>1, TailFacts
<1>. HIDE DEF left, rest
<1>2. ASSUME NEW i \in DOMAIN rest, NEW j \in DOMAIN rest, rest[i].id = rest[j].id
      PROVE  i = j
  <2>1. i + 1 = j + 1
    BY <1>1, <1>2 DEF DistinctSearch, DistinctLefts
  <2>. QED
    BY <1>1, <2>1
<1>3. \A j \in DOMAIN rest : left.id # rest[j].id
  BY <1>1 DEF DistinctSearch, DistinctLefts
<1>4. \A i \in DOMAIN search.result : \A j \in DOMAIN search.lefts :
          search.result[i].left.id # search.lefts[j].id
  BY DEF DistinctSearch, Fresh
<1>5. search.ids = <<>>
  BY DEF DistinctSearch, DistinctLefts
<1>6. DistinctLefts(taken)
  BY <1>2, <1>3, <1>5 DEF DistinctLefts, left, rest
<1>. QED
  BY <1>1, <1>3, <1>4, <1>6 DEF left, rest


LEMMA MatchVerticesDistinct ==
    ASSUME History, Asks({"match"}), SoundSearch(search), DistinctSearch(search), MatchVertices
    PROVE  DistinctSearch(search')
<1> DEFINE left == Head(search.lefts)
           rest == [search EXCEPT !.lefts = Tail(search.lefts)]
           row == Row(left, None, None)
<1>0. DOMAIN search = {"pc", "ids", "lefts", "left", "arcs", "seen", "result"}
  BY DEF SoundSearch
<1>1. search.pc = "scan" /\ query.dir = None /\ search.lefts # <<>>
  BY DEF MatchVertices, Matching, At
<1>2. query.dir # "BOTH"
  BY <1>1, StatementsParsed
<1>3. /\ DOMAIN rest = DOMAIN search /\ rest.pc = search.pc /\ rest.ids = search.ids
      /\ rest.lefts = Tail(search.lefts) /\ rest.result = search.result /\ rest.seen = search.seen
  BY <1>0
<1>4. left \in Lefts
  <2>1. search.lefts \in Seq(Lefts)
    BY DEF SoundSearch
  <2>. QED
    BY <1>1, <2>1, TailFacts
<1>. HIDE DEF rest
<1>5. /\ DistinctLefts(rest)
      /\ \A j \in DOMAIN rest.lefts : left.id # rest.lefts[j].id
      /\ \A i \in DOMAIN search.result, j \in DOMAIN rest.lefts :
            search.result[i].left.id # rest.lefts[j].id
      /\ \A i \in DOMAIN search.result : search.result[i].left.id # left.id
  BY <1>1, <1>3, TakenDistinct
<1>6. DistinctSearch(rest)
  <2>1. RowsDistinct(rest.result)
    BY <1>1, <1>3 DEF DistinctSearch
  <2>. QED
    BY <1>1, <1>2, <1>3, <1>5, <2>1 DEF DistinctSearch, Fresh
<1>7. CASE matchesCondition(left, None, None)
  <2>1. row \in GoodRows /\ row.left = left
    BY <1>1, <1>4, <1>7 DEF Row, GoodRows, RowType
  <2>2. Show(rest, Append(search.result, row))
    BY <1>7 DEF MatchVertices, rest
  <2>3. Fresh(rest, row)
    BY <1>1, <1>2, <1>3, <1>5, <2>1 DEF Fresh
  <2>. HIDE DEF row
  <2>. QED
    BY <1>1, <1>2, <1>3, <1>5, <1>6, <2>1, <2>2, <2>3, ShowDistinct
<1>8. CASE ~matchesCondition(left, None, None)
  <2>1. search' = rest
    BY <1>8 DEF MatchVertices, Go, rest
  <2>. QED
    BY <1>6, <2>1
<1>. QED
  BY <1>7, <1>8

LEMMA MatchEdgesDistinct ==
    ASSUME History, Asks({"match"}), SoundSearch(search), DistinctSearch(search), MatchEdges
    PROVE  DistinctSearch(search')
<1> DEFINE left == Head(search.lefts)
           all == EdgesOf(left.id, query.dir)
           fit == {e \in all \ search.seen : query.label \in {None, edges[e].label}}
           arcs == {<<e, edges[e]>> : e \in fit}
           seen == IF query.dir = "BOTH" THEN search.seen \cup all ELSE search.seen
<1>0. DOMAIN search = {"pc", "ids", "lefts", "left", "arcs", "seen", "result"}
  BY DEF SoundSearch
<1>1. search.pc = "scan" /\ search.lefts # <<>>
  BY DEF MatchEdges, Matching, At
<1>2. CASE ~HasVertex(left.id)
  <2>1. search' = [search EXCEPT !.pc = "failed", !.result = "vertex"]
    BY <1>2 DEF MatchEdges, Fail, Go
  <2>2. /\ search'.pc = "failed" /\ search'.ids = search.ids /\ search'.lefts = search.lefts
    BY <1>0, <2>1
  <2>. QED
    BY <2>2 DEF DistinctSearch, DistinctLefts
<1>3. CASE HasVertex(left.id)
  <2>1. search' = [search EXCEPT !.pc = "join", !.left = left, !.lefts = Tail(search.lefts),
                                 !.seen = seen, !.arcs = arcs]
    BY <1>3 DEF MatchEdges, Go
  <2>2. \A arc \in arcs : arc[1] \in all /\ arc[1] \notin search.seen
    OBVIOUS
  <2>. HIDE DEF arcs, all
  <2>3. /\ DOMAIN search' = DOMAIN search /\ search'.pc = "join" /\ search'.left = left
        /\ search'.lefts = Tail(search.lefts) /\ search'.arcs = arcs /\ search'.seen = seen
        /\ search'.ids = search.ids /\ search'.result = search.result
    BY <1>0, <2>1
  <2>4. /\ DistinctLefts(search')
        /\ \A i \in DOMAIN search.result, j \in DOMAIN search'.lefts :
              search.result[i].left.id # search'.lefts[j].id
        /\ \A i \in DOMAIN search.result : search.result[i].left.id # left.id
    BY <1>1, <2>3, TakenDistinct
  <2>5. \A i \in DOMAIN search.result : query.dir = "BOTH" => search.result[i].edge \in search.seen
    BY <1>1 DEF DistinctSearch, Fresh
  <2>6. \A i \in DOMAIN search.result : Fresh(search', search.result[i])
    BY <2>2, <2>3, <2>4, <2>5 DEF Fresh
  <2>7. query.dir = "BOTH" => \A arc \in search'.arcs : arc[1] \in search'.seen
    BY <2>2, <2>3
  <2>. QED
    BY <1>1, <2>3, <2>4, <2>6, <2>7 DEF DistinctSearch
<1>. QED
  BY <1>2, <1>3

LEMMA JoinDistinct ==
    ASSUME History, Asks({"match"}), SoundSearch(search), DistinctSearch(search),
           NEW arc \in search.arcs, Join(arc)
    PROVE  DistinctSearch(search')
<1> DEFINE id == Other(arc[2], search.left.id, query.dir)
           rest == [search EXCEPT !.arcs = search.arcs \ {arc}]
           row == Row(search.left, arc[1], Bind(id))
           skips == \/ ~HasVertex(id)
                    \/ query.right # None /\ id \notin Labelled(query.right)
                    \/ ~matchesCondition(search.left, arc[2], Bind(id))
<1>0. DOMAIN search = {"pc", "ids", "lefts", "left", "arcs", "seen", "result"}
  BY DEF SoundSearch
<1>1. search.pc = "join" /\ search.arcs \subseteq ArcsAt(search.left)
  BY DEF Join, Matching, At, SoundSearch
<1>2. /\ DOMAIN rest = DOMAIN search /\ rest.pc = search.pc /\ rest.ids = search.ids
      /\ rest.lefts = search.lefts /\ rest.result = search.result /\ rest.left = search.left
      /\ rest.arcs = search.arcs \ {arc} /\ rest.seen = search.seen
  BY <1>0
<1>. HIDE DEF rest
<1>3. DistinctSearch(rest)
  BY <1>1, <1>2 DEF DistinctSearch, DistinctLefts, Fresh
<1>4. \A other \in rest.arcs : other[1] # arc[1]
  BY <1>1, <1>2 DEF ArcsAt
<1>5. CASE skips
  <2>1. search' = rest
    BY <1>5 DEF Join, Go, rest
  <2>. QED
    BY <1>3, <2>1
<1>6. CASE ~skips
  <2>1. Show(rest, Append(search.result, row))
    BY <1>6 DEF Join, rest
  <2>2. row.left = search.left /\ row.edge = arc[1]
    BY DEF Row
  <2>3. row \in GoodRows
    BY <1>6, JoinGood
  <2>. HIDE DEF row, skips, id
  <2>4. Fresh(rest, row)
    BY <1>1, <1>2, <1>4, <2>2 DEF Fresh, DistinctSearch, DistinctLefts
  <2>5. \A i \in DOMAIN search.result :
              ~(/\ search.result[i].edge = row.edge
                /\ query.dir = "BOTH" \/ search.result[i].left.id = row.left.id)
    BY <1>1, <2>2 DEF Fresh, DistinctSearch
  <2>. QED
    BY <1>1, <1>2, <1>3, <2>1, <2>3, <2>4, <2>5, ShowDistinct
<1>. QED
  BY <1>5, <1>6

LEMMA LastStepsDistinct ==
    ASSUME Asks({"match"}), SoundSearch(search), DistinctSearch(search),
           Scan \/ NextLeft \/ NoMoreLefts
    PROVE  DistinctSearch(search')
<1>0. DOMAIN search = {"pc", "ids", "lefts", "left", "arcs", "seen", "result"}
  BY DEF SoundSearch
<1>1. CASE Scan
  <2>1. search' = [search EXCEPT !.pc = "scan"] /\ search.pc = "read" /\ search.ids = <<>>
    BY <1>1 DEF Scan, Matching, At, Go
  <2>2. /\ search'.pc = "scan" /\ search'.ids = search.ids
        /\ search'.lefts = search.lefts /\ search'.result = search.result
    BY <1>0, <2>1
  <2>3. search.result = <<>>
    BY <2>1 DEF DistinctSearch, DistinctLefts
  <2>. QED
    BY <2>1, <2>2, <2>3 DEF DistinctSearch, DistinctLefts, RowsDistinct
<1>2. CASE NextLeft
  <2>1. search' = [search EXCEPT !.pc = "scan"] /\ search.pc = "join"
    BY <1>2 DEF NextLeft, Matching, At, Go
  <2>2. /\ search'.pc = "scan" /\ search'.ids = search.ids /\ search'.seen = search.seen
        /\ search'.lefts = search.lefts /\ search'.result = search.result
    BY <1>0, <2>1
  <2>. QED
    BY <2>1, <2>2 DEF DistinctSearch, DistinctLefts, RowsDistinct, Fresh
<1>3. CASE NoMoreLefts
  <2>1. /\ search' = [search EXCEPT !.pc = "done", !.result = search.result]
        /\ search.pc = "scan"
    BY <1>3 DEF NoMoreLefts, Matching, At, Answer, Go
  <2>2. /\ search'.pc = "done" /\ search'.ids = search.ids /\ search'.seen = search.seen
        /\ search'.lefts = search.lefts /\ search'.result = search.result
    BY <1>0, <2>1
  <2>. QED
    BY <2>1, <2>2 DEF DistinctSearch, DistinctLefts, RowsDistinct, Fresh
<1>. QED
  BY <1>1, <1>2, <1>3

LEMMA NextMatchDistinct ==
    ASSUME History, MatchSound, MatchDistinct, [Next]_vars
    PROVE  MatchDistinct'
<1>1. Moves /\ query' = query
  BY NextMoves DEF Moves
<1>2. SUFFICES ASSUME Asks({"match"})
               PROVE  DistinctSearch(search')
  BY <1>1, DistinctGrows DEF MatchDistinct, Asks
<1>3. SoundSearch(search) /\ DistinctSearch(search)
  BY <1>2 DEF MatchSound, MatchDistinct
<1>4. CASE UNCHANGED search
  BY <1>3, <1>4
<1>5. CASE Handle
  <2>1. Match
    BY <1>2, <1>5, HandleByKind DEF Asks, SearchKinds
  <2>. QED
    BY <1>2, <1>3, <2>1, LookupDistinct, ReadLeftDistinct, MatchVerticesDistinct,
       MatchEdgesDistinct, JoinDistinct, LastStepsDistinct DEF Match
<1>6. CASE \E id \in VertexIds, c \in VertexContents : LookupDuringUpdate(id, c)
  BY <1>2, <1>3, <1>6, LookupDuringDistinct
<1>. QED
  BY <1>4, <1>5, <1>6, WriteKeeps DEF Next, vars

MatchInv == History /\ MatchSound /\ MatchDistinct

LEMMA MatchInvariance ==
    /\ Init => MatchInv
    /\ MatchInv /\ [Next]_vars => MatchInv'
BY InitHistory, InitMatchSound, InitMatchDistinct, NextHistory, NextMatchSound, NextMatchDistinct
DEF MatchInv

(* A row of a MATCH shows contents its vertices had during the query, an   *)
(* edge there was, and satisfies the pattern and the condition, but for    *)
(* the label of a vertex the index lists by mistake; none is shown twice,  *)
(* and a limit above 0 holds (executor.go:47-100).                         *)
THEOREM RowsHaveExisted == Spec => []RowsExisted
<1>1. MatchInv => RowsExisted
  <2>. SUFFICES ASSUME MatchInv, Matched PROVE RowsExisted
    BY DEF RowsExisted
  <2>1. /\ History /\ SoundSearch(search) /\ DistinctSearch(search) /\ search.pc = "done"
    BY DEF MatchInv, MatchSound, MatchDistinct, Matched, At
  <2>2. search.result \in Seq(GoodRows) /\ RowsDistinct(search.result)
    BY <2>1 DEF SoundSearch, DistinctSearch
  <2>3. IsInjective([i \in DOMAIN search.result |->
                       <<search.result[i].left.id, search.result[i].edge>>])
    BY <2>2 DEF RowsDistinct, IsInjective
  <2>4. query.limit > 0 => Len(search.result) =< query.limit
    <3>1. query.limit \in Nat /\ Len(search.result) \in Nat
      BY <2>1, <2>2, StatementsParsed DEF History, QueryGiven, Asks, Matched
    <3>2. Len(search.result) =< 1 \/ Len(search.result) =< query.limit
      BY <2>1 DEF SoundSearch
    <3>. QED
      BY <3>1, <3>2
  <2>5. Rows \subseteq GoodRows
    BY <2>2 DEF Rows
  <2>6. \A v \in Bindings : \E g \in lived : v.id \in DOMAIN g.vertices /\ g.vertices[v.id] = v.content
    BY BindingsDef
  <2>7. \A v \in Lefts : v \in Bindings /\ (HadLabel(v.id) \/ v.id \in query.stale)
    BY DEF Lefts, LeftIds
  <2>8. ASSUME NEW row \in Rows
        PROVE  /\ row.left \in Lefts
               /\ query.dir = None => matchesCondition(row.left, None, None)
               /\ query.dir # None => /\ row.right \in Bindings /\ row.edge \in EverIds
                                      /\ Fits(Ever, row.left, row.edge, row.right)
    BY <2>5 DEF GoodRows, RowType
  <2>. QED
    BY <2>3, <2>4, <2>6, <2>7, <2>8 DEF RowsExisted
<1>. QED
  BY <1>1, MatchInvariance, PTL DEF Spec

-----------------------------------------------------------------------------
(***************************************************************************)
(* MATCH: nothing that lasts is missed.                                    *)
(***************************************************************************)

(* The vertices that last, as the pattern binds them; the candidates among *)
(* them; and the matches of vertices and edges that last.                  *)
Lasts == {[id |-> id, content |-> Lasting[id]] : id \in DOMAIN Lasting}
LastingLefts == {v \in Lasts : LeftFits(v) /\ Listed(v.id)}
Wanted == Matches(Lasting, Always)

Waiting(s, v) ==
    \/ s.pc = "read" /\ \E i \in DOMAIN s.ids : s.ids[i] = v.id
    \/ \E i \in DOMAIN s.lefts : s.lefts[i] = v
Shown(s, row) == \E i \in DOMAIN s.result : s.result[i] = row
Arc(m) == <<m.edge, Always[m.edge]>>
Joining(s, m) == s.pc = "join" /\ s.left = m.left /\ Arc(m) \in s.arcs

(* What is known of a candidate once its turn has come. *)
Served(s, v) ==
    /\ query.dir = None /\ matchesCondition(v, None, None) => Shown(s, Row(v, None, None))
    /\ query.dir \in {"OUT", "IN"} =>
          \A m \in Wanted : m.left = v => Shown(s, m) \/ Joining(s, m)
    /\ query.dir = "BOTH" => \A m \in Wanted : m.left = v => m.edge \in s.seen

(* The pattern asks nothing of the two ends of an edge. *)
Plain ==
    query.dir = "BOTH" /\ query.left = None /\ query.right = None
    /\ ~(query.where.on \in {"left", "right"})
EdgeShown(s, e) == \E i \in DOMAIN s.result : s.result[i].edge = e
Accounted(s) ==
    Plain => \A m \in Wanted : m.edge \in s.seen =>
                EdgeShown(s, m.edge) \/ (s.pc = "join" /\ Arc(m) \in s.arcs)

Covered(s) == Accounted(s) /\ \A v \in LastingLefts : Waiting(s, v) \/ Served(s, v)

CompleteSearch(s) ==
    /\ s.pc = "lookup" \/ query.dir # "BOTH" => s.seen = {}
    /\ s.pc \in {"read", "scan", "join"} => Covered(s)
    /\ s.pc = "done" => Len(s.result) >= query.limit \/ (s.lefts = <<>> /\ Covered(s))

MatchComplete == Asks({"match"}) => CompleteSearch(search)

LEMMA WantedDef ==
    \A m : m \in Wanted <=>
             /\ m \in [left : Lasts, edge : DOMAIN Always, right : Lasts]
             /\ LeftFits(m.left) /\ Fits(Always, m.left, m.edge, m.right)
BY DEF Wanted, Matches, Lasts

LEMMA LastsFacts ==
    ASSUME History, NEW v \in Lasts
    PROVE  /\ v.id \in DOMAIN vertices /\ Bind(v.id) = v /\ v.content = vertices[v.id]
           /\ LeftFits(v) /\ Listed(v.id) => query.left = None \/ v.id \in LookedUp
<1>1. PICK id \in DOMAIN Lasting : v = [id |-> id, content |-> Lasting[id]]
  BY DEF Lasts
<1>2. v.id = id /\ v.content = Lasting[id] /\ id \in DOMAIN vertices /\ Lasting[id] = vertices[id]
  BY <1>1 DEF Lasting
<1>3. Bind(v.id) = v
  BY <1>1, <1>2 DEF Bind
<1>. QED
  BY <1>2, <1>3 DEF LeftFits, Listed, LookedUp, Labelled

LEMMA WantedFacts ==
    ASSUME History, NEW m \in Wanted
    PROVE  /\ m.left \in Lasts /\ m.right \in Lasts /\ m.edge \in DOMAIN edges
           /\ Always[m.edge] = edges[m.edge] /\ LeftFits(m.left)
           /\ Fits(Always, m.left, m.edge, m.right)
           /\ m = Row(m.left, m.edge, m.right)
<1>1. /\ m \in [left : Lasts, edge : DOMAIN Always, right : Lasts]
      /\ LeftFits(m.left) /\ Fits(Always, m.left, m.edge, m.right)
  BY WantedDef
<1>. QED
  BY <1>1, AlwaysFacts DEF Row

(* What lasts only shrinks, so that what was covered stays covered. *)
LEMMA LastsShrink ==
    ASSUME Moves
    PROVE  /\ Lasts' \subseteq Lasts /\ LastingLefts' \subseteq LastingLefts
           /\ Wanted' \subseteq Wanted
           /\ \A m \in Wanted' : Arc(m)' = Arc(m)
<1>1. query' = query
  BY DEF Moves
<1>2. Lasts' \subseteq Lasts
  BY DEF Moves, Lasts
<1>3. LastingLefts' \subseteq LastingLefts
  BY <1>1, <1>2 DEF LastingLefts, LeftFits, Listed
<1>4. ASSUME NEW m \in Wanted'
      PROVE  m \in Wanted /\ Arc(m)' = Arc(m)
  <2>1. /\ m \in [left : Lasts', edge : DOMAIN Always', right : Lasts']
        /\ LeftFits(m.left)' /\ Fits(Always, m.left, m.edge, m.right)'
    BY DEF Wanted, Matches, Lasts
  <2>2. m \in [left : Lasts, edge : DOMAIN Always, right : Lasts] /\ Always'[m.edge] = Always[m.edge]
    BY <1>2, <2>1 DEF Moves
  <2>3. LeftFits(m.left) /\ Fits(Always, m.left, m.edge, m.right)
    BY <1>1, <2>1, <2>2 DEF LeftFits, Fits, matchesCondition
  <2>. QED
    BY <2>2, <2>3, WantedDef DEF Arc
<1>. QED
  BY <1>2, <1>3, <1>4

LEMMA CompleteGrows ==
    ASSUME Moves, CompleteSearch(search')
    PROVE  CompleteSearch(search)'
<1>1. query' = query
  BY DEF Moves
<1>2. LastingLefts' \subseteq LastingLefts /\ Wanted' \subseteq Wanted
  BY LastsShrink
<1>3. Accounted(search') => Accounted(search)'
  BY <1>1, <1>2, LastsShrink DEF Accounted, Plain, EdgeShown
<1>4. ASSUME NEW v, Served(search', v)
      PROVE  Served(search, v)'
  BY <1>1, <1>2, <1>4, LastsShrink DEF Served, Shown, Joining, matchesCondition
<1>5. \A v : Waiting(search', v) => Waiting(search, v)'
  BY DEF Waiting
<1>6. Covered(search') => Covered(search)'
  BY <1>2, <1>3, <1>4, <1>5 DEF Covered
<1>. QED
  BY <1>1, <1>6 DEF CompleteSearch

LEMMA InitMatchComplete == Init => MatchComplete
<1>. SUFFICES ASSUME Init, Asks({"match"}) PROVE MatchComplete
  BY DEF MatchComplete
<1>1. search = NewMatch
  BY DEF Init
<1>. QED
  BY <1>1 DEF MatchComplete, CompleteSearch, NewMatch

(* A row is shown by going on with it, or it ends the request. *)
LEMMA ShowComplete ==
    ASSUME SoundSearch(search), NEW rest, DOMAIN rest = DOMAIN search,
           rest.pc \in {"scan", "join"}, NEW rows, Show(rest, rows),
           rest.seen = search.seen, query.dir # "BOTH" => search.seen = {},
           Covered([rest EXCEPT !.result = rows])
    PROVE  CompleteSearch(search')
<1>0. DOMAIN search = {"pc", "ids", "lefts", "left", "arcs", "seen", "result"}
  BY DEF SoundSearch
<1>1. CASE ~query.bound
  <2>1. search' = [search EXCEPT !.pc = "failed", !.result = "variable"]
    BY <1>1 DEF Show, Fail, Go
  <2>2. search'.pc = "failed" /\ search'.seen = search.seen
    BY <1>0, <2>1
  <2>. QED
    BY <2>2 DEF CompleteSearch
<1>2. CASE query.bound /\ Len(rows) >= query.limit
  <2>1. search' = [search EXCEPT !.pc = "done", !.result = rows]
    BY <1>2 DEF Show, Answer, Go
  <2>2. search'.pc = "done" /\ search'.seen = search.seen /\ search'.result = rows
    BY <1>0, <2>1
  <2>. QED
    BY <1>2, <2>2 DEF CompleteSearch
<1>3. CASE query.bound /\ ~(Len(rows) >= query.limit)
  <2>1. search' = [rest EXCEPT !.result = rows]
    BY <1>3 DEF Show, Go
  <2>2. search'.pc = rest.pc /\ search'.seen = search.seen
    BY <1>0, <2>1
  <2>. QED
    BY <2>1, <2>2 DEF CompleteSearch
<1>. QED
  BY <1>1, <1>2, <1>3

LEMMA LookupComplete ==
    ASSUME History, Asks({"match"}), SoundSearch(search), CompleteSearch(search), Lookup
    PROVE  CompleteSearch(search')
<1>0. DOMAIN search = {"pc", "ids", "lefts", "left", "arcs", "seen", "result"}
  BY DEF SoundSearch
<1>1. search.pc = "lookup" /\ search.seen = {}
  BY DEF Lookup, Matching, At, CompleteSearch
<1>2. CASE query.left = None
  <2> DEFINE ids == sortedKeys(DOMAIN vertices)
             lefts == [i \in DOMAIN ids |-> Bind(ids[i])]
  <2>1. ToSet(ids) = DOMAIN vertices
    BY LookupLists, NowFacts
  <2>2. search' = [search EXCEPT !.pc = "scan", !.lefts = lefts]
    BY <1>2 DEF Lookup, Go
  <2>. HIDE DEF ids
  <2>3. ASSUME NEW v \in Lasts
        PROVE  \E i \in DOMAIN lefts : lefts[i] = v
    <3>1. v.id \in ToSet(ids) /\ Bind(v.id) = v
      BY <2>1, LastsFacts
    <3>2. PICK i \in DOMAIN ids : ids[i] = v.id
      BY <3>1 DEF ToSet
    <3>. QED
      BY <3>1, <3>2
  <2>. HIDE DEF lefts
  <2>4. search'.pc = "scan" /\ search'.lefts = lefts /\ search'.seen = search.seen
    BY <1>0, <2>2
  <2>. QED
    BY <1>1, <2>3, <2>4 DEF CompleteSearch, Covered, Accounted, Waiting, LastingLefts
<1>3. CASE query.left # None
  <2> DEFINE ids == sortedKeys(LookedUp)
  <2>1. ToSet(ids) = LookedUp
    BY <1>3, LookupLists, LookedUpIds
  <2>2. search' = [search EXCEPT !.pc = "read", !.ids = ids]
    BY <1>3 DEF Lookup, Go
  <2>. HIDE DEF ids
  <2>3. ASSUME NEW v \in LastingLefts
        PROVE  \E i \in DOMAIN ids : ids[i] = v.id
    <3>1. v.id \in ToSet(ids)
      BY <1>3, <2>1, LastsFacts DEF LastingLefts
    <3>. QED
      BY <3>1 DEF ToSet
  <2>4. search'.pc = "read" /\ search'.ids = ids /\ search'.seen = search.seen
    BY <1>0, <2>2
  <2>. QED
    BY <1>1, <2>3, <2>4 DEF CompleteSearch, Covered, Accounted, Waiting
<1>. QED
  BY <1>2, <1>3

(* The vertex that an update has taken out of the index does not last. *)
LEMMA LookupDuringComplete ==
    ASSUME History, History', Moves, Asks({"match"}), SoundSearch(search), CompleteSearch(search),
           NEW id, NEW c, LookupDuringUpdate(id, c)
    PROVE  CompleteSearch(search)'
<1> DEFINE ids == sortedKeys(LookedUp \ {id})
<1>0. DOMAIN search = {"pc", "ids", "lefts", "left", "arcs", "seen", "result"}
  BY DEF SoundSearch
<1>1. /\ search.pc = "lookup" /\ query.left # None
      /\ search' = [search EXCEPT !.pc = "read", !.ids = ids] /\ id \in touched'
  BY DEF LookupDuringUpdate, Matching, At, UpdateVertex, Wrote
<1>2. search.seen = {}
  BY <1>1 DEF CompleteSearch
<1>3. ToSet(ids) = LookedUp \ {id}
  BY <1>1, LookupLists, LookedUpIds
<1>. HIDE DEF ids
<1>4. ASSUME NEW v \in LastingLefts'
      PROVE  \E i \in DOMAIN ids : ids[i] = v.id
  <2>1. v \in LastingLefts
    BY LastsShrink
  <2>2. v.id # id
    <3>1. PICK x \in DOMAIN Lasting' : v = [id |-> x, content |-> Lasting'[x]]
      BY DEF LastingLefts, Lasts
    <3>. QED
      BY <1>1, <3>1 DEF Lasting
  <2>3. v.id \in ToSet(ids)
    BY <1>1, <1>3, <2>1, <2>2, LastsFacts DEF LastingLefts
  <2>. QED
    BY <2>3 DEF ToSet
<1>5. search'.pc = "read" /\ search'.ids = ids /\ search'.seen = search.seen
  BY <1>0, <1>1
<1>. QED
  BY <1>2, <1>4, <1>5 DEF CompleteSearch, Covered, Accounted, Waiting

LEMMA ReadLeftComplete ==
    ASSUME History, Asks({"match"}), SoundSearch(search), CompleteSearch(search), ReadLeft
    PROVE  CompleteSearch(search')
<1> DEFINE id == Head(search.ids)
           rest == Tail(search.ids)
           lefts == IF HasVertex(id) THEN Append(search.lefts, Bind(id)) ELSE search.lefts
<1>0. DOMAIN search = {"pc", "ids", "lefts", "left", "arcs", "seen", "result"}
  BY DEF SoundSearch
<1>1. search.pc = "read" /\ search.ids \in Seq(LeftIds) /\ search.ids # <<>>
  BY DEF ReadLeft, Matching, At, SoundSearch
<1>2. id \in LeftIds /\ search.lefts \in Seq(Lefts)
  BY <1>1 DEF SoundSearch
<1>3. /\ id = search.ids[1]
      /\ \A i \in DOMAIN search.ids : i = 1 \/ (i - 1 \in DOMAIN rest /\ rest[i - 1] = search.ids[i])
  BY <1>1, TailFacts
<1>4. search' = [search EXCEPT !.ids = rest, !.lefts = lefts]
  BY DEF ReadLeft, Go
<1>5. \A i \in DOMAIN search.lefts : i \in DOMAIN lefts /\ lefts[i] = search.lefts[i]
  <2>1. CASE HasVertex(id)
    <3>1. Bind(id) \in Lefts
      BY <1>2, <2>1, NowBound DEF HasVertex, Lefts
    <3>. QED
      BY <1>2, <2>1, <3>1, AppendFacts
  <2>. QED
    BY <2>1
<1>6. HasVertex(id) => \E i \in DOMAIN lefts : lefts[i] = Bind(id)
  <2>1. CASE HasVertex(id)
    <3>1. Bind(id) \in Lefts
      BY <1>2, <2>1, NowBound DEF HasVertex, Lefts
    <3>. QED
      BY <1>2, <2>1, <3>1, AppendFacts
  <2>. QED
    BY <2>1
<1>. HIDE DEF lefts, rest, id
<1>7. /\ search'.pc = "read" /\ search'.ids = rest /\ search'.seen = search.seen
      /\ search'.lefts = lefts /\ search'.result = search.result
  BY <1>0, <1>1, <1>4
<1>8. ASSUME NEW v \in LastingLefts
      PROVE  Waiting(search', v) \/ Served(search', v)
  <2>1. CASE Waiting(search, v)
    <3>1. CASE \E i \in DOMAIN search.lefts : search.lefts[i] = v
      BY <1>5, <1>7, <3>1 DEF Waiting
    <3>2. CASE \E i \in DOMAIN search.ids : search.ids[i] = v.id
      <4>1. CASE v.id = id
        <5>1. HasVertex(id) /\ Bind(id) = v
          BY <4>1, LastsFacts DEF LastingLefts, HasVertex
        <5>. QED
          BY <1>6, <1>7, <5>1 DEF Waiting
      <4>2. CASE v.id # id
        <5>1. \E i \in DOMAIN rest : rest[i] = v.id
          BY <1>3, <3>2, <4>2
        <5>. QED
          BY <1>7, <5>1 DEF Waiting
      <4>. QED
        BY <4>1, <4>2
    <3>. QED
      BY <2>1, <3>1, <3>2 DEF Waiting
  <2>2. CASE Served(search, v)
    BY <1>1, <1>7, <2>2 DEF Served, Shown, Joining
  <2>. QED
    BY <1>1, <2>1, <2>2 DEF CompleteSearch, Covered
<1>9. Accounted(search')
  BY <1>1, <1>7 DEF Accounted, EdgeShown, CompleteSearch, Covered
<1>. QED
  BY <1>1, <1>7, <1>8, <1>9 DEF CompleteSearch, Covered


LEMMA MatchVerticesComplete ==
    ASSUME History, Asks({"match"}), SoundSearch(search), CompleteSearch(search), MatchVertices
    PROVE  CompleteSearch(search')
<1> DEFINE left == Head(search.lefts)
           rest == [search EXCEPT !.lefts = Tail(search.lefts)]
           row == Row(left, None, None)
           rows == Append(search.result, row)
           new == [rest EXCEPT !.result = rows]
<1>0. DOMAIN search = {"pc", "ids", "lefts", "left", "arcs", "seen", "result"}
  BY DEF SoundSearch
<1>1. search.pc = "scan" /\ query.dir = None /\ search.lefts # <<>>
  BY DEF MatchVertices, Matching, At
<1>2. query.dir \notin {"OUT", "IN", "BOTH"}
  BY <1>1, StatementsParsed
<1>3. search.seen = {} /\ \A v \in LastingLefts : Waiting(search, v) \/ Served(search, v)
  BY <1>1, <1>2 DEF CompleteSearch, Covered
<1>4. search.lefts \in Seq(Lefts) /\ search.result \in Seq(GoodRows)
  BY <1>1 DEF SoundSearch
<1>5. /\ left \in Lefts /\ left = search.lefts[1]
      /\ \A i \in DOMAIN search.lefts :
            i = 1 \/ (i - 1 \in DOMAIN Tail(search.lefts) /\ Tail(search.lefts)[i - 1] = search.lefts[i])
  BY <1>1, <1>4, TailFacts
<1>6. /\ DOMAIN rest = DOMAIN search /\ rest.pc = search.pc /\ rest.seen = search.seen
      /\ rest.lefts = Tail(search.lefts) /\ rest.result = search.result
  BY <1>0
<1>7. /\ new.pc = search.pc /\ new.seen = search.seen
      /\ new.lefts = Tail(search.lefts) /\ new.result = rows
  BY <1>0
<1>8. ASSUME NEW s, s.pc = search.pc, s.lefts = Tail(search.lefts),
             \A i \in DOMAIN search.result : i \in DOMAIN s.result /\ s.result[i] = search.result[i],
             matchesCondition(left, None, None) => Shown(s, row)
      PROVE  Covered(s)
  <2>1. ASSUME NEW v \in LastingLefts
        PROVE  Waiting(s, v) \/ Served(s, v)
    <3>1. CASE Served(search, v)
      BY <1>2, <1>8, <3>1 DEF Served, Shown
    <3>2. CASE Waiting(search, v)
      <4>1. PICK i \in DOMAIN search.lefts : search.lefts[i] = v
        BY <1>1, <3>2 DEF Waiting
      <4>2. CASE i = 1
        BY <1>2, <1>5, <1>8, <4>1, <4>2 DEF Served
      <4>3. CASE i # 1
        BY <1>5, <1>8, <4>1, <4>3 DEF Waiting
      <4>. QED
        BY <4>2, <4>3
    <3>. QED
      BY <1>3, <3>1, <3>2
  <2>. QED
    BY <1>2, <2>1 DEF Covered, Accounted, Plain
<1>9. CASE matchesCondition(left, None, None)
  <2>1. row \in GoodRows
    BY <1>1, <1>5, <1>9 DEF Row, GoodRows, RowType
  <2>2. Show(rest, rows)
    BY <1>9 DEF MatchVertices
  <2>3. /\ \A i \in DOMAIN search.result : i \in DOMAIN rows /\ rows[i] = search.result[i]
        /\ \E i \in DOMAIN rows : rows[i] = row
    BY <1>4, <2>1, AppendFacts
  <2>. HIDE DEF rows
  <2>4. Shown(new, row) /\ \A i \in DOMAIN search.result :
                               i \in DOMAIN new.result /\ new.result[i] = search.result[i]
    BY <1>7, <2>3 DEF Shown
  <2>. HIDE DEF new
  <2>5. Covered(new)
    BY <1>7, <1>8, <2>4
  <2>. HIDE DEF rest
  <2>. QED
    BY <1>1, <1>3, <1>6, <2>2, <2>5, ShowComplete DEF new
<1>10. CASE ~matchesCondition(left, None, None)
  <2>1. search' = rest
    BY <1>10 DEF MatchVertices, Go
  <2>. HIDE DEF rest
  <2>2. Covered(rest)
    BY <1>6, <1>8, <1>10
  <2>. QED
    BY <1>1, <1>3, <1>6, <2>1, <2>2 DEF CompleteSearch
<1>. QED
  BY <1>9, <1>10

(* The edge of a match that lasts is read with the candidate's edges. *)
LEMMA MatchEdgesComplete ==
    ASSUME History, Asks({"match"}), SoundSearch(search), CompleteSearch(search), MatchEdges
    PROVE  CompleteSearch(search')
<1> DEFINE left == Head(search.lefts)
           all == EdgesOf(left.id, query.dir)
           fit == {e \in all \ search.seen : query.label \in {None, edges[e].label}}
           arcs == {<<e, edges[e]>> : e \in fit}
           seen == IF query.dir = "BOTH" THEN search.seen \cup all ELSE search.seen
<1>0. DOMAIN search = {"pc", "ids", "lefts", "left", "arcs", "seen", "result"}
  BY DEF SoundSearch
<1>1. search.pc = "scan" /\ search.lefts # <<>> /\ query.dir # None
  BY DEF MatchEdges, Matching, At
<1>2. query.dir # "BOTH" => search.seen = {}
  BY DEF CompleteSearch
<1>3. CASE ~HasVertex(left.id)
  <2>1. search' = [search EXCEPT !.pc = "failed", !.result = "vertex"]
    BY <1>3 DEF MatchEdges, Fail, Go
  <2>2. search'.pc = "failed" /\ search'.seen = search.seen
    BY <1>0, <2>1
  <2>. QED
    BY <1>2, <2>2 DEF CompleteSearch
<1>4. CASE HasVertex(left.id)
  <2>1. search' = [search EXCEPT !.pc = "join", !.left = left, !.lefts = Tail(search.lefts),
                                 !.seen = seen, !.arcs = arcs]
    BY <1>4 DEF MatchEdges, Go
  <2>2. ASSUME NEW m \in Wanted
        PROVE  /\ query.label \in {None, edges[m.edge].label}
               /\ m.left = left => m.edge \in all
               /\ m.edge \in all /\ m.edge \notin search.seen => Arc(m) \in arcs
    <3>1. m.edge \in DOMAIN edges /\ Always[m.edge] = edges[m.edge] /\ Fits(Always, m.left, m.edge, m.right)
      BY WantedFacts
    <3>2. query.label \in {None, edges[m.edge].label}
      BY <3>1 DEF Fits
    <3>3. m.left = left => m.edge \in all
      BY <3>1 DEF Fits, EdgesOf
    <3>. QED
      BY <3>1, <3>2, <3>3 DEF Arc
  <2>3. seen = IF query.dir = "BOTH" THEN search.seen \cup all ELSE search.seen
    OBVIOUS
  <2>4. /\ search.lefts \in Seq(Lefts) /\ left = search.lefts[1]
        /\ \A i \in DOMAIN search.lefts :
              i = 1 \/ (i - 1 \in DOMAIN Tail(search.lefts) /\ Tail(search.lefts)[i - 1] = search.lefts[i])
    <3>1. search.lefts \in Seq(Lefts)
      BY DEF SoundSearch
    <3>. QED
      BY <1>1, <3>1, TailFacts
  <2>. HIDE DEF arcs, all, fit, seen, left
  <2>5. /\ search'.pc = "join" /\ search'.left = left
        /\ search'.lefts = Tail(search.lefts) /\ search'.arcs = arcs /\ search'.seen = seen
        /\ search'.result = search.result
    BY <1>0, <2>1
  <2>6. Accounted(search) /\ \A v \in LastingLefts : Waiting(search, v) \/ Served(search, v)
    BY <1>1 DEF CompleteSearch, Covered
  <2>7. ASSUME NEW v \in LastingLefts
        PROVE  Waiting(search', v) \/ Served(search', v)
    <3>1. CASE Served(search, v)
      BY <1>1, <2>3, <2>5, <3>1 DEF Served, Shown, Joining
    <3>2. CASE Waiting(search, v)
      <4>1. PICK i \in DOMAIN search.lefts : search.lefts[i] = v
        BY <1>1, <3>2 DEF Waiting
      <4>2. CASE i = 1
        <5>1. v = left
          BY <2>4, <4>1, <4>2
        <5>2. query.dir = "BOTH" => \A m \in Wanted : m.left = v => m.edge \in search'.seen
          BY <2>2, <2>3, <2>5, <5>1
        <5>3. query.dir \in {"OUT", "IN"} =>
                  \A m \in Wanted : m.left = v => Joining(search', m)
          BY <1>2, <2>2, <2>5, <5>1 DEF Joining
        <5>. QED
          BY <1>1, <5>2, <5>3 DEF Served
      <4>3. CASE i # 1
        BY <2>4, <2>5, <4>1, <4>3 DEF Waiting
      <4>. QED
        BY <4>2, <4>3
    <3>. QED
      BY <2>6, <3>1, <3>2
  <2>8. Accounted(search')
    BY <1>1, <2>2, <2>3, <2>5, <2>6 DEF Accounted, Plain, EdgeShown
  <2>. QED
    BY <1>2, <2>3, <2>5, <2>7, <2>8 DEF CompleteSearch, Covered
<1>. QED
  BY <1>3, <1>4


(* The other end of an edge that lasts is there, and it fits: the edge     *)
(* makes a row.                                                            *)
LEMMA LastingJoin ==
    ASSUME History, Asks({"match"}), NEW m \in Wanted, NEW left, NEW dir,
           dir = query.dir, dir # None,
           (m.left = left /\ dir \in {"OUT", "IN"}) \/ (Plain /\ Leads(left, Always[m.edge]))
    PROVE  LET id == Other(Always[m.edge], left.id, dir)
           IN  /\ HasVertex(id)
               /\ query.right = None \/ id \in Labelled(query.right)
               /\ matchesCondition(left, Always[m.edge], Bind(id))
               /\ m.left = left /\ dir \in {"OUT", "IN"} => Bind(id) = m.right
<1> DEFINE e == Always[m.edge]
           id == Other(e, left.id, dir)
<1>1. /\ m.edge \in DOMAIN edges /\ e = edges[m.edge] /\ m.left \in Lasts /\ m.right \in Lasts
      /\ Fits(Always, m.left, m.edge, m.right)
  BY WantedFacts
<1>2. m.right.id \in DOMAIN vertices /\ Bind(m.right.id) = m.right /\ m.right.content = vertices[m.right.id]
  BY <1>1, LastsFacts
<1>3. CASE m.left = left /\ dir \in {"OUT", "IN"}
  <2>1. id = m.right.id
    BY <1>1, <1>3 DEF Fits, Other
  <2>2. query.right = None \/ id \in Labelled(query.right)
    BY <1>1, <1>2, <2>1 DEF Fits, Labelled
  <2>3. matchesCondition(left, e, Bind(id))
    BY <1>1, <1>2, <1>3, <2>1 DEF Fits
  <2>. QED
    BY <1>2, <2>1, <2>2, <2>3 DEF HasVertex
<1>4. CASE Plain /\ Leads(left, e)
  <2>1. HasVertex(id)
    BY <1>1, NowFacts DEF Other, HasVertex
  <2>2. query.where.on \in {"nothing", "edge"}
    BY <1>4, StatementsParsed DEF Plain, History, QueryGiven, Asks
  <2>3. matchesCondition(left, e, Bind(id))
    BY <1>1, <2>2 DEF Fits, matchesCondition
  <2>4. ~(dir \in {"OUT", "IN"})
    BY <1>4 DEF Plain
  <2>. QED
    BY <1>4, <2>1, <2>3, <2>4 DEF Plain
<1>. QED
  BY <1>3, <1>4

LEMMA JoinComplete ==
    ASSUME History, Asks({"match"}), SoundSearch(search), CompleteSearch(search),
           NEW arc \in search.arcs, Join(arc)
    PROVE  CompleteSearch(search')
<1> DEFINE id == Other(arc[2], search.left.id, query.dir)
           rest == [search EXCEPT !.arcs = search.arcs \ {arc}]
           row == Row(search.left, arc[1], Bind(id))
           rows == Append(search.result, row)
           new == [rest EXCEPT !.result = rows]
           skips == \/ ~HasVertex(id)
                    \/ query.right # None /\ id \notin Labelled(query.right)
                    \/ ~matchesCondition(search.left, arc[2], Bind(id))
<1>0. DOMAIN search = {"pc", "ids", "lefts", "left", "arcs", "seen", "result"}
  BY DEF SoundSearch
<1>1. /\ search.pc = "join" /\ search.arcs \subseteq ArcsAt(search.left) /\ query.dir # None
      /\ search.result \in Seq(GoodRows)
  BY DEF Join, Matching, At, SoundSearch
<1>2. query.dir # "BOTH" => search.seen = {}
  BY DEF CompleteSearch
<1>3. Accounted(search) /\ \A v \in LastingLefts : Waiting(search, v) \/ Served(search, v)
  BY <1>1 DEF CompleteSearch, Covered
<1>4. /\ DOMAIN rest = DOMAIN search /\ rest.pc = search.pc /\ rest.ids = search.ids
      /\ rest.lefts = search.lefts /\ rest.result = search.result /\ rest.left = search.left
      /\ rest.arcs = search.arcs \ {arc} /\ rest.seen = search.seen
  BY <1>0
<1>5. /\ new.pc = search.pc /\ new.lefts = search.lefts /\ new.result = rows
      /\ new.left = search.left /\ new.arcs = search.arcs \ {arc} /\ new.seen = search.seen
  BY <1>0
<1>6. ASSUME NEW m \in Wanted, Arc(m) = arc,
             (m.left = search.left /\ query.dir \in {"OUT", "IN"}) \/ Plain
      PROVE  /\ ~skips
             /\ m.left = search.left /\ query.dir \in {"OUT", "IN"} => row = m
             /\ row.edge = m.edge
  <2>1. arc[1] = m.edge /\ arc[2] = Always[m.edge]
    BY <1>6 DEF Arc
  <2>2. Leads(search.left, arc[2])
    <3>1. PICK d \in EverIds : arc = <<d, Ever[d]>> /\ Leads(search.left, Ever[d])
      BY <1>1 DEF ArcsAt
    <3>. QED
      BY <3>1
  <2>3. /\ ~skips
        /\ m.left = search.left /\ query.dir \in {"OUT", "IN"} => Bind(id) = m.right
    BY <1>1, <1>6, <2>1, <2>2, LastingJoin
  <2>4. m = Row(m.left, m.edge, m.right)
    BY WantedFacts
  <2>. QED
    BY <2>1, <2>3, <2>4 DEF Row
<1>7. ASSUME NEW s, s.pc = search.pc, s.lefts = search.lefts, s.left = search.left,
             s.arcs = search.arcs \ {arc}, s.seen = search.seen,
             \A i \in DOMAIN search.result : i \in DOMAIN s.result /\ s.result[i] = search.result[i],
             ~skips => Shown(s, row)
      PROVE  Covered(s)
  <2>1. ASSUME NEW m \in Wanted, query.dir \in {"OUT", "IN"}, Shown(search, m) \/ Joining(search, m)
        PROVE  Shown(s, m) \/ Joining(s, m)
    <3>1. CASE Shown(search, m)
      BY <1>7, <3>1 DEF Shown
    <3>2. CASE Joining(search, m) /\ Arc(m) # arc
      BY <1>7, <3>2 DEF Joining
    <3>3. CASE Joining(search, m) /\ Arc(m) = arc
      <4>1. m.left = search.left
        BY <3>3 DEF Joining
      <4>2. ~skips /\ row = m
        BY <1>6, <2>1, <3>3, <4>1
      <4>. QED
        BY <1>7, <4>2
    <3>. QED
      BY <2>1, <3>1, <3>2, <3>3
  <2>2. ASSUME NEW v, Served(search, v)
        PROVE  Served(s, v)
    BY <1>1, <1>7, <2>1, <2>2 DEF Served
  <2>3. \A v : Waiting(search, v) => Waiting(s, v)
    BY <1>1, <1>7 DEF Waiting
  <2>4. ASSUME Plain, NEW m \in Wanted, m.edge \in s.seen
        PROVE  EdgeShown(s, m.edge) \/ (s.pc = "join" /\ Arc(m) \in s.arcs)
    <3>1. EdgeShown(search, m.edge) \/ Arc(m) \in search.arcs
      BY <1>3, <1>7, <2>4 DEF Accounted
    <3>2. CASE EdgeShown(search, m.edge)
      BY <1>7, <3>2 DEF EdgeShown
    <3>3. CASE Arc(m) \in search.arcs /\ Arc(m) # arc
      BY <1>1, <1>7, <3>3
    <3>4. CASE Arc(m) = arc
      <4>1. ~skips /\ row.edge = m.edge
        BY <1>6, <2>4, <3>4
      <4>. QED
        BY <1>7, <4>1 DEF EdgeShown, Shown
    <3>. QED
      BY <3>1, <3>2, <3>3, <3>4
  <2>5. Accounted(s)
    BY <2>4 DEF Accounted
  <2>. QED
    BY <1>3, <2>2, <2>3, <2>5 DEF Covered
<1>8. CASE skips
  <2>1. search' = rest
    BY <1>8 DEF Join, Go
  <2>. HIDE DEF rest, row
  <2>2. Covered(rest)
    BY <1>4, <1>7, <1>8
  <2>. QED
    BY <1>1, <1>2, <1>4, <2>1, <2>2 DEF CompleteSearch
<1>9. CASE ~skips
  <2>1. Show(rest, rows)
    BY <1>9 DEF Join
  <2>2. row \in GoodRows
    BY <1>9, JoinGood
  <2>3. /\ \A i \in DOMAIN search.result : i \in DOMAIN rows /\ rows[i] = search.result[i]
        /\ \E i \in DOMAIN rows : rows[i] = row
    BY <1>1, <2>2, AppendFacts
  <2>. HIDE DEF rows, row, skips
  <2>4. Shown(new, row) /\ \A i \in DOMAIN search.result :
                               i \in DOMAIN new.result /\ new.result[i] = search.result[i]
    BY <1>5, <2>3 DEF Shown
  <2>. HIDE DEF new
  <2>5. Covered(new)
    BY <1>5, <1>7, <2>4
  <2>. HIDE DEF rest
  <2>. QED
    BY <1>1, <1>2, <1>4, <2>1, <2>5, ShowComplete DEF new
<1>. QED
  BY <1>8, <1>9

LEMMA LastStepsComplete ==
    ASSUME History, Asks({"match"}), SoundSearch(search), CompleteSearch(search),
           Scan \/ NextLeft \/ NoMoreLefts
    PROVE  CompleteSearch(search')
<1>0. DOMAIN search = {"pc", "ids", "lefts", "left", "arcs", "seen", "result"}
  BY DEF SoundSearch
<1>1. CASE Scan
  <2>1. search' = [search EXCEPT !.pc = "scan"] /\ search.pc = "read" /\ search.ids = <<>>
    BY <1>1 DEF Scan, Matching, At, Go
  <2>2. /\ search'.pc = "scan" /\ search'.seen = search.seen
        /\ search'.lefts = search.lefts /\ search'.result = search.result
    BY <1>0, <2>1
  <2>3. \A v : Waiting(search, v) => Waiting(search', v)
    BY <2>1, <2>2 DEF Waiting
  <2>4. \A v : Served(search, v) => Served(search', v)
    BY <2>1, <2>2 DEF Served, Shown, Joining
  <2>5. Accounted(search) => Accounted(search')
    BY <2>1, <2>2 DEF Accounted, EdgeShown
  <2>. QED
    BY <2>1, <2>2, <2>3, <2>4, <2>5 DEF CompleteSearch, Covered
<1>2. CASE NextLeft
  <2>1. search' = [search EXCEPT !.pc = "scan"] /\ search.pc = "join" /\ search.arcs = {}
    BY <1>2 DEF NextLeft, Matching, At, Go
  <2>2. /\ search'.pc = "scan" /\ search'.seen = search.seen
        /\ search'.lefts = search.lefts /\ search'.result = search.result
    BY <1>0, <2>1
  <2>3. \A v : Waiting(search, v) => Waiting(search', v)
    BY <2>1, <2>2 DEF Waiting
  <2>4. \A v : Served(search, v) => Served(search', v)
    BY <2>1, <2>2 DEF Served, Shown, Joining
  <2>5. Accounted(search) => Accounted(search')
    BY <2>1, <2>2 DEF Accounted, EdgeShown
  <2>. QED
    BY <2>1, <2>2, <2>3, <2>4, <2>5 DEF CompleteSearch, Covered
<1>3. CASE NoMoreLefts
  <2>1. /\ search' = [search EXCEPT !.pc = "done", !.result = search.result]
        /\ search.pc = "scan" /\ search.lefts = <<>>
    BY <1>3 DEF NoMoreLefts, Matching, At, Answer, Go
  <2>2. /\ search'.pc = "done" /\ search'.seen = search.seen
        /\ search'.lefts = search.lefts /\ search'.result = search.result
    BY <1>0, <2>1
  <2>3. \A v : ~Waiting(search, v)
    BY <2>1 DEF Waiting
  <2>4. \A v : Served(search, v) => Served(search', v)
    BY <2>1, <2>2 DEF Served, Shown, Joining
  <2>5. Accounted(search) => Accounted(search')
    BY <2>1, <2>2 DEF Accounted, EdgeShown
  <2>. QED
    BY <2>1, <2>2, <2>3, <2>4, <2>5 DEF CompleteSearch, Covered
<1>. QED
  BY <1>1, <1>2, <1>3

LEMMA NextMatchComplete ==
    ASSUME History, MatchSound, MatchComplete, [Next]_vars
    PROVE  MatchComplete'
<1>1. Moves /\ query' = query /\ History'
  BY NextMoves, NextHistory DEF Moves
<1>2. SUFFICES ASSUME Asks({"match"})
               PROVE  CompleteSearch(search)'
  BY <1>1 DEF MatchComplete, Asks
<1>3. SoundSearch(search) /\ CompleteSearch(search)
  BY <1>2 DEF MatchSound, MatchComplete
<1>4. CASE UNCHANGED search
  BY <1>1, <1>3, <1>4, CompleteGrows
<1>5. CASE Handle
  <2>1. Match
    BY <1>2, <1>5, HandleByKind DEF Asks, SearchKinds
  <2>2. CompleteSearch(search')
    BY <1>2, <1>3, <2>1, LookupComplete, ReadLeftComplete, MatchVerticesComplete,
       MatchEdgesComplete, JoinComplete, LastStepsComplete DEF Match
  <2>. QED
    BY <1>1, <2>2, CompleteGrows
<1>6. CASE \E id \in VertexIds, c \in VertexContents : LookupDuringUpdate(id, c)
  BY <1>1, <1>2, <1>3, <1>6, LookupDuringComplete
<1>. QED
  BY <1>4, <1>5, <1>6, WriteKeeps DEF Next, vars


FullMatchInv == MatchInv /\ MatchComplete

LEMMA FullMatchInvariance ==
    /\ Init => FullMatchInv
    /\ FullMatchInv /\ [Next]_vars => FullMatchInv'
<1>1. Init => FullMatchInv
  BY MatchInvariance, InitMatchComplete DEF FullMatchInv
<1>2. ASSUME FullMatchInv, [Next]_vars
      PROVE  FullMatchInv'
  BY <1>2, MatchInvariance, NextMatchComplete DEF FullMatchInv, MatchInv
<1>. QED
  BY <1>1, <1>2

(* What a request that was not cut off by its limit has shown. *)
LEMMA AllServed ==
    ASSUME FullMatchInv, Matched, ~Truncated
    PROVE  /\ Accounted(search) /\ search.pc = "done"
           /\ \A v \in LastingLefts : Served(search, v)
<1>1. CompleteSearch(search) /\ search.pc = "done" /\ ~(Len(search.result) >= query.limit)
  BY DEF FullMatchInv, MatchComplete, Matched, At, Truncated
<1>2. search.lefts = <<>> /\ Covered(search)
  BY <1>1 DEF CompleteSearch
<1>3. \A v : ~Waiting(search, v)
  BY <1>1, <1>2 DEF Waiting
<1>. QED
  BY <1>1, <1>2, <1>3 DEF Covered

(* Below the limit, a directed MATCH misses no vertices and edge that      *)
(* nothing happens to, and a MATCH of one node no such vertex, unless a    *)
(* rebuild under way has yet to enter it (executor.go:47-100).             *)
THEOREM RowsAreComplete == Spec => []RowsComplete
<1>1. FullMatchInv => RowsComplete
  <2>. SUFFICES ASSUME FullMatchInv, Matched, ~Truncated PROVE RowsComplete
    BY DEF RowsComplete
  <2>1. search.pc = "done" /\ \A v \in LastingLefts : Served(search, v)
    BY AllServed
  <2>2. ASSUME query.dir \in {"OUT", "IN"}, NEW m \in Wanted, Listed(m.left.id)
        PROVE  m \in Rows
    <3>1. m.left \in LastingLefts
      BY <2>2, WantedFacts DEF FullMatchInv, MatchInv, LastingLefts
    <3>2. Shown(search, m)
      BY <2>1, <2>2, <3>1 DEF Served, Joining
    <3>. QED
      BY <3>2 DEF Shown, Rows
  <2>3. ASSUME query.dir = None, NEW id \in DOMAIN Lasting, Listed(id),
               LeftFits([id |-> id, content |-> Lasting[id]]),
               matchesCondition([id |-> id, content |-> Lasting[id]], None, None)
        PROVE  Row([id |-> id, content |-> Lasting[id]], None, None) \in Rows
    <3> DEFINE v == [id |-> id, content |-> Lasting[id]]
    <3>1. v \in LastingLefts
      BY <2>3 DEF LastingLefts, Lasts
    <3>. HIDE DEF v
    <3>2. Shown(search, Row(v, None, None))
      BY <2>1, <2>3, <3>1 DEF Served, v
    <3>. QED
      BY <3>2 DEF Shown, Rows, v
  <2>. QED
    BY <2>2, <2>3 DEF RowsComplete, Wanted
<1>. QED
  BY <1>1, FullMatchInvariance, PTL DEF Spec

(* An undirected MATCH shows no edge twice; one that asks nothing of the   *)
(* two ends misses no edge that is there all the time, below the limit     *)
(* (executor.go:78-81).                                                    *)
THEOREM EdgesShownOnce == Spec => []UndirectedOnce
<1>1. FullMatchInv => UndirectedOnce
  <2>. SUFFICES ASSUME FullMatchInv, Matched, query.dir = "BOTH" PROVE UndirectedOnce
    BY DEF UndirectedOnce
  <2>1. \A i, j \in DOMAIN search.result : search.result[i].edge = search.result[j].edge => i = j
    <3>1. RowsDistinct(search.result)
      BY DEF FullMatchInv, MatchInv, MatchDistinct, DistinctSearch, Matched, At
    <3>. QED
      BY <3>1 DEF RowsDistinct
  <2>2. ASSUME Plain, ~Truncated, NEW m \in Wanted
        PROVE  \E row \in Rows : row.edge = m.edge
    <3>1. m.left \in LastingLefts
      BY <2>2, WantedFacts DEF FullMatchInv, MatchInv, LastingLefts, Plain, Listed
    <3>2. m.edge \in search.seen
      BY <2>2, <3>1, AllServed DEF Served
    <3>3. EdgeShown(search, m.edge)
      BY <2>2, <3>2, AllServed DEF Accounted
    <3>. QED
      BY <3>3 DEF EdgeShown, Rows
  <2>3. Plain => UndirectedComplete
    BY <2>2 DEF UndirectedComplete, Wanted
  <2>. QED
    BY <2>1, <2>3 DEF UndirectedOnce, Plain
<1>. QED
  BY <1>1, FullMatchInvariance, PTL DEF Spec
=============================================================================
