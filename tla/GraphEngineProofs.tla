------------------------- MODULE GraphEngineProofs --------------------------
(***************************************************************************)
(* Type correctness and integrity of the graph engine, the freshness of    *)
(* its identifiers, and that it implements PropertyGraph, for every set of *)
(* labels, keys and values and every bound.                                *)
(***************************************************************************)
EXTENDS GraphEngine, TLAPS

(* A store whose parts agree with one another. *)
GoodStore(s) ==
    /\ s \in StoreType
    /\ AdjacencyKeys(s)
    /\ EndpointsExist(s)
    /\ AdjacencyExact(s)
    /\ NextAboveIds(s)

(***************************************************************************)
(* Partial maps.                                                           *)
(***************************************************************************)

(* Membership in a set of partial maps, in the form the provers can use. *)
LEMMA PartialMapIntro ==
    ASSUME NEW D, NEW R, NEW K, K \subseteq D, NEW f \in [K -> R]
    PROVE  f \in PartialMaps(D, R)
BY DEF PartialMaps

LEMMA PartialMapElim ==
    ASSUME NEW D, NEW R, NEW f \in PartialMaps(D, R)
    PROVE  /\ DOMAIN f \subseteq D
           /\ f \in [DOMAIN f -> R]
BY DEF PartialMaps

(* Put adds or overwrites one entry; Without removes entries. *)
LEMMA PutType ==
    ASSUME NEW D, NEW R, NEW f \in PartialMaps(D, R), NEW k \in D, NEW v \in R
    PROVE  S!Put(f, k, v) \in PartialMaps(D, R)
<1>1. DOMAIN f \cup {k} \subseteq D /\ f \in [DOMAIN f -> R]
  BY PartialMapElim
<1>2. S!Put(f, k, v) \in [DOMAIN f \cup {k} -> R]
  BY <1>1 DEF S!Put
<1>. QED
  BY <1>1, <1>2, PartialMapIntro

LEMMA WithoutType ==
    ASSUME NEW D, NEW R, NEW f \in PartialMaps(D, R), NEW K
    PROVE  S!Without(f, K) \in PartialMaps(D, R)
<1>1. DOMAIN f \ K \subseteq D /\ f \in [DOMAIN f -> R]
  BY PartialMapElim
<1>2. S!Without(f, K) \in [DOMAIN f \ K -> R]
  BY <1>1 DEF S!Without
<1>. QED
  BY <1>1, <1>2, PartialMapIntro

(***************************************************************************)
(* The store's methods keep a good store good.                             *)
(***************************************************************************)

(* The components of a good store, as maps. *)
LEMMA StoreParts ==
    ASSUME NEW s \in StoreType
    PROVE  /\ s.vertices \in VertexMaps /\ s.edges \in EdgeMaps
           /\ s.out \in AdjacencyMaps /\ s.in \in AdjacencyMaps
           /\ DOMAIN s.vertices \subseteq VertexIds /\ DOMAIN s.edges \subseteq EdgeIds
           /\ s.vertices \in [DOMAIN s.vertices -> Vertices]
           /\ s.edges \in [DOMAIN s.edges -> EdgeContents]
           /\ s.out \in [DOMAIN s.out -> SUBSET EdgeIds]
           /\ s.in \in [DOMAIN s.in -> SUBSET EdgeIds]
           /\ s.nextV \in VertexCounters /\ s.nextE \in EdgeCounters
           /\ s.nextV \in Nat \ {0} /\ s.nextE \in Nat \ {0}
BY PartialMapElim, BoundsAssumption
DEF StoreType, VertexMaps, EdgeMaps, AdjacencyMaps, VertexCounters, EdgeCounters

(* Counters and identifiers are numbers. *)
LEMMA CounterFacts ==
    /\ MaxVertexId \in Nat /\ MaxEdgeId \in Nat
    /\ \A n \in VertexCounters : n \in Nat \ {0}
    /\ \A n \in EdgeCounters : n \in Nat \ {0}
    /\ \A id \in VertexIds : id \in Nat \ {0} /\ id + 1 \in VertexCounters
    /\ \A id \in EdgeIds : id \in Nat \ {0} /\ id + 1 \in EdgeCounters
BY BoundsAssumption DEF VertexCounters, EdgeCounters, VertexIds, EdgeIds

(* A new vertex has no edges: both its adjacency sets start empty. *)
LEMMA AddVertexGood ==
    ASSUME NEW s, GoodStore(s), NEW id \in VertexIds, NEW v \in Vertices,
           S!CanAddVertex(s, id)
    PROVE  LET t == S!AddVertex(s, id, v)
           IN  /\ GoodStore(t)
               /\ t.nextV = S!Raise(s.nextV, id + 1) /\ t.nextE = s.nextE
<1> DEFINE t == S!AddVertex(s, id, v)
<1>1. s \in StoreType
  BY DEF GoodStore
<1>2. id \in Nat \ {0} /\ id \notin DOMAIN s.vertices
  BY BoundsAssumption DEF VertexIds, S!CanAddVertex, S!HasVertex
<1>3. /\ t.vertices = S!Put(s.vertices, id, v) /\ t.edges = s.edges
      /\ t.out = S!Put(s.out, id, {}) /\ t.in = S!Put(s.in, id, {})
      /\ t.nextV = S!Raise(s.nextV, id + 1) /\ t.nextE = s.nextE
  BY <1>1 DEF S!AddVertex, StoreType
<1>4. /\ S!Put(s.vertices, id, v) \in VertexMaps
      /\ S!Put(s.out, id, {}) \in AdjacencyMaps
      /\ S!Put(s.in, id, {}) \in AdjacencyMaps
  BY <1>1, StoreParts, PutType DEF VertexMaps, AdjacencyMaps
<1>5. /\ DOMAIN t.vertices = DOMAIN s.vertices \cup {id}
      /\ DOMAIN t.out = DOMAIN s.out \cup {id}
      /\ DOMAIN t.in = DOMAIN s.in \cup {id}
  BY <1>3 DEF S!Put
<1>6. /\ t.out[id] = {} /\ t.in[id] = {}
      /\ \A x \in DOMAIN s.out : x # id => t.out[x] = s.out[x]
      /\ \A x \in DOMAIN s.in : x # id => t.in[x] = s.in[x]
  BY <1>3 DEF S!Put
<1>7. t.nextV \in VertexCounters /\ t.nextV \in Nat /\ t.nextV > id /\ t.nextV >= s.nextV
  BY <1>1, <1>2, <1>3, StoreParts, CounterFacts DEF S!Raise
<1>8. t \in StoreType
  BY <1>1, <1>3, <1>4, <1>7 DEF S!AddVertex, StoreType
<1>9. AdjacencyKeys(t)
  BY <1>5 DEF GoodStore, AdjacencyKeys
<1>10. EndpointsExist(t)
  BY <1>3, <1>5 DEF GoodStore, EndpointsExist
<1>11. AdjacencyExact(t)
  <2>1. \A e \in DOMAIN s.edges : s.edges[e].from # id /\ s.edges[e].to # id
    BY <1>2 DEF GoodStore, EndpointsExist
  <2>2. ASSUME NEW x \in DOMAIN s.vertices
        PROVE  t.out[x] = s.out[x] /\ t.in[x] = s.in[x]
    BY <1>2, <1>6 DEF GoodStore, AdjacencyKeys
  <2>. QED
    BY <1>3, <1>5, <1>6, <2>1, <2>2 DEF GoodStore, AdjacencyExact
<1>12. NextAboveIds(t)
  <2>1. \A x \in DOMAIN s.vertices : x \in Nat
    BY <1>1, StoreParts DEF VertexIds
  <2>. QED
    BY <1>1, <1>2, <1>3, <1>5, <1>7, <2>1, StoreParts DEF GoodStore, NextAboveIds
<1>. QED
  BY <1>3, <1>8, <1>9, <1>10, <1>11, <1>12 DEF GoodStore

(* Replacing the contents of a vertex leaves the shape of the graph alone. *)
LEMMA UpdateVertexGood ==
    ASSUME NEW s, GoodStore(s), NEW id \in VertexIds, NEW v \in Vertices,
           S!HasVertex(s, id)
    PROVE  LET t == S!UpdateVertex(s, id, v)
           IN  GoodStore(t) /\ t.nextV = s.nextV /\ t.nextE = s.nextE
<1> DEFINE t == S!UpdateVertex(s, id, v)
<1>1. s \in StoreType
  BY DEF GoodStore
<1>2. /\ t.vertices = S!Put(s.vertices, id, v) /\ t.edges = s.edges
      /\ t.out = s.out /\ t.in = s.in /\ t.nextV = s.nextV /\ t.nextE = s.nextE
  BY <1>1 DEF S!UpdateVertex, StoreType
<1>3. S!Put(s.vertices, id, v) \in VertexMaps
  BY <1>1, StoreParts, PutType DEF VertexMaps
<1>4. DOMAIN t.vertices = DOMAIN s.vertices
  BY <1>2 DEF S!Put, S!HasVertex
<1>5. t \in StoreType
  BY <1>1, <1>3 DEF S!UpdateVertex, StoreType
<1>. QED
  BY <1>2, <1>4, <1>5
  DEF GoodStore, AdjacencyKeys, EndpointsExist, AdjacencyExact, NextAboveIds

(* A new edge enters one set of each adjacency map.  A self-loop enters    *)
(* both sets of one vertex.                                                *)
LEMMA AddEdgeGood ==
    ASSUME NEW s, GoodStore(s), NEW id \in EdgeIds, NEW e \in EdgeContents,
           S!CanAddEdge(s, id, e)
    PROVE  LET t == S!AddEdge(s, id, e)
           IN  /\ GoodStore(t)
               /\ t.nextE = S!Raise(s.nextE, id + 1) /\ t.nextV = s.nextV
<1> DEFINE t == S!AddEdge(s, id, e)
<1>1. s \in StoreType
  BY DEF GoodStore
<1>2. /\ id \in Nat \ {0} /\ id \notin DOMAIN s.edges
      /\ e.from \in DOMAIN s.vertices /\ e.to \in DOMAIN s.vertices
  BY BoundsAssumption DEF EdgeIds, S!CanAddEdge, S!HasVertex, S!HasEdge
<1>3. /\ t.vertices = s.vertices /\ t.edges = S!Put(s.edges, id, e)
      /\ t.out = [s.out EXCEPT ![e.from] = s.out[e.from] \cup {id}]
      /\ t.in = [s.in EXCEPT ![e.to] = s.in[e.to] \cup {id}]
      /\ t.nextV = s.nextV /\ t.nextE = S!Raise(s.nextE, id + 1)
  BY <1>1 DEF S!AddEdge, StoreType
<1>4. /\ DOMAIN t.edges = DOMAIN s.edges \cup {id}
      /\ t.edges[id] = e
      /\ \A x \in DOMAIN s.edges : x # id => t.edges[x] = s.edges[x]
  BY <1>3 DEF S!Put
<1>5. /\ S!Put(s.edges, id, e) \in EdgeMaps
      /\ [s.out EXCEPT ![e.from] = s.out[e.from] \cup {id}] \in [DOMAIN s.out -> SUBSET EdgeIds]
      /\ [s.in EXCEPT ![e.to] = s.in[e.to] \cup {id}] \in [DOMAIN s.in -> SUBSET EdgeIds]
  <2>1. S!Put(s.edges, id, e) \in EdgeMaps
    BY <1>1, StoreParts, PutType DEF EdgeMaps
  <2>2. /\ s.out \in [DOMAIN s.out -> SUBSET EdgeIds] /\ s.in \in [DOMAIN s.in -> SUBSET EdgeIds]
        /\ e.from \in DOMAIN s.out /\ e.to \in DOMAIN s.in
    BY <1>1, <1>2, StoreParts DEF GoodStore, AdjacencyKeys
  <2>. QED
    BY <2>1, <2>2
<1>6. t.out \in AdjacencyMaps /\ t.in \in AdjacencyMaps
  <2>1. DOMAIN s.out \subseteq VertexIds /\ DOMAIN s.in \subseteq VertexIds
    BY <1>1, StoreParts DEF GoodStore, AdjacencyKeys
  <2>. QED
    BY <1>3, <1>5, <2>1, PartialMapIntro DEF AdjacencyMaps
<1>7. t.nextE \in EdgeCounters /\ t.nextE \in Nat /\ t.nextE > id /\ t.nextE >= s.nextE
  BY <1>1, <1>2, <1>3, StoreParts, CounterFacts DEF S!Raise
<1>8. t \in StoreType
  BY <1>1, <1>3, <1>5, <1>6, <1>7 DEF S!AddEdge, StoreType
<1>9. AdjacencyKeys(t)
  BY <1>3, <1>5 DEF GoodStore, AdjacencyKeys
<1>10. EndpointsExist(t)
  BY <1>2, <1>3, <1>4 DEF GoodStore, EndpointsExist
<1>11. AdjacencyExact(t)
  <2> SUFFICES ASSUME NEW v \in DOMAIN s.vertices
               PROVE  /\ t.out[v] = {x \in DOMAIN t.edges : t.edges[x].from = v}
                      /\ t.in[v] = {x \in DOMAIN t.edges : t.edges[x].to = v}
    BY <1>3 DEF AdjacencyExact
  <2>1. /\ s.out[v] = {x \in DOMAIN s.edges : s.edges[x].from = v}
        /\ s.in[v] = {x \in DOMAIN s.edges : s.edges[x].to = v}
        /\ v \in DOMAIN s.out /\ v \in DOMAIN s.in
    BY DEF GoodStore, AdjacencyExact, AdjacencyKeys
  <2>2. /\ t.out[v] = IF v = e.from THEN s.out[v] \cup {id} ELSE s.out[v]
        /\ t.in[v] = IF v = e.to THEN s.in[v] \cup {id} ELSE s.in[v]
    BY <1>3, <2>1
  <2>. QED
    BY <1>2, <1>4, <2>1, <2>2
<1>12. NextAboveIds(t)
  <2>1. \A x \in DOMAIN s.edges : x \in Nat
    BY <1>1, StoreParts DEF EdgeIds
  <2>. QED
    BY <1>1, <1>2, <1>3, <1>4, <1>7, <2>1, StoreParts DEF GoodStore, NextAboveIds
<1>. QED
  BY <1>3, <1>8, <1>9, <1>10, <1>11, <1>12 DEF GoodStore

(* Deleting edges removes them from the edge map and from both adjacency   *)
(* maps, and nothing else.                                                 *)
LEMMA DeleteEdgesGood ==
    ASSUME NEW s, GoodStore(s), NEW E, E \subseteq DOMAIN s.edges
    PROVE  LET t == S!DeleteEdges(s, E)
           IN  /\ GoodStore(t)
               /\ t.vertices = s.vertices
               /\ t.edges = S!Without(s.edges, E)
               /\ t.nextV = s.nextV /\ t.nextE = s.nextE
<1> DEFINE t == S!DeleteEdges(s, E)
           newOut == [v \in DOMAIN s.out |->
                         {e \in s.out[v] : e \notin E \/ s.edges[e].from # v}]
           newIn == [v \in DOMAIN s.in |->
                         {e \in s.in[v] : e \notin E \/ s.edges[e].to # v}]
<1>1. s \in StoreType
  BY DEF GoodStore
<1>2. /\ t.vertices = s.vertices /\ t.edges = S!Without(s.edges, E)
      /\ t.out = newOut /\ t.in = newIn /\ t.nextV = s.nextV /\ t.nextE = s.nextE
  BY <1>1 DEF S!DeleteEdges, StoreType
<1>3. /\ DOMAIN t.edges = DOMAIN s.edges \ E
      /\ \A x \in DOMAIN t.edges : t.edges[x] = s.edges[x]
  BY <1>2 DEF S!Without
<1>4. S!Without(s.edges, E) \in EdgeMaps
  BY <1>1, StoreParts, WithoutType DEF EdgeMaps
<1>5. newOut \in AdjacencyMaps /\ newIn \in AdjacencyMaps
  <2>1. /\ newOut \in [DOMAIN s.out -> SUBSET EdgeIds]
        /\ newIn \in [DOMAIN s.in -> SUBSET EdgeIds]
    BY <1>1, StoreParts
  <2>2. DOMAIN s.out \subseteq VertexIds /\ DOMAIN s.in \subseteq VertexIds
    BY <1>1, StoreParts DEF GoodStore, AdjacencyKeys
  <2>. QED
    BY <2>1, <2>2, PartialMapIntro DEF AdjacencyMaps
<1>6. t \in StoreType
  BY <1>1, <1>4, <1>5 DEF S!DeleteEdges, StoreType
<1>7. AdjacencyKeys(t)
  BY <1>2 DEF GoodStore, AdjacencyKeys
<1>8. EndpointsExist(t)
  BY <1>2, <1>3 DEF GoodStore, EndpointsExist
<1>9. AdjacencyExact(t)
  <2> SUFFICES ASSUME NEW v \in DOMAIN s.vertices
               PROVE  /\ t.out[v] = {x \in DOMAIN t.edges : t.edges[x].from = v}
                      /\ t.in[v] = {x \in DOMAIN t.edges : t.edges[x].to = v}
    BY <1>2 DEF AdjacencyExact
  <2>1. /\ s.out[v] = {x \in DOMAIN s.edges : s.edges[x].from = v}
        /\ s.in[v] = {x \in DOMAIN s.edges : s.edges[x].to = v}
        /\ v \in DOMAIN s.out /\ v \in DOMAIN s.in
    BY DEF GoodStore, AdjacencyExact, AdjacencyKeys
  <2>2. /\ t.out[v] = {e \in s.out[v] : e \notin E \/ s.edges[e].from # v}
        /\ t.in[v] = {e \in s.in[v] : e \notin E \/ s.edges[e].to # v}
    BY <1>2, <2>1
  <2>. QED
    BY <1>3, <2>1, <2>2
<1>10. NextAboveIds(t)
  BY <1>2, <1>3 DEF GoodStore, NextAboveIds
<1>. QED
  BY <1>2, <1>6, <1>7, <1>8, <1>9, <1>10 DEF GoodStore

(* A vertex with empty adjacency sets is the endpoint of no edge. *)
LEMMA DeleteVertexGood ==
    ASSUME NEW s, GoodStore(s), NEW id \in VertexIds, S!CanDeleteVertex(s, id)
    PROVE  LET t == S!DeleteVertex(s, id)
           IN  /\ GoodStore(t)
               /\ t.vertices = S!Without(s.vertices, {id}) /\ t.edges = s.edges
               /\ t.nextV = s.nextV /\ t.nextE = s.nextE
<1> DEFINE t == S!DeleteVertex(s, id)
<1>1. s \in StoreType
  BY DEF GoodStore
<1>2. /\ t.vertices = S!Without(s.vertices, {id}) /\ t.edges = s.edges
      /\ t.out = S!Without(s.out, {id}) /\ t.in = S!Without(s.in, {id})
      /\ t.nextV = s.nextV /\ t.nextE = s.nextE
  BY <1>1 DEF S!DeleteVertex, StoreType
<1>3. /\ DOMAIN t.vertices = DOMAIN s.vertices \ {id}
      /\ DOMAIN t.out = DOMAIN s.out \ {id} /\ DOMAIN t.in = DOMAIN s.in \ {id}
      /\ \A x \in DOMAIN t.out : t.out[x] = s.out[x]
      /\ \A x \in DOMAIN t.in : t.in[x] = s.in[x]
  BY <1>2 DEF S!Without
<1>4. /\ S!Without(s.vertices, {id}) \in VertexMaps
      /\ S!Without(s.out, {id}) \in AdjacencyMaps
      /\ S!Without(s.in, {id}) \in AdjacencyMaps
  BY <1>1, StoreParts, WithoutType DEF VertexMaps, AdjacencyMaps
<1>5. t \in StoreType
  BY <1>1, <1>4 DEF S!DeleteVertex, StoreType
<1>6. \A e \in DOMAIN s.edges : s.edges[e].from # id /\ s.edges[e].to # id
  <2>1. id \in DOMAIN s.vertices /\ s.out[id] = {} /\ s.in[id] = {}
    BY DEF S!CanDeleteVertex, S!HasVertex
  <2>2. /\ s.out[id] = {e \in DOMAIN s.edges : s.edges[e].from = id}
        /\ s.in[id] = {e \in DOMAIN s.edges : s.edges[e].to = id}
    BY <2>1 DEF GoodStore, AdjacencyExact
  <2>. QED
    BY <2>1, <2>2
<1>7. AdjacencyKeys(t) /\ EndpointsExist(t) /\ AdjacencyExact(t) /\ NextAboveIds(t)
  <2>1. AdjacencyKeys(t)
    BY <1>3 DEF GoodStore, AdjacencyKeys
  <2>2. EndpointsExist(t)
    BY <1>2, <1>3, <1>6 DEF GoodStore, EndpointsExist
  <2>3. AdjacencyExact(t)
    <3> SUFFICES ASSUME NEW x \in DOMAIN t.vertices
                 PROVE  /\ t.out[x] = {e \in DOMAIN t.edges : t.edges[e].from = x}
                        /\ t.in[x] = {e \in DOMAIN t.edges : t.edges[e].to = x}
      BY DEF AdjacencyExact
    <3>1. x \in DOMAIN s.vertices /\ t.out[x] = s.out[x] /\ t.in[x] = s.in[x]
      BY <1>3, <2>1 DEF AdjacencyKeys
    <3>2. /\ s.out[x] = {e \in DOMAIN s.edges : s.edges[e].from = x}
          /\ s.in[x] = {e \in DOMAIN s.edges : s.edges[e].to = x}
      BY <3>1 DEF GoodStore, AdjacencyExact
    <3>. QED
      BY <1>2, <3>1, <3>2
  <2>4. NextAboveIds(t)
    BY <1>2, <1>3 DEF GoodStore, NextAboveIds
  <2>. QED
    BY <2>1, <2>2, <2>3, <2>4
<1>. QED
  BY <1>2, <1>5, <1>7 DEF GoodStore

(* The cascade of DeleteVertex: every id in the adjacency sets of a vertex *)
(* is an edge, and removing those edges empties both sets.                 *)
LEMMA CascadeReachesVertex ==
    ASSUME NEW s, GoodStore(s), NEW id, S!HasVertex(s, id)
    PROVE  LET E == S!EdgesOf(s, id, "BOTH")
           IN  /\ E \subseteq DOMAIN s.edges
               /\ E = {e \in DOMAIN s.edges : id \in {s.edges[e].from, s.edges[e].to}}
               /\ S!CanDeleteVertex(S!DeleteEdges(s, E), id)
<1> DEFINE E == S!EdgesOf(s, id, "BOTH")
           t == S!DeleteEdges(s, E)
<1>1. /\ id \in DOMAIN s.vertices /\ id \in DOMAIN s.out /\ id \in DOMAIN s.in
      /\ s.out[id] = {e \in DOMAIN s.edges : s.edges[e].from = id}
      /\ s.in[id] = {e \in DOMAIN s.edges : s.edges[e].to = id}
  BY DEF GoodStore, AdjacencyKeys, AdjacencyExact, S!HasVertex
<1>2. E = s.out[id] \cup s.in[id]
  BY <1>1 DEF S!EdgesOf
<1>3. E \subseteq DOMAIN s.edges
      /\ E = {e \in DOMAIN s.edges : id \in {s.edges[e].from, s.edges[e].to}}
  BY <1>1, <1>2
<1>4. GoodStore(t) /\ t.vertices = s.vertices /\ t.edges = S!Without(s.edges, E)
  BY <1>3, DeleteEdgesGood
<1>5. /\ DOMAIN t.edges = DOMAIN s.edges \ E
      /\ \A e \in DOMAIN t.edges : t.edges[e] = s.edges[e]
  BY <1>4 DEF S!Without
<1>6. /\ t.out[id] = {e \in DOMAIN t.edges : t.edges[e].from = id}
      /\ t.in[id] = {e \in DOMAIN t.edges : t.edges[e].to = id}
  BY <1>1, <1>4 DEF GoodStore, AdjacencyExact
<1>7. t.out[id] = {} /\ t.in[id] = {}
  BY <1>3, <1>5, <1>6
<1>. QED
  BY <1>1, <1>3, <1>4, <1>7 DEF S!CanDeleteVertex, S!HasVertex

(* SetNextIDs only ever raises the counters. *)
LEMMA SetNextIDsGood ==
    ASSUME NEW s, GoodStore(s), NEW v \in VertexCounters, NEW e \in EdgeCounters
    PROVE  LET t == S!SetNextIDs(s, v, e)
           IN  /\ GoodStore(t)
               /\ t.vertices = s.vertices /\ t.edges = s.edges
               /\ t.nextV = S!Raise(s.nextV, v) /\ t.nextE = S!Raise(s.nextE, e)
<1> DEFINE t == S!SetNextIDs(s, v, e)
<1>1. s \in StoreType
  BY DEF GoodStore
<1>2. /\ t.vertices = s.vertices /\ t.edges = s.edges /\ t.out = s.out /\ t.in = s.in
      /\ t.nextV = S!Raise(s.nextV, v) /\ t.nextE = S!Raise(s.nextE, e)
  BY <1>1 DEF S!SetNextIDs, StoreType
<1>3. /\ S!Raise(s.nextV, v) \in VertexCounters /\ S!Raise(s.nextV, v) \in Nat
      /\ S!Raise(s.nextE, e) \in EdgeCounters /\ S!Raise(s.nextE, e) \in Nat
      /\ S!Raise(s.nextV, v) >= s.nextV /\ S!Raise(s.nextE, e) >= s.nextE
  BY <1>1, StoreParts, CounterFacts DEF S!Raise
<1>4. t \in StoreType
  BY <1>1, <1>3 DEF S!SetNextIDs, StoreType
<1>5. NextAboveIds(t)
  <2>1. /\ \A id \in DOMAIN s.vertices : id \in Nat
        /\ \A id \in DOMAIN s.edges : id \in Nat
    BY <1>1, StoreParts DEF VertexIds, EdgeIds
  <2>. QED
    BY <1>1, <1>2, <1>3, <2>1, StoreParts DEF GoodStore, NextAboveIds
<1>. QED
  BY <1>2, <1>4, <1>5 DEF GoodStore, AdjacencyKeys, EndpointsExist, AdjacencyExact

(* The least bound is the recorded one when that exceeds every id. *)
LEMMA NextAfterRecorded ==
    ASSUME NEW ids \in SUBSET Nat, NEW n \in Nat \ {0}, \A i \in ids : i < n
    PROVE  S!NextAfter(ids, S!Raise(1, n)) = n
<1>1. S!Raise(1, n) = n
  BY DEF S!Raise
<1> DEFINE Bounds == {n} \cup {i + 1 : i \in ids}
<1>2. n \in Bounds /\ n >= n /\ \A i \in ids : i < n
  OBVIOUS
<1>3. ASSUME NEW m \in Bounds, m >= n
      PROVE  m = n
  BY <1>3
<1>4. S!NextAfter(ids, n) = CHOOSE m \in Bounds : m >= n /\ \A i \in ids : i < m
  BY DEF S!NextAfter
<1>5. (CHOOSE m \in Bounds : m >= n /\ \A i \in ids : i < m) = n
  BY <1>2, <1>3
<1>. QED
  BY <1>1, <1>4, <1>5

(* A snapshot whose parts agree with one another. *)
GoodSnapshot(snap) ==
    /\ snap \in SnapshotType
    /\ EndpointsExist(snap)
    /\ NextAboveIds(snap)

(* What Snapshot reads from a good store is a good snapshot. *)
LEMMA SnapshotOfGood ==
    ASSUME NEW s, GoodStore(s)
    PROVE  GoodSnapshot(S!SnapshotOf(s))
<1>1. s \in StoreType
  BY DEF GoodStore
<1>2. S!SnapshotOf(s) \in SnapshotType
  BY <1>1, StoreParts DEF S!SnapshotOf, SnapshotType
<1>3. EndpointsExist(S!SnapshotOf(s)) /\ NextAboveIds(S!SnapshotOf(s))
  BY DEF GoodStore, S!SnapshotOf, EndpointsExist, NextAboveIds
<1>. QED
  BY <1>2, <1>3 DEF GoodSnapshot

(* Reset accepts a good snapshot and rebuilds a good store from it. *)
LEMMA ResetGood ==
    ASSUME NEW snap, GoodSnapshot(snap)
    PROVE  LET t == S!Reset(snap)
           IN  /\ S!CanReset(snap)
               /\ GoodStore(t)
               /\ t.vertices = snap.vertices /\ t.edges = snap.edges
               /\ t.nextV = snap.nextV /\ t.nextE = snap.nextE
<1> DEFINE t == S!Reset(snap)
           outs == [v \in DOMAIN snap.vertices |->
                       {e \in DOMAIN snap.edges : snap.edges[e].from = v}]
           ins == [v \in DOMAIN snap.vertices |->
                      {e \in DOMAIN snap.edges : snap.edges[e].to = v}]
<1>1. /\ snap \in SnapshotType
      /\ snap.vertices \in VertexMaps /\ snap.edges \in EdgeMaps
      /\ DOMAIN snap.vertices \subseteq VertexIds
      /\ DOMAIN snap.edges \subseteq EdgeIds
      /\ snap.nextV \in VertexCounters /\ snap.nextE \in EdgeCounters
      /\ snap.nextV \in Nat \ {0} /\ snap.nextE \in Nat \ {0}
  BY PartialMapElim, CounterFacts DEF GoodSnapshot, SnapshotType, VertexMaps, EdgeMaps
<1>2. /\ t.vertices = snap.vertices /\ t.edges = snap.edges
      /\ t.out = outs /\ t.in = ins
      /\ t.nextV = S!NextAfter(DOMAIN snap.vertices, S!Raise(1, snap.nextV))
      /\ t.nextE = S!NextAfter(DOMAIN snap.edges, S!Raise(1, snap.nextE))
  BY DEF S!Reset
<1>3. t.nextV = snap.nextV
  <2>1. DOMAIN snap.vertices \in SUBSET Nat /\ \A i \in DOMAIN snap.vertices : i < snap.nextV
    BY <1>1 DEF GoodSnapshot, NextAboveIds, VertexIds
  <2>. QED
    BY <1>1, <1>2, <2>1, NextAfterRecorded
<1>4. t.nextE = snap.nextE
  <2>1. DOMAIN snap.edges \in SUBSET Nat /\ \A i \in DOMAIN snap.edges : i < snap.nextE
    BY <1>1 DEF GoodSnapshot, NextAboveIds, EdgeIds
  <2>. QED
    BY <1>1, <1>2, <2>1, NextAfterRecorded
<1>5. outs \in AdjacencyMaps /\ ins \in AdjacencyMaps
  <2>1. /\ outs \in [DOMAIN snap.vertices -> SUBSET EdgeIds]
        /\ ins \in [DOMAIN snap.vertices -> SUBSET EdgeIds]
    BY <1>1
  <2>. QED
    BY <1>1, <2>1, PartialMapIntro DEF AdjacencyMaps
<1>6. t \in StoreType
  <2>1. t = [vertices |-> t.vertices, edges |-> t.edges, out |-> t.out, in |-> t.in,
             nextV |-> t.nextV, nextE |-> t.nextE]
    BY DEF S!Reset
  <2>. QED
    BY <1>1, <1>2, <1>3, <1>4, <1>5, <2>1 DEF StoreType
<1>7. AdjacencyKeys(t) /\ AdjacencyExact(t)
  BY <1>2 DEF AdjacencyKeys, AdjacencyExact
<1>8. EndpointsExist(t) /\ NextAboveIds(t)
  BY <1>2, <1>3, <1>4 DEF GoodSnapshot, EndpointsExist, NextAboveIds
<1>9. S!CanReset(snap)
  BY DEF GoodSnapshot, EndpointsExist, S!CanReset
<1>. QED
  BY <1>2, <1>3, <1>4, <1>6, <1>7, <1>8, <1>9 DEF GoodStore

LEMMA NewMemStoreGood ==
    /\ GoodStore(S!NewMemStore)
    /\ S!NewMemStore.nextV = 1 /\ S!NewMemStore.nextE = 1
    /\ S!NewMemStore.vertices = [x \in {} |-> {}]
    /\ S!NewMemStore.edges = [x \in {} |-> {}]
<1> DEFINE s == S!NewMemStore
           none == [x \in {} |-> {}]
<1>1. /\ s.vertices = none /\ s.edges = none /\ s.out = none /\ s.in = none
      /\ s.nextV = 1 /\ s.nextE = 1
      /\ DOMAIN none = {}
  BY DEF S!NewMemStore, S!EmptyMap
<1>2. none \in VertexMaps /\ none \in EdgeMaps /\ none \in AdjacencyMaps
  <2>1. /\ none \in [{} -> Vertices] /\ none \in [{} -> EdgeContents]
        /\ none \in [{} -> SUBSET EdgeIds]
        /\ {} \subseteq VertexIds /\ {} \subseteq EdgeIds
    OBVIOUS
  <2>. QED
    BY <2>1, PartialMapIntro DEF VertexMaps, EdgeMaps, AdjacencyMaps
<1>3. s \in StoreType
  BY <1>2, BoundsAssumption
  DEF S!NewMemStore, S!EmptyMap, StoreType, VertexCounters, EdgeCounters
<1>4. AdjacencyKeys(s) /\ EndpointsExist(s) /\ AdjacencyExact(s) /\ NextAboveIds(s)
  BY <1>1 DEF AdjacencyKeys, EndpointsExist, AdjacencyExact, NextAboveIds
<1>. QED
  BY <1>1, <1>3, <1>4 DEF GoodStore

(***************************************************************************)
(* The inductive invariant: a good store whose counters do not run ahead   *)
(* of the allocators, and only good snapshots on disk.                     *)
(***************************************************************************)
Inv ==
    /\ TypeOK
    /\ Integrity

(* The invariant, arranged by the lemmas above. *)
Parts ==
    /\ GoodStore(store)
    /\ store.nextV =< vIds /\ store.nextE =< eIds
    /\ vIds \in VertexCounters /\ eIds \in EdgeCounters
    /\ phase \in {"recovering", "serving", "closing"}
    /\ \A snap \in taken : GoodSnapshot(snap)
    /\ spentV \subseteq VertexIds /\ spentE \subseteq EdgeIds

LEMMA InvParts == (Inv <=> Parts) /\ (Inv' <=> Parts')
<1>1. (taken \subseteq SnapshotType) <=> \A snap \in taken : snap \in SnapshotType
  OBVIOUS
<1>2. Inv <=> Parts
  BY <1>1 DEF Inv, Parts, TypeOK, Integrity, GoodStore, GoodSnapshot
<1>3. (taken' \subseteq SnapshotType) <=> \A snap \in taken' : snap \in SnapshotType
  OBVIOUS
<1>4. Inv' <=> Parts'
  BY <1>3 DEF Inv, Parts, TypeOK, Integrity, GoodStore, GoodSnapshot
<1>. QED
  BY <1>2, <1>4

(* Vertices that the engine builds from a request have the right type. *)
LEMMA NewVertexType ==
    ASSUME NEW labels \in RequestedLabels, NewVertexAccepts(labels),
           NEW props \in PropertyMaps
    PROVE  NewVertex(labels, props) \in Vertices
BY DEF RequestedLabels, NewVertexAccepts, NewVertex, Vertices

LEMMA PatchedVertexType ==
    ASSUME NEW old \in Vertices, NEW labels \in RequestedLabels \cup {Nil},
           NEW patch \in Patches, NewVertexAccepts(PatchedLabels(old, labels))
    PROVE  NewVertex(PatchedLabels(old, labels), PatchedProps(old, patch)) \in Vertices
<1>1. PatchedLabels(old, labels) \in SUBSET Labels
  BY DEF Vertices, RequestedLabels, NewVertexAccepts, PatchedLabels
<1>2. PatchedProps(old, patch) \in PropertyMaps
  <2>1. /\ DOMAIN old.props \subseteq Keys /\ old.props \in [DOMAIN old.props -> Values]
        /\ DOMAIN patch \subseteq Keys /\ patch \in [DOMAIN patch -> Values \cup {Nil}]
    BY PartialMapElim DEF Vertices, PropertyMaps, Patches
  <2> DEFINE K == (DOMAIN old.props \cup DOMAIN patch) \ {j \in DOMAIN patch : patch[j] = Nil}
  <2>2. PatchedProps(old, patch) \in [K -> Values]
    BY <2>1 DEF PatchedProps
  <2>3. K \subseteq Keys
    BY <2>1
  <2>. QED
    BY <2>2, <2>3, PartialMapIntro DEF PropertyMaps
<1>. QED
  BY <1>1, <1>2 DEF NewVertex, Vertices

(* A request the engine refuses changes neither store nor history. *)
LEMMA RefuseKeeps ==
    ASSUME NEW op, NEW status, Refuse(op, status)
    PROVE  UNCHANGED <<store, phase, taken, spentV, spentE>> /\ reply' = Reply(op, status, 0)
BY DEF Refuse, Answer

(* Storing a vertex under an id below the allocator. *)
LEMMA StoreVertexGood ==
    ASSUME Inv, NEW op, NEW id \in VertexIds, NEW v \in Vertices,
           vIds' \in VertexCounters, id < vIds', vIds =< vIds', eIds' = eIds,
           ~S!HasVertex(store, id), StoreVertex(op, id, v, vIds')
    PROVE  /\ Inv'
           /\ reply' = Reply(op, "ok", id)
           /\ store'.vertices = S!Put(store.vertices, id, v)
           /\ store'.edges = store.edges
           /\ taken' = taken
<1> DEFINE s == S!AddVertex(store, id, v)
<1>1. S!CanAddVertex(store, id)
  BY DEF S!CanAddVertex
<1>2. /\ store' = S!SetNextIDs(s, vIds', eIds)
      /\ spentV' = spentV \cup {id} /\ spentE' = spentE
      /\ reply' = Reply(op, "ok", id) /\ phase' = phase /\ taken' = taken
  BY <1>1 DEF StoreVertex, Answer
<1>3. /\ GoodStore(s) /\ s.nextV = S!Raise(store.nextV, id + 1) /\ s.nextE = store.nextE
      /\ s.vertices = S!Put(store.vertices, id, v) /\ s.edges = store.edges
  <2>1. GoodStore(store)
    BY InvParts DEF Parts
  <2>2. store \in StoreType
    BY <2>1 DEF GoodStore
  <2>3. s.vertices = S!Put(store.vertices, id, v) /\ s.edges = store.edges
    BY <2>2 DEF S!AddVertex, StoreType
  <2>. QED
    BY <1>1, <2>1, <2>3, AddVertexGood
<1>4. /\ vIds' \in Nat /\ eIds \in EdgeCounters /\ eIds \in Nat /\ id \in Nat
      /\ store.nextV \in Nat /\ store.nextE \in Nat
      /\ store.nextV =< vIds /\ store.nextE =< eIds /\ vIds \in Nat
  BY InvParts, CounterFacts, StoreParts DEF Parts, GoodStore
<1>5. /\ GoodStore(store')
      /\ store'.vertices = s.vertices /\ store'.edges = s.edges
      /\ store'.nextV = S!Raise(s.nextV, vIds') /\ store'.nextE = S!Raise(s.nextE, eIds)
  BY <1>2, <1>3, <1>4, SetNextIDsGood
<1>6. store'.nextV =< vIds' /\ store'.nextE =< eIds'
  BY <1>3, <1>4, <1>5 DEF S!Raise
<1>7. Inv'
  BY <1>2, <1>5, <1>6, InvParts DEF Parts
<1>. QED
  BY <1>2, <1>3, <1>5, <1>7

(* Storing an edge under an id below the allocator. *)
LEMMA StoreEdgeGood ==
    ASSUME Inv, NEW op, NEW id \in EdgeIds, NEW e \in EdgeContents,
           eIds' \in EdgeCounters, id < eIds', eIds =< eIds', vIds' = vIds,
           S!CanAddEdge(store, id, e), StoreEdge(op, id, e, eIds')
    PROVE  /\ Inv'
           /\ reply' = Reply(op, "ok", id)
           /\ store'.vertices = store.vertices
           /\ store'.edges = S!Put(store.edges, id, e)
           /\ taken' = taken
<1> DEFINE s == S!AddEdge(store, id, e)
<1>1. /\ store' = S!SetNextIDs(s, vIds, eIds')
      /\ spentE' = spentE \cup {id} /\ spentV' = spentV
      /\ reply' = Reply(op, "ok", id) /\ phase' = phase /\ taken' = taken
  BY DEF StoreEdge, Answer
<1>2. /\ GoodStore(s) /\ s.nextE = S!Raise(store.nextE, id + 1) /\ s.nextV = store.nextV
      /\ s.edges = S!Put(store.edges, id, e) /\ s.vertices = store.vertices
  <2>1. GoodStore(store)
    BY InvParts DEF Parts
  <2>2. store \in StoreType
    BY <2>1 DEF GoodStore
  <2>3. s.edges = S!Put(store.edges, id, e) /\ s.vertices = store.vertices
    BY <2>2 DEF S!AddEdge, StoreType
  <2>. QED
    BY <2>1, <2>3, AddEdgeGood
<1>3. /\ eIds' \in Nat /\ vIds \in VertexCounters /\ vIds \in Nat /\ id \in Nat
      /\ store.nextV \in Nat /\ store.nextE \in Nat
      /\ store.nextV =< vIds /\ store.nextE =< eIds /\ eIds \in Nat
  BY InvParts, CounterFacts, StoreParts DEF Parts, GoodStore
<1>4. /\ GoodStore(store')
      /\ store'.vertices = s.vertices /\ store'.edges = s.edges
      /\ store'.nextV = S!Raise(s.nextV, vIds) /\ store'.nextE = S!Raise(s.nextE, eIds')
  BY <1>1, <1>2, <1>3, SetNextIDsGood
<1>5. store'.nextV =< vIds' /\ store'.nextE =< eIds'
  BY <1>2, <1>3, <1>4 DEF S!Raise
<1>6. Inv'
  BY <1>1, <1>4, <1>5, InvParts DEF Parts
<1>. QED
  BY <1>1, <1>2, <1>4, <1>6

(***************************************************************************)
(* One lemma per action: it keeps the invariant, and the store refuses     *)
(* nothing that passed the checks before the log.                          *)
(***************************************************************************)
Kept == Inv' /\ StoreNeverRefuses'

(* A refusal that moves no allocator backwards keeps everything. *)
LEMMA RefuseKept ==
    ASSUME Inv, NEW op, NEW status, Refuse(op, status), status # "internal",
           vIds' \in VertexCounters, vIds =< vIds',
           eIds' \in EdgeCounters, eIds =< eIds'
    PROVE  Kept
<1>1. UNCHANGED <<store, phase, taken, spentV, spentE>> /\ reply' = Reply(op, status, 0)
  BY RefuseKeeps
<1>2. /\ store.nextV \in Nat /\ store.nextE \in Nat /\ vIds \in Nat /\ eIds \in Nat
      /\ vIds' \in Nat /\ eIds' \in Nat
  BY InvParts, CounterFacts, StoreParts DEF Parts, GoodStore
<1>3. Parts'
  BY <1>1, <1>2, InvParts DEF Parts
<1>. QED
  BY <1>1, <1>3, InvParts DEF Kept, StoreNeverRefuses, Reply

(* The answers of the log, none of which is a refusal of the store. *)
LEMMA LogAnswersKinds == \A a \in LogAnswers : a = "ok" \/ a = "wal_error"
BY DEF LogAnswers

LEMMA AllocatorBounds ==
    ASSUME Inv
    PROVE  /\ vIds \in VertexCounters /\ vIds \in Nat
           /\ eIds \in EdgeCounters /\ eIds \in Nat
           /\ MaxVertexId \in Nat /\ MaxEdgeId \in Nat
BY InvParts, CounterFacts DEF Parts

LEMMA CreateVertexKept ==
    ASSUME Inv, NEW labels \in RequestedLabels, NEW props \in PropertyMaps,
           CreateVertex(labels, props)
    PROVE  Kept
<1>1. /\ vIds' = vIds + 1 /\ eIds' = eIds /\ vIds \in VertexIds
      /\ vIds' \in VertexCounters /\ vIds < vIds' /\ vIds =< vIds'
      /\ eIds' \in EdgeCounters /\ eIds =< eIds'
  BY AllocatorBounds DEF CreateVertex, VertexIds, VertexCounters
<1>2. CASE Refuse("CreateVertex", "invalid")
  BY <1>1, <1>2, RefuseKept
<1>3. CASE Refuse("CreateVertex", "wal_error")
  BY <1>1, <1>3, RefuseKept
<1>4. CASE /\ NewVertexAccepts(labels)
           /\ StoreVertex("CreateVertex", vIds, NewVertex(labels, props), vIds + 1)
  <2>1. NewVertex(labels, props) \in Vertices
    BY <1>4, NewVertexType
  <2>2. ~S!HasVertex(store, vIds)
    BY InvParts, AllocatorBounds, StoreParts
    DEF Parts, GoodStore, NextAboveIds, S!HasVertex
  <2>. QED
    BY <1>1, <1>4, <2>1, <2>2, StoreVertexGood DEF Kept, StoreNeverRefuses, Reply
<1>. QED
  BY <1>2, <1>3, <1>4, LogAnswersKinds DEF CreateVertex

LEMMA PutVertexKept ==
    ASSUME Inv, NEW id \in VertexIds, NEW labels \in SUBSET Labels,
           NEW props \in PropertyMaps, PutVertexWithID(id, labels, props)
    PROVE  Kept
<1>1. CASE /\ S!HasVertex(store, id)
           /\ Refuse("PutVertexWithID", "conflict") /\ vIds' = vIds
  BY <1>1, AllocatorBounds, RefuseKept DEF PutVertexWithID
<1>2. CASE /\ ~S!HasVertex(store, id) /\ vIds' = Restore(vIds, id + 1)
           /\ StoreVertex("PutVertexWithID", id, NewVertex(labels, props), vIds')
  <2>1. NewVertex(labels, props) \in Vertices
    BY DEF NewVertex, Vertices
  <2>2. /\ vIds' \in VertexCounters /\ id < vIds' /\ vIds =< vIds' /\ eIds' = eIds
    BY <1>2, AllocatorBounds DEF PutVertexWithID, VertexIds, VertexCounters, Restore
  <2>. QED
    BY <1>2, <2>1, <2>2, StoreVertexGood DEF Kept, StoreNeverRefuses, Reply
<1>. QED
  BY <1>1, <1>2 DEF PutVertexWithID

LEMMA UpdateVertexKept ==
    ASSUME Inv, NEW id \in VertexIds, NEW labels \in RequestedLabels \cup {Nil},
           NEW patch \in Patches, UpdateVertex(id, labels, patch)
    PROVE  Kept
<1> DEFINE old == store.vertices[id]
           current == NewVertex(PatchedLabels(old, labels), PatchedProps(old, patch))
<1>1. vIds' = vIds /\ eIds' = eIds
  BY DEF UpdateVertex
<1>2. ASSUME NEW status, status # "internal", Refuse("UpdateVertex", status)
      PROVE  Kept
  BY <1>1, <1>2, AllocatorBounds, RefuseKept
<1>3. CASE /\ S!HasVertex(store, id) /\ NewVertexAccepts(PatchedLabels(old, labels))
           /\ store' = S!UpdateVertex(store, id, current)
           /\ Answer("UpdateVertex", "ok", id) /\ UNCHANGED <<spentV, spentE>>
  <2>1. GoodStore(store)
    BY InvParts DEF Parts
  <2>2. old \in Vertices
    BY <1>3, <2>1, StoreParts DEF GoodStore, S!HasVertex
  <2>3. current \in Vertices
    BY <1>3, <2>2, PatchedVertexType
  <2>4. GoodStore(store') /\ store'.nextV = store.nextV /\ store'.nextE = store.nextE
    BY <1>3, <2>1, <2>3, UpdateVertexGood
  <2>5. Parts'
    BY <1>1, <1>3, <2>4, InvParts DEF Parts, Answer
  <2>. QED
    BY <1>3, <2>5, InvParts DEF Kept, StoreNeverRefuses, Answer, Reply
<1>. QED
  BY <1>2, <1>3, LogAnswersKinds DEF UpdateVertex

LEMMA DeleteVertexKept ==
    ASSUME Inv, NEW id \in VertexIds, DeleteVertex(id)
    PROVE  Kept
<1> DEFINE E == S!EdgesOf(store, id, "BOTH")
           bare == S!DeleteEdges(store, E)
<1>1. vIds' = vIds /\ eIds' = eIds
  BY DEF DeleteVertex
<1>2. ASSUME NEW status, status # "internal", Refuse("DeleteVertex", status)
      PROVE  Kept
  BY <1>1, <1>2, AllocatorBounds, RefuseKept
<1>3. CASE S!HasVertex(store, id) /\ RemoveFromStore(id, E)
  <2>1. GoodStore(store)
    BY InvParts DEF Parts
  <2>2. E \subseteq DOMAIN store.edges /\ S!CanDeleteVertex(bare, id)
    BY <1>3, <2>1, CascadeReachesVertex
  <2>3. /\ store' = S!DeleteVertex(bare, id)
        /\ Answer("DeleteVertex", "ok", id) /\ UNCHANGED <<spentV, spentE>>
    BY <1>3, <2>2 DEF RemoveFromStore
  <2>4. GoodStore(bare) /\ bare.nextV = store.nextV /\ bare.nextE = store.nextE
    BY <2>1, <2>2, DeleteEdgesGood
  <2>5. GoodStore(store') /\ store'.nextV = store.nextV /\ store'.nextE = store.nextE
    BY <2>2, <2>3, <2>4, DeleteVertexGood
  <2>6. Parts'
    BY <1>1, <2>3, <2>5, InvParts DEF Parts, Answer
  <2>. QED
    BY <2>3, <2>6, InvParts DEF Kept, StoreNeverRefuses, Answer, Reply
<1>. QED
  BY <1>2, <1>3, LogAnswersKinds DEF DeleteVertex

LEMMA CreateEdgeKept ==
    ASSUME Inv, NEW from \in VertexIds, NEW to \in VertexIds,
           NEW label \in EdgeLabels \cup {Blank}, CreateEdge(from, to, label)
    PROVE  Kept
<1> DEFINE e == NewEdge(from, to, label)
<1>1. CASE Refuse("CreateEdge", "conflict") /\ UNCHANGED <<vIds, eIds>>
  BY <1>1, AllocatorBounds, RefuseKept
<1>2. CASE /\ S!HasVertex(store, from) /\ S!HasVertex(store, to)
           /\ eIds =< MaxEdgeId /\ eIds' = eIds + 1 /\ vIds' = vIds
           /\ \/ Refuse("CreateEdge", "invalid")
              \/ Refuse("CreateEdge", "wal_error")
              \/ /\ NewEdgeAccepts(label)
                 /\ StoreEdge("CreateEdge", eIds, e, eIds + 1)
  <2>1. /\ eIds \in EdgeIds /\ eIds' \in EdgeCounters /\ eIds < eIds' /\ eIds =< eIds'
        /\ vIds' \in VertexCounters /\ vIds =< vIds'
    BY <1>2, AllocatorBounds DEF EdgeIds, EdgeCounters
  <2>2. CASE Refuse("CreateEdge", "invalid")
    BY <2>1, <2>2, RefuseKept
  <2>3. CASE Refuse("CreateEdge", "wal_error")
    BY <2>1, <2>3, RefuseKept
  <2>4. CASE NewEdgeAccepts(label) /\ StoreEdge("CreateEdge", eIds, e, eIds + 1)
    <3>1. e \in EdgeContents
      BY <2>4 DEF NewEdgeAccepts, NewEdge, EdgeContents
    <3>2. eIds \notin DOMAIN store.edges
      BY InvParts, AllocatorBounds, StoreParts DEF Parts, GoodStore, NextAboveIds
    <3>3. S!CanAddEdge(store, eIds, e)
      BY <1>2, <3>2 DEF NewEdge, S!CanAddEdge, S!HasVertex, S!HasEdge
    <3>. QED
      BY <1>2, <2>1, <2>4, <3>1, <3>3, StoreEdgeGood DEF Kept, StoreNeverRefuses, Reply
  <2>. QED
    BY <1>2, <2>2, <2>3, <2>4
<1>. QED
  BY <1>1, <1>2, LogAnswersKinds DEF CreateEdge

LEMMA PutEdgeKept ==
    ASSUME Inv, NEW id \in EdgeIds, NEW from \in VertexIds, NEW to \in VertexIds,
           NEW label \in EdgeLabels, PutEdgeWithID(id, from, to, label)
    PROVE  Kept
<1> DEFINE e == NewEdge(from, to, label)
<1>1. ASSUME NEW status, status # "internal", Refuse("PutEdgeWithID", status),
             UNCHANGED <<vIds, eIds>>
      PROVE  Kept
  BY <1>1, AllocatorBounds, RefuseKept
<1>2. CASE /\ S!HasVertex(store, from) /\ S!HasVertex(store, to) /\ ~S!HasEdge(store, id)
           /\ eIds' = Restore(eIds, id + 1) /\ vIds' = vIds
           /\ StoreEdge("PutEdgeWithID", id, e, eIds')
  <2>1. e \in EdgeContents
    BY DEF NewEdge, EdgeContents
  <2>2. S!CanAddEdge(store, id, e)
    BY <1>2 DEF NewEdge, S!CanAddEdge, S!HasVertex
  <2>3. eIds' \in EdgeCounters /\ id < eIds' /\ eIds =< eIds' /\ vIds' = vIds
    BY <1>2, AllocatorBounds DEF EdgeIds, EdgeCounters, Restore
  <2>. QED
    BY <1>2, <2>1, <2>2, <2>3, StoreEdgeGood DEF Kept, StoreNeverRefuses, Reply
<1>. QED
  BY <1>1, <1>2 DEF PutEdgeWithID

LEMMA DeleteEdgeKept ==
    ASSUME Inv, NEW id \in EdgeIds, DeleteEdge(id)
    PROVE  Kept
<1>1. vIds' = vIds /\ eIds' = eIds
  BY DEF DeleteEdge
<1>2. ASSUME NEW status, status # "internal", Refuse("DeleteEdge", status)
      PROVE  Kept
  BY <1>1, <1>2, AllocatorBounds, RefuseKept
<1>3. CASE /\ S!HasEdge(store, id) /\ store' = S!DeleteEdge(store, id)
           /\ Answer("DeleteEdge", "ok", id) /\ UNCHANGED <<spentV, spentE>>
  <2>1. GoodStore(store) /\ {id} \subseteq DOMAIN store.edges
    BY <1>3, InvParts DEF Parts, S!HasEdge
  <2>2. GoodStore(store') /\ store'.nextV = store.nextV /\ store'.nextE = store.nextE
    BY <1>3, <2>1, DeleteEdgesGood DEF S!DeleteEdge
  <2>3. Parts'
    BY <1>1, <1>3, <2>2, InvParts DEF Parts, Answer
  <2>. QED
    BY <1>3, <2>3, InvParts DEF Kept, StoreNeverRefuses, Answer, Reply
<1>. QED
  BY <1>2, <1>3, LogAnswersKinds DEF DeleteEdge

LEMMA SnapshotKept ==
    ASSUME Inv, Snapshot
    PROVE  Kept
<1>1. GoodSnapshot(S!SnapshotOf(store))
  BY InvParts, SnapshotOfGood DEF Parts
<1>2. Parts'
  BY <1>1, InvParts DEF Parts, Snapshot
<1>. QED
  BY <1>2, InvParts DEF Kept, StoreNeverRefuses, Snapshot, Reply

(* Replace may move the allocators backwards, but never below an id that   *)
(* the restored store holds.                                               *)
LEMMA ReplaceKept ==
    ASSUME Inv, NEW snap \in taken, Replace(snap)
    PROVE  Kept
<1>1. GoodSnapshot(snap)
  BY InvParts DEF Parts
<1>2. /\ S!CanReset(snap) /\ GoodStore(S!Reset(snap))
      /\ S!Reset(snap).nextV = snap.nextV /\ S!Reset(snap).nextE = snap.nextE
  BY <1>1, ResetGood
<1>3. /\ store' = S!Reset(snap) /\ reply' = Reply("Replace", "ok", 0)
      /\ vIds' = NewIDAllocator(snap.nextV) /\ eIds' = NewIDAllocator(snap.nextE)
      /\ spentV' = DOMAIN snap.vertices /\ spentE' = DOMAIN snap.edges
      /\ UNCHANGED <<phase, taken>>
  BY <1>2 DEF Replace
<1>4. snap.nextV \in VertexCounters /\ snap.nextE \in EdgeCounters
  BY <1>1 DEF GoodSnapshot, SnapshotType
<1>5. vIds' = snap.nextV /\ eIds' = snap.nextE /\ snap.nextV \in Nat /\ snap.nextE \in Nat
  BY <1>3, <1>4, CounterFacts DEF NewIDAllocator
<1>6. DOMAIN snap.vertices \subseteq VertexIds /\ DOMAIN snap.edges \subseteq EdgeIds
  BY <1>1 DEF GoodSnapshot, SnapshotType, VertexMaps, EdgeMaps, PartialMaps
<1>7. Parts'
  BY <1>2, <1>3, <1>4, <1>5, <1>6, InvParts DEF Parts
<1>. QED
  BY <1>3, <1>7, InvParts DEF Kept, StoreNeverRefuses, Reply

LEMMA SetWALKept ==
    ASSUME Inv, SetWAL
    PROVE  Kept
<1>1. Parts'
  BY InvParts DEF Parts, SetWAL
<1>. QED
  BY <1>1, InvParts DEF Kept, StoreNeverRefuses, SetWAL, Reply

-----------------------------------------------------------------------------
(***************************************************************************)
(* The theorems.                                                           *)
(***************************************************************************)
IInv == Inv /\ StoreNeverRefuses

LEMMA InitIInv == Init => IInv
<1> SUFFICES ASSUME Init
             PROVE  IInv
  OBVIOUS
<1>1. GoodStore(store) /\ store.nextV = 1 /\ store.nextE = 1
  BY NewMemStoreGood DEF Init
<1>2. vIds = 1 /\ eIds = 1 /\ 1 \in VertexCounters /\ 1 \in EdgeCounters
  BY <1>1, BoundsAssumption DEF Init, NewIDAllocator, VertexCounters, EdgeCounters
<1>3. Parts
  BY <1>1, <1>2 DEF Init, Parts
<1>. QED
  BY <1>3, InvParts DEF IInv, Init, StoreNeverRefuses, Reply

LEMMA NextIInv == IInv /\ [Next]_vars => IInv'
<1> SUFFICES ASSUME IInv, [Next]_vars
             PROVE  IInv'
  OBVIOUS
<1>1. Inv
  BY DEF IInv
<1>2. CASE UNCHANGED vars
  BY <1>2 DEF IInv, Inv, TypeOK, Integrity, StoreNeverRefuses, vars
<1>3. CASE Next
  BY <1>1, <1>3, CreateVertexKept, PutVertexKept, UpdateVertexKept, DeleteVertexKept,
     CreateEdgeKept, PutEdgeKept, DeleteEdgeKept, SnapshotKept, ReplaceKept, SetWALKept
  DEF Next, Kept, IInv
<1>. QED
  BY <1>2, <1>3

LEMMA Invariance == Spec => []IInv
<1>. QED
  BY InitIInv, NextIInv, PTL DEF Spec

(* Every value an engine variable takes has its type (graph.go:24-28,      *)
(* memstore.go:4-8).                                                       *)
THEOREM TypeCorrect == Spec => []TypeOK
<1>1. IInv => TypeOK
  BY DEF IInv, Inv
<1>. QED
  BY <1>1, Invariance, PTL

(* The edge map, the two adjacency maps and the identifier counters agree  *)
(* in every reachable state, whatever the log answers and whichever        *)
(* snapshot is loaded (memstore.go:14-91, graph.go:38-168).                *)
THEOREM IntegrityHolds == Spec => []Integrity
<1>1. IInv => Integrity
  BY DEF IInv, Inv
<1>. QED
  BY <1>1, Invariance, PTL

(* A change that has been logged is never turned down by the store         *)
(* afterwards, so log and memory cannot part ways inside one call          *)
(* (graph.go:44-45, 80-81, 88-94, 105-106, 164).                           *)
THEOREM LoggedMeansStored == Spec => []StoreNeverRefuses
<1>1. IInv => StoreNeverRefuses
  BY DEF IInv
<1>. QED
  BY <1>1, Invariance, PTL
-----------------------------------------------------------------------------
(***************************************************************************)
(* Between two loads the allocators never hand out an identifier twice.    *)
(* The history variables lie below the allocators: that is the             *)
(* strengthening the action property needs.                                *)
(***************************************************************************)

History ==
    /\ \A id \in spentV : id < vIds
    /\ \A id \in spentE : id < eIds

(* What a step does to allocators and histories when nothing is loaded. *)
Advances ==
    /\ vIds =< vIds' /\ eIds =< eIds'
    /\ \A id \in spentV' : id \in spentV \/ id < vIds'
    /\ \A id \in spentE' : id \in spentE \/ id < eIds'
    /\ reply'.op = "CreateVertex" /\ reply'.status = "ok" => reply'.id = vIds
    /\ reply'.op = "CreateEdge" /\ reply'.status = "ok" => reply'.id = eIds

LEMMA RefuseAdvances ==
    ASSUME NEW op, NEW status, status # "ok", Refuse(op, status),
           vIds =< vIds', eIds =< eIds'
    PROVE  Advances
BY RefuseKeeps DEF Advances, Reply

LEMMA StoreVertexAdvances ==
    ASSUME NEW op, NEW id, NEW v, NEW n, StoreVertex(op, id, v, n),
           vIds =< vIds', eIds =< eIds', id < vIds',
           op # "CreateEdge", op = "CreateVertex" => id = vIds
    PROVE  Advances
<1>1. CASE S!CanAddVertex(store, id)
  BY <1>1 DEF StoreVertex, Answer, Reply, Advances
<1>2. CASE ~S!CanAddVertex(store, id)
  BY <1>2, RefuseAdvances DEF StoreVertex
<1>. QED
  BY <1>1, <1>2

LEMMA StoreEdgeAdvances ==
    ASSUME NEW op, NEW id, NEW e, NEW n, StoreEdge(op, id, e, n),
           vIds =< vIds', eIds =< eIds', id < eIds',
           op # "CreateVertex", op = "CreateEdge" => id = eIds
    PROVE  Advances
<1>1. CASE S!CanAddEdge(store, id, e)
  BY <1>1 DEF StoreEdge, Answer, Reply, Advances
<1>2. CASE ~S!CanAddEdge(store, id, e)
  BY <1>2, RefuseAdvances DEF StoreEdge
<1>. QED
  BY <1>1, <1>2

LEMMA CreateVertexAdvances ==
    ASSUME Inv, NEW labels, NEW props, CreateVertex(labels, props)
    PROVE  Advances
<1>1. vIds < vIds' /\ vIds =< vIds' /\ eIds =< eIds'
  BY AllocatorBounds DEF CreateVertex
<1>2. CASE Refuse("CreateVertex", "invalid") \/ Refuse("CreateVertex", "wal_error")
  BY <1>1, <1>2, RefuseAdvances
<1>3. CASE StoreVertex("CreateVertex", vIds, NewVertex(labels, props), vIds + 1)
  BY <1>1, <1>3, StoreVertexAdvances
<1>. QED
  BY <1>2, <1>3, LogAnswersKinds DEF CreateVertex

LEMMA PutVertexAdvances ==
    ASSUME Inv, NEW id \in VertexIds, NEW labels, NEW props,
           PutVertexWithID(id, labels, props)
    PROVE  Advances
<1>1. CASE Refuse("PutVertexWithID", "conflict") /\ UNCHANGED <<vIds, eIds>>
  BY <1>1, AllocatorBounds, RefuseAdvances
<1>2. CASE /\ vIds' = Restore(vIds, id + 1) /\ eIds' = eIds
           /\ StoreVertex("PutVertexWithID", id, NewVertex(labels, props), vIds')
  <2>1. id < vIds' /\ vIds =< vIds' /\ eIds =< eIds'
    BY <1>2, AllocatorBounds, CounterFacts DEF Restore
  <2>. QED
    BY <1>2, <2>1, StoreVertexAdvances
<1>. QED
  BY <1>1, <1>2 DEF PutVertexWithID

LEMMA CreateEdgeAdvances ==
    ASSUME Inv, NEW from, NEW to, NEW label, CreateEdge(from, to, label)
    PROVE  Advances
<1>1. CASE Refuse("CreateEdge", "conflict") /\ UNCHANGED <<vIds, eIds>>
  BY <1>1, AllocatorBounds, RefuseAdvances
<1>2. CASE eIds' = eIds + 1 /\ vIds' = vIds
  <2>1. eIds < eIds' /\ eIds =< eIds' /\ vIds =< vIds'
    BY <1>2, AllocatorBounds
  <2>2. CASE Refuse("CreateEdge", "invalid") \/ Refuse("CreateEdge", "wal_error")
    BY <2>1, <2>2, RefuseAdvances
  <2>3. CASE StoreEdge("CreateEdge", eIds, NewEdge(from, to, label), eIds + 1)
    BY <2>1, <2>3, StoreEdgeAdvances
  <2>4. CASE Refuse("CreateEdge", "conflict")
    BY <2>1, <2>4, RefuseAdvances
  <2>. QED
    BY <2>2, <2>3, <2>4, LogAnswersKinds DEF CreateEdge
<1>. QED
  BY <1>1, <1>2 DEF CreateEdge

LEMMA PutEdgeAdvances ==
    ASSUME Inv, NEW id \in EdgeIds, NEW from, NEW to, NEW label,
           PutEdgeWithID(id, from, to, label)
    PROVE  Advances
<1>1. CASE /\ Refuse("PutEdgeWithID", "conflict") \/ Refuse("PutEdgeWithID", "exists")
           /\ UNCHANGED <<vIds, eIds>>
  BY <1>1, AllocatorBounds, RefuseAdvances
<1>2. CASE /\ eIds' = Restore(eIds, id + 1) /\ vIds' = vIds
           /\ StoreEdge("PutEdgeWithID", id, NewEdge(from, to, label), eIds')
  <2>1. id < eIds' /\ eIds =< eIds' /\ vIds =< vIds'
    BY <1>2, AllocatorBounds, CounterFacts DEF Restore
  <2>. QED
    BY <1>2, <2>1, StoreEdgeAdvances
<1>. QED
  BY <1>1, <1>2 DEF PutEdgeWithID

(* The actions that leave allocators and histories alone. *)
LEMMA OthersAdvance ==
    ASSUME Inv,
           \/ \E id, labels, patch : UpdateVertex(id, labels, patch)
           \/ \E id : DeleteVertex(id)
           \/ \E id : DeleteEdge(id)
           \/ Snapshot
           \/ SetWAL
    PROVE  Advances
<1>1. /\ UNCHANGED <<vIds, eIds, spentV, spentE>>
      /\ reply'.op \in {"UpdateVertex", "DeleteVertex", "DeleteEdge", "Snapshot", "SetWAL"}
  BY DEF UpdateVertex, DeleteVertex, RemoveFromStore, DeleteEdge, Snapshot, SetWAL, Refuse,
         Answer, Reply
<1>. QED
  BY <1>1, AllocatorBounds DEF Advances

(* A load begins both histories again, below the allocators it builds:     *)
(* every identifier of a good snapshot is below the recorded next one.     *)
LEMMA ReplaceStartsOver ==
    ASSUME Inv, NEW snap \in taken, Replace(snap)
    PROVE  History' /\ reply'.op = "Replace"
<1>1. GoodSnapshot(snap)
  BY InvParts DEF Parts
<1>2. /\ vIds' = NewIDAllocator(snap.nextV) /\ eIds' = NewIDAllocator(snap.nextE)
      /\ spentV' = DOMAIN snap.vertices /\ spentE' = DOMAIN snap.edges
      /\ reply' = Reply("Replace", "ok", 0)
  BY <1>1, ResetGood DEF Replace
<1>3. snap.nextV \in VertexCounters /\ snap.nextE \in EdgeCounters /\ NextAboveIds(snap)
  BY <1>1 DEF GoodSnapshot, SnapshotType
<1>4. vIds' = snap.nextV /\ eIds' = snap.nextE
  BY <1>2, <1>3, CounterFacts DEF NewIDAllocator
<1>. QED
  BY <1>2, <1>3, <1>4 DEF History, NextAboveIds, Reply

LEMMA NextAdvances ==
    ASSUME Inv, Next
    PROVE  Advances \/ \E snap \in taken : Replace(snap)
BY CreateVertexAdvances, PutVertexAdvances, CreateEdgeAdvances, PutEdgeAdvances, OthersAdvance
DEF Next

(* What the property says of a step. *)
GivesFresh ==
    /\ reply'.op = "CreateVertex" /\ reply'.status = "ok" => reply'.id \notin spentV
    /\ reply'.op = "CreateEdge" /\ reply'.status = "ok" => reply'.id \notin spentE

LEMMA HistoryKept ==
    ASSUME Inv, Inv', History, Advances
    PROVE  History' /\ GivesFresh
<1>1. /\ vIds \in Nat /\ vIds' \in Nat /\ eIds \in Nat /\ eIds' \in Nat
      /\ \A id \in spentV : id \in Nat
      /\ \A id \in spentE : id \in Nat
  BY InvParts, CounterFacts DEF Parts
<1>. QED
  BY <1>1 DEF History, Advances, GivesFresh

-----------------------------------------------------------------------------
(* Between two loads an identifier given to a new element was never in     *)
(* use, deleted elements and failed calls included, and a load leaves the  *)
(* allocators above all it has put in (id.go:20-38, graph.go:41, 55, 103,  *)
(* 119, 160-168).                                                          *)
THEOREM NoReuseBetweenLoads == Spec => FreshIds
<1>1. Init => IInv /\ History
  BY InitIInv DEF Init, History
<1>2. IInv /\ History /\ [Next]_vars => (IInv /\ History)' /\ [GivesFresh]_vars
  <2> SUFFICES ASSUME IInv, History, [Next]_vars
               PROVE  (IInv /\ History)' /\ [GivesFresh]_vars
    OBVIOUS
  <2>1. IInv'
    BY NextIInv
  <2>2. CASE UNCHANGED vars
    BY <2>1, <2>2 DEF History, vars
  <2>3. ASSUME NEW snap \in taken, Replace(snap)
        PROVE  (IInv /\ History)' /\ [GivesFresh]_vars
    BY <2>1, <2>3, ReplaceStartsOver DEF IInv, GivesFresh
  <2>4. CASE Advances
    BY <2>1, <2>4, HistoryKept DEF IInv
  <2>. QED
    BY <2>2, <2>3, <2>4, NextAdvances DEF IInv
<1>. QED
  BY <1>1, <1>2, PTL DEF Spec, FreshIds, GivesFresh
-----------------------------------------------------------------------------
(***************************************************************************)
(* The engine implements the abstract property graph: its initial state is *)
(* an empty graph and each of its steps is a step of PropertyGraph or      *)
(* leaves the abstract state alone.                                        *)
(***************************************************************************)

AbstractStep == Abstract!Next \/ UNCHANGED Abstract!vars

(* A step that touches neither elements nor snapshots is a stutter. *)
LEMMA StutterStep ==
    ASSUME store' = store, taken' = taken
    PROVE  AbstractStep
BY DEF AbstractStep, Abstract!vars

LEMMA RefuseStep ==
    ASSUME NEW op, NEW status, Refuse(op, status)
    PROVE  AbstractStep
BY RefuseKeeps, StutterStep

(* Storing a vertex adds it, or touches nothing if the store refuses. *)
LEMMA StoreVertexStep ==
    ASSUME Inv, NEW op, NEW id \in VertexIds, NEW v \in Vertices, NEW n,
           StoreVertex(op, id, v, n)
    PROVE  AbstractStep
<1>1. CASE S!CanAddVertex(store, id)
  <2>1. store \in StoreType
    BY InvParts DEF Parts, GoodStore
  <2>2. /\ store'.vertices = S!Put(store.vertices, id, v) /\ store'.edges = store.edges
        /\ taken' = taken
    BY <1>1, <2>1
    DEF StoreVertex, Answer, S!AddVertex, S!SetNextIDs, StoreType
  <2>3. Abstract!AddVertex(id, v)
    BY <1>1, <2>2
    DEF Abstract!AddVertex, Abstract!With, S!Put, S!CanAddVertex, S!HasVertex
  <2>. QED
    BY <2>3 DEF AbstractStep, Abstract!Next
<1>2. CASE ~S!CanAddVertex(store, id)
  BY <1>2, RefuseStep DEF StoreVertex
<1>. QED
  BY <1>1, <1>2

LEMMA StoreEdgeStep ==
    ASSUME Inv, NEW op, NEW id \in EdgeIds, NEW from \in VertexIds, NEW to \in VertexIds,
           NEW label \in EdgeLabels, NEW n, StoreEdge(op, id, NewEdge(from, to, label), n)
    PROVE  AbstractStep
<1> DEFINE e == NewEdge(from, to, label)
<1>1. CASE S!CanAddEdge(store, id, e)
  <2>1. store \in StoreType
    BY InvParts DEF Parts, GoodStore
  <2>2. /\ store'.edges = S!Put(store.edges, id, e) /\ store'.vertices = store.vertices
        /\ taken' = taken
    BY <1>1, <2>1
    DEF StoreEdge, Answer, S!AddEdge, S!SetNextIDs, StoreType
  <2>3. e = [from |-> from, to |-> to, label |-> label]
    BY DEF NewEdge
  <2>4. Abstract!AddEdge(id, from, to, label)
    BY <1>1, <2>2, <2>3
    DEF Abstract!AddEdge, Abstract!With, S!Put, S!CanAddEdge, S!HasEdge, S!HasVertex
  <2>. QED
    BY <2>4 DEF AbstractStep, Abstract!Next
<1>2. CASE ~S!CanAddEdge(store, id, e)
  BY <1>2, RefuseStep DEF StoreEdge
<1>. QED
  BY <1>1, <1>2

LEMMA CreateVertexStep ==
    ASSUME Inv, NEW labels \in RequestedLabels, NEW props \in PropertyMaps,
           CreateVertex(labels, props)
    PROVE  AbstractStep
<1>1. vIds \in VertexIds
  BY AllocatorBounds DEF CreateVertex, VertexIds, VertexCounters
<1>2. CASE \E status : Refuse("CreateVertex", status)
  BY <1>2, RefuseStep
<1>3. CASE /\ NewVertexAccepts(labels)
           /\ StoreVertex("CreateVertex", vIds, NewVertex(labels, props), vIds + 1)
  BY <1>1, <1>3, NewVertexType, StoreVertexStep
<1>. QED
  BY <1>2, <1>3 DEF CreateVertex

LEMMA PutVertexStep ==
    ASSUME Inv, NEW id \in VertexIds, NEW labels \in SUBSET Labels,
           NEW props \in PropertyMaps, PutVertexWithID(id, labels, props)
    PROVE  AbstractStep
<1>1. NewVertex(labels, props) \in Vertices
  BY DEF NewVertex, Vertices
<1>. QED
  BY <1>1, RefuseStep, StoreVertexStep DEF PutVertexWithID

LEMMA UpdateVertexStep ==
    ASSUME Inv, NEW id \in VertexIds, NEW labels \in RequestedLabels \cup {Nil},
           NEW patch \in Patches, UpdateVertex(id, labels, patch)
    PROVE  AbstractStep
<1> DEFINE old == store.vertices[id]
           current == NewVertex(PatchedLabels(old, labels), PatchedProps(old, patch))
<1>1. CASE \E status : Refuse("UpdateVertex", status)
  BY <1>1, RefuseStep
<1>2. CASE /\ S!HasVertex(store, id) /\ NewVertexAccepts(PatchedLabels(old, labels))
           /\ store' = S!UpdateVertex(store, id, current)
           /\ Answer("UpdateVertex", "ok", id)
  <2>1. store \in StoreType /\ old \in Vertices
    BY <1>2, InvParts, StoreParts DEF Parts, GoodStore, S!HasVertex
  <2>2. current \in Vertices
    BY <1>2, <2>1, PatchedVertexType
  <2>3. /\ store'.vertices = S!Put(store.vertices, id, current)
        /\ store'.edges = store.edges /\ taken' = taken
    BY <1>2, <2>1 DEF S!UpdateVertex, StoreType, Answer
  <2>4. Abstract!ChangeVertex(id, current)
    BY <1>2, <2>3 DEF Abstract!ChangeVertex, Abstract!With, S!Put, S!HasVertex
  <2>. QED
    BY <2>2, <2>4 DEF AbstractStep, Abstract!Next
<1>. QED
  BY <1>1, <1>2 DEF UpdateVertex

(* The cascade is one abstract step: the vertex and its incident edges. *)
LEMMA DeleteVertexStep ==
    ASSUME Inv, NEW id \in VertexIds, DeleteVertex(id)
    PROVE  AbstractStep
<1> DEFINE E == S!EdgesOf(store, id, "BOTH")
           bare == S!DeleteEdges(store, E)
<1>1. CASE \E status : Refuse("DeleteVertex", status)
  BY <1>1, RefuseStep
<1>2. CASE S!HasVertex(store, id) /\ RemoveFromStore(id, E)
  <2>1. GoodStore(store)
    BY InvParts DEF Parts
  <2>2. /\ E \subseteq DOMAIN store.edges
        /\ E = {e \in DOMAIN store.edges : id \in {store.edges[e].from, store.edges[e].to}}
        /\ S!CanDeleteVertex(bare, id)
    BY <1>2, <2>1, CascadeReachesVertex
  <2>3. store' = S!DeleteVertex(bare, id) /\ taken' = taken
    BY <1>2, <2>2 DEF RemoveFromStore, Answer
  <2>4. /\ GoodStore(bare)
        /\ bare.vertices = store.vertices /\ bare.edges = S!Without(store.edges, E)
    BY <2>1, <2>2, DeleteEdgesGood
  <2>5. /\ store'.vertices = S!Without(store.vertices, {id})
        /\ store'.edges = S!Without(store.edges, E)
    BY <2>2, <2>3, <2>4, DeleteVertexGood
  <2>6. E = Abstract!IncidentEdges(id)
    BY <2>2 DEF Abstract!IncidentEdges
  <2>7. Abstract!RemoveVertex(id)
    BY <1>2, <2>3, <2>5, <2>6
    DEF Abstract!RemoveVertex, Abstract!Minus, S!Without, S!HasVertex
  <2>. QED
    BY <2>7 DEF AbstractStep, Abstract!Next
<1>. QED
  BY <1>1, <1>2 DEF DeleteVertex

LEMMA CreateEdgeStep ==
    ASSUME Inv, NEW from \in VertexIds, NEW to \in VertexIds,
           NEW label \in EdgeLabels \cup {Blank}, CreateEdge(from, to, label)
    PROVE  AbstractStep
<1>1. CASE \E status : Refuse("CreateEdge", status)
  BY <1>1, RefuseStep
<1>2. CASE /\ eIds =< MaxEdgeId /\ NewEdgeAccepts(label)
           /\ StoreEdge("CreateEdge", eIds, NewEdge(from, to, label), eIds + 1)
  <2>1. eIds \in EdgeIds /\ label \in EdgeLabels
    BY <1>2, AllocatorBounds DEF EdgeIds, EdgeCounters, NewEdgeAccepts
  <2>. QED
    BY <1>2, <2>1, StoreEdgeStep
<1>. QED
  BY <1>1, <1>2 DEF CreateEdge

LEMMA PutEdgeStep ==
    ASSUME Inv, NEW id \in EdgeIds, NEW from \in VertexIds, NEW to \in VertexIds,
           NEW label \in EdgeLabels, PutEdgeWithID(id, from, to, label)
    PROVE  AbstractStep
BY RefuseStep, StoreEdgeStep DEF PutEdgeWithID

LEMMA DeleteEdgeStep ==
    ASSUME Inv, NEW id \in EdgeIds, DeleteEdge(id)
    PROVE  AbstractStep
<1>1. CASE \E status : Refuse("DeleteEdge", status)
  BY <1>1, RefuseStep
<1>2. CASE /\ S!HasEdge(store, id) /\ store' = S!DeleteEdge(store, id)
           /\ Answer("DeleteEdge", "ok", id)
  <2>1. GoodStore(store) /\ {id} \subseteq DOMAIN store.edges
    BY <1>2, InvParts DEF Parts, S!HasEdge
  <2>2. /\ store'.vertices = store.vertices /\ store'.edges = S!Without(store.edges, {id})
        /\ taken' = taken
    BY <1>2, <2>1, DeleteEdgesGood DEF S!DeleteEdge, Answer
  <2>3. Abstract!RemoveEdge(id)
    BY <1>2, <2>2 DEF Abstract!RemoveEdge, Abstract!Minus, S!Without, S!HasEdge
  <2>. QED
    BY <2>3 DEF AbstractStep, Abstract!Next
<1>. QED
  BY <1>1, <1>2 DEF DeleteEdge

LEMMA SnapshotStep ==
    ASSUME Snapshot
    PROVE  AbstractStep
<1> DEFINE image(T) == {<<snap.vertices, snap.edges>> : snap \in T}
<1>1. /\ taken' = taken \cup {S!SnapshotOf(store)} /\ store' = store
      /\ S!SnapshotOf(store).vertices = store.vertices
      /\ S!SnapshotOf(store).edges = store.edges
  BY DEF Snapshot, S!SnapshotOf
<1>2. image(taken') = image(taken) \cup {<<store.vertices, store.edges>>}
  BY <1>1
<1>3. Abstract!Save
  BY <1>1, <1>2 DEF Abstract!Save
<1>. QED
  BY <1>3 DEF AbstractStep, Abstract!Next

LEMMA ReplaceStep ==
    ASSUME Inv, NEW snap \in taken, Replace(snap)
    PROVE  AbstractStep
<1>1. /\ S!CanReset(snap)
      /\ S!Reset(snap).vertices = snap.vertices /\ S!Reset(snap).edges = snap.edges
  BY InvParts, ResetGood DEF Parts
<1>2. store'.vertices = snap.vertices /\ store'.edges = snap.edges /\ taken' = taken
  BY <1>1 DEF Replace
<1>3. Abstract!GoBack
  BY <1>2 DEF Abstract!GoBack
<1>. QED
  BY <1>3 DEF AbstractStep, Abstract!Next

-----------------------------------------------------------------------------
(* The engine refines the abstract property graph: deleting a vertex takes *)
(* exactly its incident edges along, an edge appears only between vertices *)
(* that exist, a refused or failed call changes nothing, and Replace goes  *)
(* back to a state that was saved (graph.go:38-168 over memstore.go).      *)
THEOREM Refinement == Spec => ImplementsPropertyGraph
<1>1. Init => Abstract!Init
  <2> SUFFICES ASSUME Init
               PROVE  Abstract!Init
    OBVIOUS
  <2>1. store.vertices = [x \in {} |-> {}] /\ store.edges = [x \in {} |-> {}] /\ taken = {}
    BY NewMemStoreGood DEF Init
  <2>. QED
    BY <2>1 DEF Abstract!Init, Abstract!NoElements
<1>2. IInv /\ [Next]_vars => [Abstract!Next]_Abstract!vars
  <2> SUFFICES ASSUME Inv, [Next]_vars
               PROVE  AbstractStep
    BY DEF IInv, AbstractStep
  <2>1. CASE UNCHANGED vars
    BY <2>1, StutterStep DEF vars
  <2>2. CASE SetWAL
    BY <2>2, StutterStep DEF SetWAL
  <2>. QED
    BY <2>1, <2>2, CreateVertexStep, PutVertexStep, UpdateVertexStep, DeleteVertexStep,
       CreateEdgeStep, PutEdgeStep, DeleteEdgeStep, SnapshotStep, ReplaceStep
    DEF Next
<1>. QED
  BY <1>1, <1>2, Invariance, PTL DEF Spec, ImplementsPropertyGraph, Abstract!Spec
=============================================================================
