---------------------------- MODULE GraphEngine -----------------------------
(***************************************************************************)
(* graph.Graph: the engine every handler and the recovery code call.  Each *)
(* mutator holds g.mu from its first check to its last assignment, so a    *)
(* call is one action.  The write-ahead log is seen through its answer     *)
(* only: Log may fail, after which the method returns without touching the *)
(* store.  cmd/gographdb runs the engine through three phases: recovery    *)
(* (no log, the Put... methods), serving (log attached), and closing (log  *)
(* detached by the signal handler while requests are still served).        *)
(***************************************************************************)
EXTENDS Elements, FiniteSets

CONSTANTS
    MaxVertexId, MaxEdgeId, \* bounds of the model: identifiers handed out
    MaxSnapshots            \* bound of the model: distinct snapshots kept

ASSUME BoundsAssumption == {MaxVertexId, MaxEdgeId, MaxSnapshots} \subseteq Nat

VARIABLES
    store,  \* g.store
    vIds,   \* g.vertices: the next vertex id
    eIds,   \* g.edges: the next edge id
    phase,  \* "recovering", "serving" or "closing"
    taken,  \* the snapshots Save has written and a Load may still hold
    spentV, \* history: vertex ids the store has held since the last load
    spentE, \* history: edge ids the store has held since the last load
    reply   \* the last call and what it returned

S == INSTANCE MemStore

vars == <<store, vIds, eIds, phase, taken, spentV, spentE, reply>>

VertexIds == 1..MaxVertexId
EdgeIds == 1..MaxEdgeId

Reply(op, status, id) == [op |-> op, status |-> status, id |-> id]

(* id.go: Peek is the next id itself, Restore only ever moves forward. *)
NewIDAllocator(start) == IF start = 0 THEN 1 ELSE start
\* Mutant: Restore treats its argument as an identifier already in use.
RestorePast(next, to) == IF to > next THEN to + 1 ELSE next

Restore(next, to) == IF to > next THEN to ELSE next

Init ==
    /\ store = S!NewMemStore
    /\ vIds = NewIDAllocator(store.nextV)
    /\ eIds = NewIDAllocator(store.nextE)
    /\ phase = "recovering"
    /\ taken = {}
    /\ spentV = {} /\ spentE = {}
    /\ reply = Reply("New", "ok", 0)

(***************************************************************************)
(* g.log: with no log attached it succeeds; with one, the append or the    *)
(* fsync may fail.                                                         *)
(***************************************************************************)
LogAnswers == IF phase = "serving" THEN {"ok", "wal_error"} ELSE {"ok"}

Answer(op, status, id) ==
    /\ reply' = Reply(op, status, id)
    /\ UNCHANGED <<phase, taken>>

Refuse(op, status) ==
    /\ Answer(op, status, 0)
    /\ UNCHANGED <<store, spentV, spentE>>

(* store.AddVertex followed by SetNextIDs with both allocators, and the    *)
(* refusal of a store that already holds the id.                           *)
StoreVertex(op, id, v, nextV) ==
    IF S!CanAddVertex(store, id)
    THEN /\ store' = S!SetNextIDs(S!AddVertex(store, id, v), nextV, eIds)
         /\ spentV' = spentV \cup {id}
         /\ Answer(op, "ok", id)
         /\ UNCHANGED spentE
    ELSE Refuse(op, "internal")

\* Mutant: the identifier is read, not taken.
CreateVertexPeeks(labels, props) ==
    /\ phase # "recovering"
    /\ vIds =< MaxVertexId
    /\ UNCHANGED <<vIds, eIds>>
    /\ NewVertexAccepts(labels)
    /\ StoreVertex("CreateVertex", vIds, NewVertex(labels, props), vIds)

CreateVertex(labels, props) ==
    /\ phase # "recovering"
    /\ vIds =< MaxVertexId
    /\ vIds' = vIds + 1
    /\ UNCHANGED eIds
    /\ \/ /\ ~NewVertexAccepts(labels)
          /\ Refuse("CreateVertex", "invalid")
       \/ /\ NewVertexAccepts(labels)
          /\ \E logged \in LogAnswers :
                IF logged = "ok"
                THEN StoreVertex("CreateVertex", vIds, NewVertex(labels, props), vIds + 1)
                ELSE Refuse("CreateVertex", logged)

PutVertexWithID(id, labels, props) ==
    /\ phase = "recovering"
    /\ UNCHANGED eIds
    /\ \/ /\ S!HasVertex(store, id)
          /\ Refuse("PutVertexWithID", "conflict")
          /\ UNCHANGED vIds
       \/ /\ ~S!HasVertex(store, id)
          /\ vIds' = Restore(vIds, id + 1)
          /\ StoreVertex("PutVertexWithID", id, NewVertex(labels, props), vIds')

UpdateVertex(id, labels, patch) ==
    /\ UNCHANGED <<vIds, eIds>>
    /\ \/ /\ ~S!HasVertex(store, id)
          /\ Refuse("UpdateVertex", "not_found")
       \/ /\ S!HasVertex(store, id)
          /\ ~NewVertexAccepts(PatchedLabels(store.vertices[id], labels))
          /\ Refuse("UpdateVertex", "invalid")
       \/ /\ S!HasVertex(store, id)
          /\ NewVertexAccepts(PatchedLabels(store.vertices[id], labels))
          /\ \E logged \in LogAnswers :
                LET old == store.vertices[id]
                    current == NewVertex(PatchedLabels(old, labels), PatchedProps(old, patch))
                IN  IF logged = "ok"
                    THEN /\ store' = S!UpdateVertex(store, id, current)
                         /\ Answer("UpdateVertex", "ok", id)
                         /\ UNCHANGED <<spentV, spentE>>
                    ELSE Refuse("UpdateVertex", logged)

(* The cascade: every edge at the vertex is removed from the store, then   *)
(* the vertex itself, which the store refuses while an adjacency set of    *)
(* the vertex is not empty: the edges are gone by then.  An edge id of the *)
(* adjacency sets without an edge behind it would end the cascade before;  *)
(* Integrity excludes it, and the model removes nothing in that case.      *)
RemoveFromStore(id, E) ==
    LET bare == S!DeleteEdges(store, E)
        found == E \subseteq DOMAIN store.edges
        ok == found /\ S!CanDeleteVertex(bare, id)
    IN  /\ store' = IF ok THEN S!DeleteVertex(bare, id) ELSE IF found THEN bare ELSE store
        /\ Answer("DeleteVertex", IF ok THEN "ok" ELSE "internal", id)
        /\ UNCHANGED <<spentV, spentE>>

\* Mutant: only the edges that leave the vertex are removed first.
DeleteVertexOutEdges(id) ==
    /\ UNCHANGED <<vIds, eIds>>
    /\ S!HasVertex(store, id)
    /\ RemoveFromStore(id, S!EdgesOf(store, id, "OUT"))

DeleteVertex(id) ==
    /\ UNCHANGED <<vIds, eIds>>
    /\ \/ /\ ~S!HasVertex(store, id)
          /\ Refuse("DeleteVertex", "not_found")
       \/ /\ S!HasVertex(store, id)
          /\ \E logged \in LogAnswers :
                IF logged = "ok"
                THEN RemoveFromStore(id, S!EdgesOf(store, id, "BOTH"))
                ELSE Refuse("DeleteVertex", logged)

StoreEdge(op, id, e, nextE) ==
    IF S!CanAddEdge(store, id, e)
    THEN /\ store' = S!SetNextIDs(S!AddEdge(store, id, e), vIds, nextE)
         /\ spentE' = spentE \cup {id}
         /\ Answer(op, "ok", id)
         /\ UNCHANGED spentV
    ELSE Refuse(op, "internal")

CreateEdge(from, to, label) ==
    /\ phase # "recovering"
    /\ UNCHANGED vIds
    /\ \/ /\ ~(S!HasVertex(store, from) /\ S!HasVertex(store, to))
          /\ Refuse("CreateEdge", "conflict")
          /\ UNCHANGED eIds
       \/ /\ S!HasVertex(store, from) /\ S!HasVertex(store, to)
          /\ eIds =< MaxEdgeId
          /\ eIds' = eIds + 1
          /\ \/ /\ ~NewEdgeAccepts(label)
                /\ Refuse("CreateEdge", "invalid")
             \/ /\ NewEdgeAccepts(label)
                /\ \E logged \in LogAnswers :
                      IF logged = "ok"
                      THEN StoreEdge("CreateEdge", eIds, NewEdge(from, to, label), eIds + 1)
                      ELSE Refuse("CreateEdge", logged)

(* PutEdgeWithID leaves the check for an existing id to the store. *)
PutEdgeWithID(id, from, to, label) ==
    /\ phase = "recovering"
    /\ UNCHANGED vIds
    /\ \/ /\ ~(S!HasVertex(store, from) /\ S!HasVertex(store, to))
          /\ Refuse("PutEdgeWithID", "conflict")
          /\ UNCHANGED eIds
       \/ /\ S!HasVertex(store, from) /\ S!HasVertex(store, to)
          /\ S!HasEdge(store, id)
          /\ Refuse("PutEdgeWithID", "exists")
          /\ UNCHANGED eIds
       \/ /\ S!HasVertex(store, from) /\ S!HasVertex(store, to)
          /\ ~S!HasEdge(store, id)
          /\ eIds' = Restore(eIds, id + 1)
          /\ StoreEdge("PutEdgeWithID", id, NewEdge(from, to, label), eIds')

DeleteEdge(id) ==
    /\ UNCHANGED <<vIds, eIds>>
    /\ \/ /\ ~S!HasEdge(store, id)
          /\ Refuse("DeleteEdge", "not_found")
       \/ /\ S!HasEdge(store, id)
          /\ \E logged \in LogAnswers :
                IF logged = "ok"
                THEN /\ store' = S!DeleteEdge(store, id)
                     /\ Answer("DeleteEdge", "ok", id)
                     /\ UNCHANGED <<spentV, spentE>>
                ELSE Refuse("DeleteEdge", logged)

(***************************************************************************)
(* Snapshot (by Save) and Replace (by LoadInto, at startup or on request). *)
(* A load that has read its file may reach Replace after later saves, so   *)
(* any snapshot taken so far can arrive.  Replace writes no log record and *)
(* builds new allocators from the recorded identifiers.  The histories     *)
(* begin again with what it puts into the store.                           *)
(***************************************************************************)
Snapshot ==
    /\ Cardinality(taken \cup {S!SnapshotOf(store)}) =< MaxSnapshots
    /\ taken' = taken \cup {S!SnapshotOf(store)}
    /\ reply' = Reply("Snapshot", "ok", 0)
    /\ UNCHANGED <<store, vIds, eIds, phase, spentV, spentE>>

Replace(snap) ==
    IF S!CanReset(snap)
    THEN /\ store' = S!Reset(snap)
         /\ vIds' = NewIDAllocator(snap.nextV)
         /\ eIds' = NewIDAllocator(snap.nextE)
         /\ spentV' = DOMAIN snap.vertices /\ spentE' = DOMAIN snap.edges
         /\ reply' = Reply("Replace", "ok", 0)
         /\ UNCHANGED <<phase, taken>>
    ELSE Refuse("Replace", "internal") /\ UNCHANGED <<vIds, eIds>>

(* SetWAL(wal) ends recovery; SetWAL(nil) starts the shutdown. *)
SetWAL ==
    /\ \/ phase = "recovering" /\ phase' = "serving"
       \/ phase = "serving" /\ phase' = "closing"
    /\ reply' = Reply("SetWAL", "ok", 0)
    /\ UNCHANGED <<store, vIds, eIds, taken, spentV, spentE>>

Next ==
    \/ \E labels \in RequestedLabels, props \in PropertyMaps : CreateVertex(labels, props)
    \/ \E id \in VertexIds, labels \in SUBSET Labels, props \in PropertyMaps :
           PutVertexWithID(id, labels, props)
    \/ \E id \in VertexIds, labels \in RequestedLabels \cup {Nil}, patch \in Patches :
           UpdateVertex(id, labels, patch)
    \/ \E id \in VertexIds : DeleteVertex(id)
    \/ \E from, to \in VertexIds, label \in EdgeLabels \cup {Blank} : CreateEdge(from, to, label)
    \/ \E id \in EdgeIds, from, to \in VertexIds, label \in EdgeLabels :
           PutEdgeWithID(id, from, to, label)
    \/ \E id \in EdgeIds : DeleteEdge(id)
    \/ Snapshot
    \/ \E snap \in taken : Replace(snap)
    \/ SetWAL

Spec == Init /\ [][Next]_vars
-----------------------------------------------------------------------------
EdgeContents == [from : VertexIds, to : VertexIds, label : EdgeLabels]
VertexMaps == PartialMaps(VertexIds, Vertices)
EdgeMaps == PartialMaps(EdgeIds, EdgeContents)
AdjacencyMaps == PartialMaps(VertexIds, SUBSET EdgeIds)

(* The counters reach one past the last identifier of the model. *)
VertexCounters == 1..(MaxVertexId + 1)
EdgeCounters == 1..(MaxEdgeId + 1)

SnapshotType ==
    [vertices : VertexMaps, edges : EdgeMaps, nextV : VertexCounters, nextE : EdgeCounters]

StoreType ==
    [vertices : VertexMaps, edges : EdgeMaps, out : AdjacencyMaps, in : AdjacencyMaps,
     nextV : VertexCounters, nextE : EdgeCounters]

(* Both adjacency maps have an entry for every vertex and for no other id. *)
AdjacencyKeys(s) == DOMAIN s.out = DOMAIN s.vertices /\ DOMAIN s.in = DOMAIN s.vertices

(* Every variable has its type. *)
TypeOK ==
    /\ store \in StoreType
    /\ vIds \in VertexCounters /\ eIds \in EdgeCounters
    /\ phase \in {"recovering", "serving", "closing"}
    /\ taken \subseteq SnapshotType
    /\ spentV \subseteq VertexIds /\ spentE \subseteq EdgeIds

EndpointsExist(s) ==
    \A e \in DOMAIN s.edges :
        s.edges[e].from \in DOMAIN s.vertices /\ s.edges[e].to \in DOMAIN s.vertices

AdjacencyExact(s) ==
    \A v \in DOMAIN s.vertices :
        /\ s.out[v] = {e \in DOMAIN s.edges : s.edges[e].from = v}
        /\ s.in[v] = {e \in DOMAIN s.edges : s.edges[e].to = v}

NextAboveIds(s) ==
    /\ \A id \in DOMAIN s.vertices : id < s.nextV
    /\ \A id \in DOMAIN s.edges : id < s.nextE

(* DESIGN.md:230-231: no edge outlives an endpoint, and the two adjacency  *)
(* maps are exactly the two projections of the edge map, so an EdgesOf     *)
(* query never misses an edge or meets a missing one; every identifier in  *)
(* use is below the recorded next identifier, which is not ahead of the    *)
(* allocator, so a snapshot always restores to fresh identifiers.          *)
Integrity ==
    /\ AdjacencyKeys(store)
    /\ EndpointsExist(store)
    /\ AdjacencyExact(store)
    /\ NextAboveIds(store)
    /\ store.nextV =< vIds /\ store.nextE =< eIds
    /\ \A snap \in taken : EndpointsExist(snap) /\ NextAboveIds(snap)

(* Once a change is in the log the store accepts it: no identifier handed  *)
(* out is taken, no cascade stops half way on an edge that is gone or on a *)
(* vertex that "still has edges" (memstore.go:17, 34, 43), and no snapshot *)
(* the program wrote is refused by Reset.  A refusal there would leave a   *)
(* record in the log for a change the caller was told had failed.          *)
StoreNeverRefuses == reply.status # "internal"

(* DESIGN.md:233 as far as it is kept: an identifier given to a new vertex *)
(* or edge is not one that the store has held since the graph was last     *)
(* loaded, deleted elements included, whatever snapshots were taken        *)
(* meanwhile and however far back the load went (graph.go:38, 98, 166).    *)
FreshIds ==
    [][ /\ reply'.op = "CreateVertex" /\ reply'.status = "ok" => reply'.id \notin spentV
        /\ reply'.op = "CreateEdge" /\ reply'.status = "ok" => reply'.id \notin spentE ]_vars

(* Every step of the engine is a step of the abstract multigraph: a vertex *)
(* leaves with exactly its incident edges, an update touches one vertex,   *)
(* a refused call touches nothing, and Replace returns to a saved state.   *)
Abstract ==
    INSTANCE PropertyGraph
    WITH VertexContents <- Vertices,
         vertices <- store.vertices,
         edges <- store.edges,
         saved <- {<<snap.vertices, snap.edges>> : snap \in taken}

ImplementsPropertyGraph == Abstract!Spec
=============================================================================
