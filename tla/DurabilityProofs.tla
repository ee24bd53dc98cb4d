-------------------------- MODULE DurabilityProofs --------------------------
(***************************************************************************)
(* What holds of the files whatever fails and wherever the program dies:   *)
(* types, the snapshot file being whole, and identifiers staying fresh     *)
(* across restarts.  Then what recovery restores: the graph as it was, as  *)
(* long as nothing has happened that may cost data, or a refusal to start  *)
(* for which a stale record is to blame.                                   *)
(***************************************************************************)
EXTENDS Durability, SequenceLemmas

(***************************************************************************)
(* The inductive invariant.  A snapshot and an engine are described by the *)
(* fields they have, the ids in use and the next ones.                     *)
(***************************************************************************)
SnapshotShape(p) ==
    /\ p \in [vertices : {p.vertices}, edges : {p.edges}, nextV : {p.nextV}, nextE : {p.nextE}]
    /\ p.nextV \in 1..(MaxVertexId + 1) /\ p.nextE \in 1..(MaxEdgeId + 1)
    /\ \A id \in DOMAIN p.vertices : id \in VertexIds /\ id < p.nextV
    /\ \A id \in DOMAIN p.edges : id \in EdgeIds /\ id < p.nextE

StoreShape(t) ==
    /\ t \in [vertices : {t.vertices}, edges : {t.edges}, out : {t.out}, in : {t.in},
              nextV : {t.nextV}, nextE : {t.nextE}]
    /\ t.nextV \in 1..(MaxVertexId + 1) /\ t.nextE \in 1..(MaxEdgeId + 1)
    /\ \A id \in DOMAIN t.vertices : id \in VertexIds /\ id < t.nextV
    /\ \A id \in DOMAIN t.edges : id \in EdgeIds /\ id < t.nextE

EngineShape(e) ==
    /\ e \in [store : {e.store}, vIds : {e.vIds}, eIds : {e.eIds}]
    /\ StoreShape(e.store)
    /\ e.vIds \in 1..(MaxVertexId + 1) /\ e.store.nextV =< e.vIds
    /\ e.eIds \in 1..(MaxEdgeId + 1) /\ e.store.nextE =< e.eIds

HalfShape(h) == h = Hole \/ SnapshotShape(h)

Writing == {"head", "rest", "rename"}
Saving == {"create", "head", "rest", "rename", "meta", "truncate"}

EngineTyped ==
    /\ phase \in {"serving", "closing", "stopped", "crashed", "refused"}
    /\ EngineShape(g)
    /\ pending \in Records \cup {None}
    /\ pending # None /\ pending.op = "update_vertex" => pending.id \in DOMAIN g.store.vertices
    /\ loader = None \/ SnapshotShape(loader)
    /\ high \in [v : Nat, e : Nat]

LogTyped ==
    /\ log \in [lines : Seq(Records \cup {Bad, Overlong}), tail : Records \cup {Partial, Overlong, None}]
    /\ walOpen \in BOOLEAN

FilesTyped ==
    /\ DOMAIN files = Inodes
    /\ \A i \in Inodes : /\ files[i] \in [head : {files[i].head}, rest : {files[i].rest}]
                         /\ HalfShape(files[i].head) /\ HalfShape(files[i].rest)
    /\ dir \in [tmp : Inodes \cup {None}, snap : Inodes \cup {None}]

SaverTyped ==
    /\ DOMAIN saver = Savers
    /\ \A s \in Savers :
          /\ saver[s] \in [pc : Saving \cup {"idle", "done"}, snap : {saver[s].snap},
                          inode : Inodes \cup {None}]
          /\ saver[s].pc \in Writing => saver[s].inode \in Inodes
          /\ saver[s].pc \in Saving => SnapshotShape(saver[s].snap)

ExposedTyped ==
    exposed \subseteq {"torn", "long", "rounded", "ghost", "window", "overlap", "load", "shutdown"}

Typed == EngineTyped /\ LogTyped /\ FilesTyped /\ SaverTyped /\ ExposedTyped

(* Without overlapping saves the temporary name belongs to the one save    *)
(* that writes, and what it has written so far is its snapshot.            *)
OneSaver ==
    /\ \A s, t \in Savers : saver[s].pc \in Saving /\ saver[t].pc \in Saving => s = t
    /\ dir.snap # None => Whole(files[dir.snap]) /\ dir.tmp # dir.snap
    /\ \A s \in Savers :
          /\ saver[s].pc \in Writing => saver[s].inode = dir.tmp
          /\ saver[s].pc \in {"rest", "rename"} => files[saver[s].inode].head = saver[s].snap
          /\ saver[s].pc = "rename" => files[saver[s].inode].rest = saver[s].snap
          /\ saver[s].pc \in {"meta", "truncate"} =>
                dir.snap # None /\ files[dir.snap].head = saver[s].snap

FilesSound == "overlap" \notin exposed => OneSaver

(* What a start reads, counters and log together, reaches past every id    *)
(* that was given to a stored element.                                     *)
Lines == ToSet(ScannedLines(log))
Reaches(lines, op, next, id) == id < next \/ \E line \in lines : line.op = op /\ line.id >= id
Covered(nextV, nextE) ==
    Reaches(Lines, "add_vertex", nextV, high.v) /\ Reaches(Lines, "add_edge", nextE, high.e)

Coverage ==
    /\ dir.snap = None => Covered(1, 1)
    /\ dir.snap # None => Covered(files[dir.snap].head.nextV, files[dir.snap].head.nextE)
    /\ \A s \in Savers :
          saver[s].pc \in Saving => Covered(saver[s].snap.nextV, saver[s].snap.nextE)

IdsFresh ==
    /\ pending # None => pending \in Lines
    /\ Bad \notin Lines /\ Overlong \notin Lines
    /\ Up => high.v < g.store.nextV /\ high.e < g.store.nextE
    /\ Coverage

FreshSound == exposed \subseteq {"rounded", "ghost"} => IdsFresh

DurInv == Typed /\ FilesSound /\ FreshSound
-----------------------------------------------------------------------------
(***************************************************************************)
(* Records and requests.                                                   *)
(***************************************************************************)
LEMMA Constants ==
    /\ MaxVertexId \in Nat /\ MaxEdgeId \in Nat
    /\ VertexIds \subseteq Nat \ {0} /\ EdgeIds \subseteq Nat \ {0}
    /\ None \notin Records /\ None # Partial /\ None # Overlong /\ None \notin Inodes
<1>1. Inodes \subseteq Nat
  BY SaversAssumption, FS_CardinalityType DEF Inodes
<1>2. VertexIds \subseteq Nat \ {0} /\ EdgeIds \subseteq Nat \ {0}
  BY BoundsAssumption DEF VertexIds, EdgeIds
<1>3. None \notin Nat /\ None \notin Records /\ None # Partial /\ None # Overlong
  BY NoneAssumption
<1>. QED
  BY <1>1, <1>2, <1>3, BoundsAssumption

LEMMA RecordFacts ==
    ASSUME NEW r \in Records
    PROVE  /\ r.op \in {"add_vertex", "update_vertex", "delete_vertex", "add_edge", "delete_edge"}
           /\ r.op \in {"add_vertex", "update_vertex", "delete_vertex"} => r.id \in VertexIds
           /\ r.op \in {"add_edge", "delete_edge"} => r.id \in EdgeIds
           /\ r # None /\ r # Bad /\ r # Partial /\ r # Overlong
<1>1. r # None
  BY Constants
<1>2. r.op # Bad.op /\ r.op # Partial.op /\ r.op # Overlong.op
  BY DEF Records, Bad, Partial, Overlong
<1>. QED
  BY <1>1, <1>2 DEF Records

LEMMA BadIsNoRecord ==
    /\ Bad \notin Records /\ Partial \notin Records /\ Overlong \notin Records
    /\ Bad # Partial /\ Overlong # Partial /\ Overlong # Bad
<1>1. Bad.op # Partial.op /\ Overlong.op # Partial.op /\ Overlong.op # Bad.op
  BY DEF Bad, Partial, Overlong
<1>. QED
  BY <1>1, RecordFacts

LEMMA RequestFacts ==
    ASSUME EngineShape(g), NEW rec \in Requests
    PROVE  /\ rec \in Records
           /\ rec.op = "add_vertex" => rec.id = g.vIds
           /\ rec.op = "add_edge" => rec.id = g.eIds
           /\ rec.op = "update_vertex" => rec.id \in DOMAIN g.store.vertices
<1>1. /\ \A id \in DOMAIN g.store.vertices : id \in VertexIds
      /\ \A id \in DOMAIN g.store.edges : id \in EdgeIds
  BY DEF EngineShape, StoreShape, SnapshotShape, S!SnapshotOf
<1>2. CASE rec \in {AddVertexRec(g.vIds, v) : v \in IF g.vIds \in VertexIds THEN Vertices ELSE {}}
  BY <1>2 DEF AddVertexRec, Records
<1>3. CASE rec \in {UpdateVertexRec(id, v) : id \in DOMAIN g.store.vertices, v \in Vertices}
  BY <1>1, <1>3 DEF UpdateVertexRec, Records
<1>4. CASE rec \in {DeleteVertexRec(id) : id \in DOMAIN g.store.vertices}
  BY <1>1, <1>4 DEF DeleteVertexRec, Records
<1>5. CASE rec \in {AddEdgeRec(g.eIds, e) :
                       e \in IF g.eIds \in EdgeIds
                             THEN {WithProps(NewEdge(from, to, label), props) :
                                      from, to \in DOMAIN g.store.vertices,
                                      label \in EdgeLabels, props \in PropertyMaps}
                             ELSE {}}
  BY <1>1, <1>5 DEF AddEdgeRec, NewEdge, WithProps, Records
<1>6. CASE rec \in {DeleteEdgeRec(id) : id \in DOMAIN g.store.edges}
  BY <1>1, <1>6 DEF DeleteEdgeRec, Records
<1>. QED
  BY <1>2, <1>3, <1>4, <1>5, <1>6 DEF Requests

(***************************************************************************)
(* What the changes do to an engine's ids.                                 *)
(***************************************************************************)
NoLess(d, e) == e.store.nextV >= d.store.nextV /\ e.store.nextE >= d.store.nextE

LEMMA EngineFields ==
    ASSUME NEW e, EngineShape(e)
    PROVE  /\ e.store.nextV \in Nat \ {0} /\ e.store.nextE \in Nat \ {0}
           /\ e.vIds \in Nat \ {0} /\ e.eIds \in Nat \ {0}
           /\ e.store.nextV =< e.vIds /\ e.store.nextE =< e.eIds
           /\ e.vIds =< MaxVertexId + 1 /\ e.eIds =< MaxEdgeId + 1
           /\ \A id \in DOMAIN e.store.vertices : id \in VertexIds /\ id < e.store.nextV
           /\ \A id \in DOMAIN e.store.edges : id \in EdgeIds /\ id < e.store.nextE
BY Constants DEF EngineShape, StoreShape

(* The fields of the store after each of its operations. *)
IsStore(t) ==
    t \in [vertices : {t.vertices}, edges : {t.edges}, out : {t.out}, in : {t.in},
           nextV : {t.nextV}, nextE : {t.nextE}]

LEMMA AddVertexFields ==
    ASSUME NEW t, IsStore(t), NEW id, NEW v
    PROVE  LET x == S!AddVertex(t, id, v)
           IN  /\ IsStore(x) /\ x.vertices = S!Put(t.vertices, id, v) /\ x.edges = t.edges
               /\ x.nextV = S!Raise(t.nextV, id + 1) /\ x.nextE = t.nextE
BY DEF IsStore, S!AddVertex

LEMMA UpdateVertexFields ==
    ASSUME NEW t, IsStore(t), NEW id, NEW v
    PROVE  LET x == S!UpdateVertex(t, id, v)
           IN  /\ IsStore(x) /\ x.vertices = S!Put(t.vertices, id, v) /\ x.edges = t.edges
               /\ x.nextV = t.nextV /\ x.nextE = t.nextE
BY DEF IsStore, S!UpdateVertex

LEMMA AddEdgeFields ==
    ASSUME NEW t, IsStore(t), NEW id, NEW e
    PROVE  LET x == S!AddEdge(t, id, e)
           IN  /\ IsStore(x) /\ x.vertices = t.vertices /\ x.edges = S!Put(t.edges, id, e)
               /\ x.nextV = t.nextV /\ x.nextE = S!Raise(t.nextE, id + 1)
BY DEF IsStore, S!AddEdge

LEMMA DeleteEdgesFields ==
    ASSUME NEW t, IsStore(t), NEW E
    PROVE  LET x == S!DeleteEdges(t, E)
           IN  /\ IsStore(x) /\ x.vertices = t.vertices /\ x.edges = S!Without(t.edges, E)
               /\ x.nextV = t.nextV /\ x.nextE = t.nextE
BY DEF IsStore, S!DeleteEdges

LEMMA DeleteVertexFields ==
    ASSUME NEW t, IsStore(t), NEW id
    PROVE  LET x == S!DeleteVertex(t, id)
           IN  /\ IsStore(x) /\ x.vertices = S!Without(t.vertices, {id}) /\ x.edges = t.edges
               /\ x.nextV = t.nextV /\ x.nextE = t.nextE
BY DEF IsStore, S!DeleteVertex

LEMMA SetNextIDsFields ==
    ASSUME NEW t, IsStore(t), NEW v, NEW e
    PROVE  LET x == S!SetNextIDs(t, v, e)
           IN  /\ IsStore(x) /\ x.vertices = t.vertices /\ x.edges = t.edges
               /\ x.nextV = S!Raise(t.nextV, v) /\ x.nextE = S!Raise(t.nextE, e)
BY DEF IsStore, S!SetNextIDs

LEMMA NewEngineShape ==
    EngineShape(NewEngine) /\ NewEngine.store.nextV = 1 /\ NewEngine.store.nextE = 1
<1>1. DOMAIN S!EmptyMap = {}
  BY DEF S!EmptyMap
<1>2. 1 \in 1..(MaxVertexId + 1) /\ 1 \in 1..(MaxEdgeId + 1)
  BY Constants
<1> DEFINE t == S!NewMemStore
<1>3. /\ IsStore(t) /\ t.vertices = S!EmptyMap /\ t.edges = S!EmptyMap
      /\ t.nextV = 1 /\ t.nextE = 1
  BY DEF S!NewMemStore, IsStore
<1>4. /\ NewEngine \in [store : {t}, vIds : {1}, eIds : {1}]
      /\ NewEngine.store = t /\ NewEngine.vIds = 1 /\ NewEngine.eIds = 1
  BY DEF NewEngine
<1>. HIDE DEF t
<1>5. StoreShape(t)
  BY <1>1, <1>2, <1>3 DEF StoreShape, IsStore
<1>. QED
  BY <1>2, <1>3, <1>4, <1>5 DEF EngineShape

LEMMA AddVertexShape ==
    ASSUME NEW e, EngineShape(e), NEW id \in VertexIds, NEW v
    PROVE  /\ EngineShape(AddVertex(e, id, v)) /\ NoLess(e, AddVertex(e, id, v))
           /\ AddVertex(e, id, v).store.nextV > id
<1> DEFINE t == e.store
           next == Restore(e.vIds, id + 1)
           u == S!AddVertex(t, id, v)
           w == S!SetNextIDs(u, next, e.eIds)
           d == AddVertex(e, id, v)
<1>1. /\ id \in Nat \ {0} /\ id + 1 \in 1..(MaxVertexId + 1)
      /\ next \in 1..(MaxVertexId + 1) /\ next \in Nat /\ next >= e.vIds /\ next > id
  BY Constants, EngineFields DEF Restore, VertexIds
<1>2. IsStore(t) /\ e \in [store : {e.store}, vIds : {e.vIds}, eIds : {e.eIds}]
  BY DEF EngineShape, StoreShape, IsStore
<1>3. S!Raise(S!Raise(t.nextV, id + 1), next) = next
  BY <1>1, EngineFields DEF S!Raise, Restore
<1>4. S!Raise(t.nextE, e.eIds) = e.eIds
  BY EngineFields DEF S!Raise
<1>5. /\ d \in [store : {d.store}, vIds : {d.vIds}, eIds : {d.eIds}]
      /\ d.store = w /\ d.vIds = next /\ d.eIds = e.eIds
  <2>. HIDE DEF w, next
  <2>. QED
    BY <1>2 DEF AddVertex, w, next, u, t
<1>6. /\ IsStore(u) /\ u.vertices = S!Put(t.vertices, id, v) /\ u.edges = t.edges
      /\ u.nextV = S!Raise(t.nextV, id + 1) /\ u.nextE = t.nextE
  BY <1>2, AddVertexFields
<1>. HIDE DEF u, next, d
<1>7. /\ IsStore(w) /\ w.vertices = u.vertices /\ w.edges = u.edges
      /\ w.nextV = S!Raise(u.nextV, next) /\ w.nextE = S!Raise(u.nextE, e.eIds)
  BY <1>6, SetNextIDsFields
<1>. HIDE DEF w
<1>8. DOMAIN w.vertices = DOMAIN t.vertices \cup {id}
  BY <1>6, <1>7 DEF S!Put
<1>9. /\ \A j \in DOMAIN w.vertices : j \in VertexIds /\ j < w.nextV
      /\ \A j \in DOMAIN w.edges : j \in EdgeIds /\ j < w.nextE
      /\ w.nextV = next /\ w.nextE = e.eIds
  <2>1. w.nextV = next /\ w.nextE = e.eIds
    BY <1>3, <1>4, <1>6, <1>7
  <2>2. ASSUME NEW j \in DOMAIN w.vertices
        PROVE  j \in VertexIds /\ j < next
    <3>1. CASE j = id
      BY <1>1, <3>1
    <3>2. CASE j \in DOMAIN t.vertices
      <4>1. j \in VertexIds /\ j < t.nextV /\ t.nextV \in Nat /\ e.vIds \in Nat /\ t.nextV =< e.vIds
        BY <3>2, EngineFields
      <4>2. j \in Nat
        BY <4>1, Constants
      <4>. QED
        BY <1>1, <4>1, <4>2
    <3>. QED
      BY <1>8, <2>2, <3>1, <3>2
  <2>3. ASSUME NEW j \in DOMAIN w.edges
        PROVE  j \in EdgeIds /\ j < e.eIds
    <3>1. j \in EdgeIds /\ j < t.nextE
      BY <1>6, <1>7, EngineFields
    <3>. QED
      BY <3>1, Constants, EngineFields
  <2>. QED
    BY <2>1, <2>2, <2>3
<1>10. StoreShape(w)
  BY <1>1, <1>7, <1>9, EngineFields DEF StoreShape, IsStore, EngineShape
<1>11. EngineShape(d)
  BY <1>1, <1>5, <1>9, <1>10, EngineFields DEF EngineShape
<1>. QED
  BY <1>1, <1>5, <1>9, <1>11, EngineFields DEF NoLess, d

LEMMA AddEdgeShape ==
    ASSUME NEW e, EngineShape(e), NEW id \in EdgeIds, NEW edge
    PROVE  /\ EngineShape(AddEdge(e, id, edge)) /\ NoLess(e, AddEdge(e, id, edge))
           /\ AddEdge(e, id, edge).store.nextE > id
<1> DEFINE t == e.store
           next == Restore(e.eIds, id + 1)
           u == S!AddEdge(t, id, edge)
           w == S!SetNextIDs(u, e.vIds, next)
           d == AddEdge(e, id, edge)
<1>1. /\ id \in Nat \ {0} /\ id + 1 \in 1..(MaxEdgeId + 1)
      /\ next \in 1..(MaxEdgeId + 1) /\ next \in Nat /\ next >= e.eIds /\ next > id
  BY Constants, EngineFields DEF Restore, EdgeIds
<1>2. IsStore(t) /\ e \in [store : {e.store}, vIds : {e.vIds}, eIds : {e.eIds}]
  BY DEF EngineShape, StoreShape, IsStore
<1>3. S!Raise(S!Raise(t.nextE, id + 1), next) = next
  BY <1>1, EngineFields DEF S!Raise, Restore
<1>4. S!Raise(t.nextV, e.vIds) = e.vIds
  BY EngineFields DEF S!Raise
<1>5. /\ d \in [store : {d.store}, vIds : {d.vIds}, eIds : {d.eIds}]
      /\ d.store = w /\ d.vIds = e.vIds /\ d.eIds = next
  <2>. HIDE DEF w, next
  <2>. QED
    BY <1>2 DEF AddEdge, w, next, u, t
<1>6. /\ IsStore(u) /\ u.vertices = t.vertices /\ u.edges = S!Put(t.edges, id, edge)
      /\ u.nextV = t.nextV /\ u.nextE = S!Raise(t.nextE, id + 1)
  BY <1>2, AddEdgeFields
<1>. HIDE DEF u, next, d
<1>7. /\ IsStore(w) /\ w.vertices = u.vertices /\ w.edges = u.edges
      /\ w.nextV = S!Raise(u.nextV, e.vIds) /\ w.nextE = S!Raise(u.nextE, next)
  BY <1>6, SetNextIDsFields
<1>. HIDE DEF w
<1>8. DOMAIN w.edges = DOMAIN t.edges \cup {id}
  BY <1>6, <1>7 DEF S!Put
<1>9. /\ \A j \in DOMAIN w.vertices : j \in VertexIds /\ j < w.nextV
      /\ \A j \in DOMAIN w.edges : j \in EdgeIds /\ j < w.nextE
      /\ w.nextV = e.vIds /\ w.nextE = next
  <2>1. w.nextV = e.vIds /\ w.nextE = next
    BY <1>3, <1>4, <1>6, <1>7
  <2>2. ASSUME NEW j \in DOMAIN w.edges
        PROVE  j \in EdgeIds /\ j < next
    <3>1. CASE j = id
      BY <1>1, <3>1
    <3>2. CASE j \in DOMAIN t.edges
      <4>1. j \in EdgeIds /\ j < t.nextE /\ t.nextE \in Nat /\ e.eIds \in Nat /\ t.nextE =< e.eIds
        BY <3>2, EngineFields
      <4>2. j \in Nat
        BY <4>1, Constants
      <4>. QED
        BY <1>1, <4>1, <4>2
    <3>. QED
      BY <1>8, <2>2, <3>1, <3>2
  <2>3. ASSUME NEW j \in DOMAIN w.vertices
        PROVE  j \in VertexIds /\ j < e.vIds
    <3>1. j \in VertexIds /\ j < t.nextV
      BY <1>6, <1>7, EngineFields
    <3>. QED
      BY <3>1, Constants, EngineFields
  <2>. QED
    BY <2>1, <2>2, <2>3
<1>10. StoreShape(w)
  BY <1>1, <1>7, <1>9, EngineFields DEF StoreShape, IsStore, EngineShape
<1>11. EngineShape(d)
  BY <1>1, <1>5, <1>9, <1>10, EngineFields DEF EngineShape
<1>. QED
  BY <1>1, <1>5, <1>9, <1>11, EngineFields DEF NoLess, d

(* A store with no more ids and the same counters leaves the engine sound. *)
LEMMA SmallerStore ==
    ASSUME NEW e, EngineShape(e), NEW x, IsStore(x),
           DOMAIN x.vertices \subseteq DOMAIN e.store.vertices,
           DOMAIN x.edges \subseteq DOMAIN e.store.edges,
           x.nextV = e.store.nextV, x.nextE = e.store.nextE
    PROVE  EngineShape([e EXCEPT !.store = x]) /\ NoLess(e, [e EXCEPT !.store = x])
<1> DEFINE d == [e EXCEPT !.store = x]
<1>1. /\ d \in [store : {d.store}, vIds : {d.vIds}, eIds : {d.eIds}]
      /\ d.store = x /\ d.vIds = e.vIds /\ d.eIds = e.eIds
  BY DEF EngineShape
<1>. HIDE DEF d
<1>2. StoreShape(x)
  BY EngineFields DEF EngineShape, StoreShape, IsStore
<1>3. EngineShape(d)
  BY <1>1, <1>2 DEF EngineShape
<1>4. NoLess(e, d)
  BY <1>1, EngineFields DEF NoLess
<1>. QED
  BY <1>3, <1>4 DEF d

LEMMA UpdateVertexShape ==
    ASSUME NEW e, EngineShape(e), NEW id \in DOMAIN e.store.vertices, NEW v
    PROVE  EngineShape(UpdateVertex(e, id, v)) /\ NoLess(e, UpdateVertex(e, id, v))
<1> DEFINE x == S!UpdateVertex(e.store, id, v)
<1>1. IsStore(e.store)
  BY DEF EngineShape, StoreShape, IsStore
<1>2. /\ IsStore(x) /\ x.vertices = S!Put(e.store.vertices, id, v) /\ x.edges = e.store.edges
      /\ x.nextV = e.store.nextV /\ x.nextE = e.store.nextE
  BY <1>1, UpdateVertexFields
<1>3. UpdateVertex(e, id, v) = [e EXCEPT !.store = x]
  BY DEF UpdateVertex
<1>. HIDE DEF x
<1>4. DOMAIN x.vertices \subseteq DOMAIN e.store.vertices
  BY <1>2 DEF S!Put
<1>. QED
  BY <1>2, <1>3, <1>4, SmallerStore

LEMMA DeleteEdgeShape ==
    ASSUME NEW e, EngineShape(e), NEW id
    PROVE  EngineShape(DeleteEdge(e, id)) /\ NoLess(e, DeleteEdge(e, id))
<1> DEFINE x == S!DeleteEdges(e.store, {id})
<1>1. IsStore(e.store)
  BY DEF EngineShape, StoreShape, IsStore
<1>2. /\ IsStore(x) /\ x.vertices = e.store.vertices /\ x.edges = S!Without(e.store.edges, {id})
      /\ x.nextV = e.store.nextV /\ x.nextE = e.store.nextE
  BY <1>1, DeleteEdgesFields
<1>3. DeleteEdge(e, id) = [e EXCEPT !.store = x]
  BY DEF DeleteEdge, S!DeleteEdge
<1>. HIDE DEF x
<1>4. DOMAIN x.edges \subseteq DOMAIN e.store.edges
  BY <1>2 DEF S!Without
<1>. QED
  BY <1>2, <1>3, <1>4, SmallerStore

LEMMA DeleteVertexShape ==
    ASSUME NEW e, EngineShape(e), NEW id
    PROVE  EngineShape(DeleteVertex(e, id)) /\ NoLess(e, DeleteVertex(e, id))
<1> DEFINE gone == S!EdgesOf(e.store, id, "BOTH")
           bare == S!DeleteEdges(e.store, gone)
           x == S!DeleteVertex(bare, id)
<1>1. IsStore(e.store)
  BY DEF EngineShape, StoreShape, IsStore
<1>. HIDE DEF gone
<1>2. /\ IsStore(bare) /\ bare.vertices = e.store.vertices
      /\ bare.edges = S!Without(e.store.edges, gone)
      /\ bare.nextV = e.store.nextV /\ bare.nextE = e.store.nextE
  BY <1>1, DeleteEdgesFields
<1>. HIDE DEF bare
<1>3. /\ IsStore(x) /\ x.vertices = S!Without(bare.vertices, {id}) /\ x.edges = bare.edges
      /\ x.nextV = bare.nextV /\ x.nextE = bare.nextE
  BY <1>2, DeleteVertexFields
<1>4. DeleteVertex(e, id) = [e EXCEPT !.store = x]
  BY DEF DeleteVertex, x, bare, gone
<1>. HIDE DEF x
<1>5. /\ DOMAIN x.vertices \subseteq DOMAIN e.store.vertices
      /\ DOMAIN x.edges \subseteq DOMAIN e.store.edges
  BY <1>2, <1>3 DEF S!Without
<1>. QED
  BY <1>2, <1>3, <1>4, <1>5, SmallerStore

(* What a logged change does when the store takes it.                      *)
LEMMA ApplyShape ==
    ASSUME NEW e, EngineShape(e), NEW r \in Records,
           r.op = "update_vertex" => r.id \in DOMAIN e.store.vertices
    PROVE  /\ EngineShape(Apply(e, r)) /\ NoLess(e, Apply(e, r))
           /\ r.op = "add_vertex" => Apply(e, r).store.nextV > r.id
           /\ r.op = "add_edge" => Apply(e, r).store.nextE > r.id
<1>1. CASE r.op = "add_vertex"
  BY <1>1, RecordFacts, AddVertexShape DEF Apply
<1>2. CASE r.op = "update_vertex"
  BY <1>2, UpdateVertexShape DEF Apply
<1>3. CASE r.op = "delete_vertex"
  BY <1>3, DeleteVertexShape DEF Apply
<1>4. CASE r.op = "add_edge"
  BY <1>4, RecordFacts, AddEdgeShape DEF Apply
<1>5. CASE r.op = "delete_edge"
  BY <1>5, DeleteEdgeShape DEF Apply
<1>. QED
  BY <1>1, <1>2, <1>3, <1>4, <1>5, RecordFacts

(***************************************************************************)
(* Snapshots, and what a start makes of a file and a log.                  *)
(***************************************************************************)
LEMMA SnapshotOfShape ==
    ASSUME NEW t, StoreShape(t)
    PROVE  /\ SnapshotShape(S!SnapshotOf(t))
           /\ S!SnapshotOf(t).nextV = t.nextV /\ S!SnapshotOf(t).nextE = t.nextE
<1> DEFINE p == S!SnapshotOf(t)
<1>1. /\ p \in [vertices : {p.vertices}, edges : {p.edges}, nextV : {p.nextV}, nextE : {p.nextE}]
      /\ p.vertices = t.vertices /\ p.edges = t.edges /\ p.nextV = t.nextV /\ p.nextE = t.nextE
  BY DEF S!SnapshotOf
<1>. HIDE DEF p
<1>2. SnapshotShape(p)
  BY <1>1 DEF StoreShape, SnapshotShape
<1>. QED
  BY <1>1, <1>2 DEF p

(* A recorded counter above every id is what Reset ends with.              *)
LEMMA NextAfterRecorded ==
    ASSUME NEW ids \in SUBSET Nat, NEW n \in Nat \ {0}, \A i \in ids : i < n
    PROVE  S!NextAfter(ids, S!Raise(1, n)) = n
<1>1. S!Raise(1, n) = n
  BY DEF S!Raise
<1> DEFINE Candidates == {n} \cup {i + 1 : i \in ids}
<1>2. n \in Candidates /\ n >= n /\ \A i \in ids : i < n
  OBVIOUS
<1>3. ASSUME NEW m \in Candidates, m >= n
      PROVE  m = n
  BY <1>3
<1>4. (CHOOSE m \in Candidates : m >= n /\ \A i \in ids : i < m) = n
  BY <1>2, <1>3
<1>. QED
  BY <1>1, <1>4 DEF S!NextAfter

LEMMA LoadIntoShape ==
    ASSUME NEW p, SnapshotShape(p)
    PROVE  /\ EngineShape(LoadInto(p))
           /\ LoadInto(p).store.nextV = p.nextV /\ LoadInto(p).store.nextE = p.nextE
<1> DEFINE t == S!Reset(p)
           d == LoadInto(p)
<1>1. /\ p.nextV \in Nat \ {0} /\ p.nextE \in Nat \ {0}
      /\ \A id \in DOMAIN p.vertices : id \in VertexIds /\ id < p.nextV
      /\ \A id \in DOMAIN p.edges : id \in EdgeIds /\ id < p.nextE
  BY Constants DEF SnapshotShape
<1>2. DOMAIN p.vertices \in SUBSET Nat /\ DOMAIN p.edges \in SUBSET Nat
  BY <1>1, Constants
<1>3. S!NextAfter(DOMAIN p.vertices, S!Raise(1, p.nextV)) = p.nextV
  BY <1>1, <1>2, NextAfterRecorded
<1>4. S!NextAfter(DOMAIN p.edges, S!Raise(1, p.nextE)) = p.nextE
  BY <1>1, <1>2, NextAfterRecorded
<1>5. /\ IsStore(t) /\ t.vertices = p.vertices /\ t.edges = p.edges
      /\ t.nextV = p.nextV /\ t.nextE = p.nextE
  BY <1>3, <1>4 DEF S!Reset, IsStore
<1>6. /\ d \in [store : {d.store}, vIds : {d.vIds}, eIds : {d.eIds}]
      /\ d.store = t /\ d.vIds = p.nextV /\ d.eIds = p.nextE
  BY <1>1 DEF LoadInto, NewIDAllocator
<1>. HIDE DEF t, d
<1>7. StoreShape(t)
  BY <1>1, <1>5 DEF SnapshotShape, StoreShape, IsStore
<1>8. EngineShape(d)
  BY <1>1, <1>5, <1>6, <1>7 DEF SnapshotShape, EngineShape
<1>. QED
  BY <1>5, <1>6, <1>8 DEF d

(* The state of a replay.                                                  *)
ReplayShape(a) ==
    /\ a \in [status : {"reading", "stopped", "failed"}, g : {a.g}]
    /\ EngineShape(a.g)

LEMMA NoLessReflexive ==
    ASSUME NEW e, EngineShape(e)
    PROVE  NoLess(e, e)
BY EngineFields DEF NoLess

LEMMA ReplayRecordShape ==
    ASSUME NEW e, EngineShape(e), NEW r \in Records
    PROVE  LET b == ReplayRecord(e, r)
           IN  /\ ReplayShape(b) /\ b.status # "stopped" /\ NoLess(e, b.g)
               /\ b.status = "reading" =>
                     /\ r.op = "add_vertex" => b.g.store.nextV > r.id
                     /\ r.op = "add_edge" => b.g.store.nextE > r.id
<1> DEFINE b == ReplayRecord(e, r)
           hasV == S!HasVertex(e.store, r.id)
           hasE == S!HasEdge(e.store, r.id)
<1>1. NoLess(e, e)
  BY NoLessReflexive
<1>2. ASSUME NEW d
      PROVE  /\ Going(d) \in [status : {"reading"}, g : {d}] /\ Going(d).g = d
             /\ Going(d).status = "reading"
             /\ Failed(d) \in [status : {"failed"}, g : {d}] /\ Failed(d).g = d
             /\ Failed(d).status = "failed"
  BY DEF Going, Failed
<1>3. ASSUME NEW d, EngineShape(d)
      PROVE  ReplayShape(Going(d)) /\ ReplayShape(Failed(d))
  BY <1>2, <1>3 DEF ReplayShape
<1>4. /\ hasV => r.id < e.store.nextV
      /\ hasE => r.id < e.store.nextE
  BY EngineFields DEF S!HasVertex, S!HasEdge
<1>5. /\ r.id \in Nat /\ e.store.nextV \in Nat /\ e.store.nextE \in Nat
  BY RecordFacts, Constants, EngineFields
<1>6. CASE r.op = "add_vertex"
  <2> DEFINE d == AddVertex(e, r.id, FromJSON(r.vertex))
  <2>1. b = Going(IF hasV THEN e ELSE d)
    BY <1>6 DEF ReplayRecord
  <2>2. EngineShape(d) /\ NoLess(e, d) /\ d.store.nextV > r.id
    BY <1>6, RecordFacts, AddVertexShape
  <2>. HIDE DEF b, d, hasV
  <2>3. e.store.nextV > r.id \/ ~hasV
    BY <1>4, <1>5
  <2>. QED
    BY <1>1, <1>2, <1>3, <1>6, <2>1, <2>2, <2>3 DEF b
<1>7. CASE r.op = "update_vertex"
  <2> DEFINE d == Replayed(e, FromJSON(r.vertex), r.id)
  <2>1. b = IF hasV THEN Going(d) ELSE Failed(e)
    BY <1>7 DEF ReplayRecord
  <2>2. hasV => EngineShape(d) /\ NoLess(e, d)
    BY UpdateVertexShape DEF Replayed, S!HasVertex
  <2>. HIDE DEF b, d, hasV
  <2>. QED
    BY <1>1, <1>2, <1>3, <1>7, <2>1, <2>2 DEF b
<1>8. CASE r.op = "delete_vertex"
  <2> DEFINE d == DeleteVertex(e, r.id)
  <2>1. b = Going(IF hasV THEN d ELSE e)
    BY <1>8 DEF ReplayRecord
  <2>2. EngineShape(d) /\ NoLess(e, d)
    BY DeleteVertexShape
  <2>. HIDE DEF b, d, hasV
  <2>. QED
    BY <1>1, <1>2, <1>3, <1>8, <2>1, <2>2 DEF b
<1>9. CASE r.op = "add_edge"
  <2> DEFINE d == AddEdge(e, r.id, FromJSON(r.edge))
             can == S!CanAddEdge(e.store, r.id, r.edge)
  <2>1. b = IF hasE THEN Going(e) ELSE IF can THEN Going(d) ELSE Failed(e)
    BY <1>9 DEF ReplayRecord
  <2>2. EngineShape(d) /\ NoLess(e, d) /\ d.store.nextE > r.id
    BY <1>9, RecordFacts, AddEdgeShape
  <2>. HIDE DEF b, d, hasE, can
  <2>3. e.store.nextE > r.id \/ ~hasE
    BY <1>4, <1>5
  <2>. QED
    BY <1>1, <1>2, <1>3, <1>9, <2>1, <2>2, <2>3 DEF b
<1>10. CASE r.op = "delete_edge"
  <2> DEFINE d == DeleteEdge(e, r.id)
  <2>1. b = Going(IF hasE THEN d ELSE e)
    BY <1>10 DEF ReplayRecord
  <2>2. EngineShape(d) /\ NoLess(e, d)
    BY DeleteEdgeShape
  <2>. HIDE DEF b, d, hasE
  <2>. QED
    BY <1>1, <1>2, <1>3, <1>10, <2>1, <2>2 DEF b
<1>. QED
  BY <1>6, <1>7, <1>8, <1>9, <1>10, RecordFacts

LEMMA ReplayLineShape ==
    ASSUME NEW a, ReplayShape(a), NEW line \in Records \cup {Bad, Overlong}
    PROVE  LET b == ReplayLine(a, line)
           IN  /\ ReplayShape(b) /\ NoLess(a.g, b.g)
               /\ a.status # "reading" => b = a
               /\ line # Bad /\ a.status = "reading" => b.status # "stopped"
               /\ b.status = "reading" =>
                     /\ line.op = "add_vertex" => b.g.store.nextV > line.id
                     /\ line.op = "add_edge" => b.g.store.nextE > line.id
<1> DEFINE b == ReplayLine(a, line)
<1>1. EngineShape(a.g) /\ NoLess(a.g, a.g)
  BY NoLessReflexive DEF ReplayShape
<1>2. CASE a.status # "reading"
  <2>1. b = a
    BY <1>2 DEF ReplayLine
  <2>. HIDE DEF b
  <2>. QED
    BY <1>1, <1>2, <2>1 DEF b
<1>3. CASE a.status = "reading" /\ line = Bad
  <2>1. b = [a EXCEPT !.status = "stopped"]
    BY <1>3 DEF ReplayLine
  <2>2. b.status = "stopped" /\ b.g = a.g /\ b \in [status : {"stopped"}, g : {a.g}]
    BY <2>1 DEF ReplayShape
  <2>. HIDE DEF b
  <2>3. ReplayShape(b)
    BY <1>1, <2>2 DEF ReplayShape
  <2>. QED
    BY <1>1, <1>3, <2>2, <2>3 DEF b
<1>4. CASE a.status = "reading" /\ line # Bad /\ TooLong(line)
  <2>1. b = Failed(a.g)
    BY <1>4 DEF ReplayLine
  <2>2. b.status = "failed" /\ b.g = a.g /\ b \in [status : {"failed"}, g : {a.g}]
    BY <2>1 DEF Failed
  <2>. HIDE DEF b
  <2>3. ReplayShape(b)
    BY <1>1, <2>2 DEF ReplayShape
  <2>. QED
    BY <1>1, <1>4, <2>2, <2>3 DEF b
<1>5. CASE a.status = "reading" /\ line # Bad /\ ~TooLong(line)
  <2>1. b = ReplayRecord(a.g, line) /\ line \in Records
    BY <1>5 DEF ReplayLine, TooLong
  <2>2. /\ ReplayShape(b) /\ b.status # "stopped" /\ NoLess(a.g, b.g)
        /\ b.status = "reading" =>
              /\ line.op = "add_vertex" => b.g.store.nextV > line.id
              /\ line.op = "add_edge" => b.g.store.nextE > line.id
    BY <1>1, <2>1, ReplayRecordShape
  <2>. HIDE DEF b
  <2>. QED
    BY <1>5, <2>2 DEF b
<1>. QED
  BY <1>2, <1>3, <1>4, <1>5

(* The states a replay of lines goes through, from e to the one after n.   *)
Replays(f, e, lines, n) ==
    /\ DOMAIN f = 0..n
    /\ f[0] = Going(e)
    /\ \A i \in 1..n : f[i] = ReplayLine(f[i - 1], lines[i])

LEMMA ReplayExists ==
    ASSUME NEW e, NEW lines, NEW n \in Nat
    PROVE  \E f : Replays(f, e, lines, n)
<1> DEFINE T == {k \in Nat : \E f : Replays(f, e, lines, k)}
<1>1. Replays([i \in 0..0 |-> Going(e)], e, lines, 0)
  BY DEF Replays
<1>2. ASSUME NEW k \in Nat, NEW f, Replays(f, e, lines, k)
      PROVE  \E h : Replays(h, e, lines, k + 1)
  <2> DEFINE h == [i \in 0..(k + 1) |-> IF i = k + 1 THEN ReplayLine(f[k], lines[k + 1]) ELSE f[i]]
  <2>1. DOMAIN h = 0..(k + 1) /\ h[k + 1] = ReplayLine(f[k], lines[k + 1])
    OBVIOUS
  <2>2. \A i \in 0..k : h[i] = f[i]
    OBVIOUS
  <2>3. h[0] = Going(e)
    BY <1>2, <2>2 DEF Replays
  <2>4. ASSUME NEW i \in 1..(k + 1)
        PROVE  h[i] = ReplayLine(h[i - 1], lines[i])
    <3>. HIDE DEF h
    <3>1. CASE i = k + 1
      <4>1. h[i - 1] = f[k]
        BY <2>2, <3>1
      <4>. QED
        BY <2>1, <3>1, <4>1
    <3>2. CASE i \in 1..k
      <4>1. h[i] = f[i] /\ h[i - 1] = f[i - 1]
        BY <2>2, <3>2
      <4>. QED
        BY <1>2, <3>2, <4>1 DEF Replays
    <3>. QED
      BY <3>1, <3>2
  <2>5. Replays(h, e, lines, k + 1)
    <3>. HIDE DEF h
    <3>. QED
      BY <2>1, <2>3, <2>4 DEF Replays
  <2>. QED
    BY <2>5
<1>3. 0 \in T
  BY <1>1
<1>4. \A k \in Nat : k \in T => k + 1 \in T
  BY <1>2
<1>5. n \in T
  <2>. HIDE DEF T
  <2>. QED
    BY <1>3, <1>4, NatsWithin
<1>. QED
  BY <1>5

LEMMA ReplayIntoSteps ==
    ASSUME NEW e, NEW file, ScannedLines(file) \in Seq(Records \cup {Bad, Overlong})
    PROVE  \E f : /\ Replays(f, e, ScannedLines(file), Len(ScannedLines(file)))
                 /\ ReplayInto(e, file) = f[Len(ScannedLines(file))]
<1> DEFINE lines == ScannedLines(file)
           n == Len(lines)
           Is(f) == f = [i \in 0..n |-> IF i = 0 THEN Going(e) ELSE ReplayLine(f[i - 1], lines[i])]
           after == CHOOSE f : Is(f)
<1>1. n \in Nat
  OBVIOUS
<1>2. ReplayInto(e, file) = after[n]
  BY DEF ReplayInto
<1>. HIDE DEF lines, n
<1>3. PICK f : Replays(f, e, lines, n)
  BY <1>1, ReplayExists
<1> DEFINE h == [i \in 0..n |-> f[i]]
<1>4. Is(h)
  <2>1. ASSUME NEW i \in 0..n
        PROVE  h[i] = IF i = 0 THEN Going(e) ELSE ReplayLine(h[i - 1], lines[i])
    <3>1. CASE i = 0
      BY <1>3, <3>1 DEF Replays
    <3>2. CASE i # 0
      <4>1. i \in 1..n /\ i - 1 \in 0..n
        BY <1>1, <3>2
      <4>2. h[i] = f[i] /\ h[i - 1] = f[i - 1]
        BY <4>1
      <4>. HIDE DEF h
      <4>. QED
        BY <1>3, <3>2, <4>1, <4>2 DEF Replays
    <3>. QED
      BY <3>1, <3>2
  <2>2. h = [i \in 0..n |-> h[i]]
    OBVIOUS
  <2>. HIDE DEF h
  <2>. QED
    BY <2>1, <2>2
<1>5. Is(after)
  <2>. HIDE DEF h
  <2>. QED
    BY <1>4 DEF after
<1>6. Replays(after, e, lines, n)
  <2>. HIDE DEF after
  <2>1. DOMAIN after = 0..n
    BY <1>5
  <2>2. \A i \in 0..n : after[i] = IF i = 0 THEN Going(e) ELSE ReplayLine(after[i - 1], lines[i])
    BY <1>5
  <2>. QED
    BY <1>1, <2>1, <2>2 DEF Replays
<1>. QED
  BY <1>2, <1>6 DEF lines, n

(* A replay keeps the shape and never lowers a counter; one that fails at  *)
(* no line leaves both counters past every id the log creates.             *)
PastLines(e, lines) ==
    \A line \in ToSet(lines) :
        /\ line.op = "add_vertex" => e.store.nextV > line.id
        /\ line.op = "add_edge" => e.store.nextE > line.id

LEMMA ReplayIntoShape ==
    ASSUME NEW e, EngineShape(e), NEW file, ScannedLines(file) \in Seq(Records \cup {Bad, Overlong})
    PROVE  LET end == ReplayInto(e, file)
           IN  /\ ReplayShape(end) /\ NoLess(e, end.g)
               /\ end.status # "failed" /\ Bad \notin ToSet(ScannedLines(file))
                     => PastLines(end.g, ScannedLines(file))
<1> DEFINE lines == ScannedLines(file)
           n == Len(lines)
<1>1. PICK f : Replays(f, e, lines, n) /\ ReplayInto(e, file) = f[n]
  BY ReplayIntoSteps
<1>2. n \in Nat /\ DOMAIN lines = 1..n /\ \A i \in 1..n : lines[i] \in Records \cup {Bad, Overlong}
  OBVIOUS
<1>. HIDE DEF lines, n
<1> DEFINE Past(k) == \A j \in 1..k :
                        /\ lines[j].op = "add_vertex" => f[k].g.store.nextV > lines[j].id
                        /\ lines[j].op = "add_edge" => f[k].g.store.nextE > lines[j].id
           Good(k) == /\ ReplayShape(f[k]) /\ NoLess(e, f[k].g)
                      /\ Bad \notin ToSet(lines) => f[k].status # "stopped"
                      /\ f[k].status = "reading" => Past(k)
           T == {k \in Nat : k =< n => Good(k)}
<1>3. Good(0)
  <2>1. f[0] = Going(e)
    BY <1>1 DEF Replays
  <2>2. f[0].status = "reading" /\ f[0].g = e /\ f[0] \in [status : {"reading"}, g : {e}]
    BY <2>1 DEF Going
  <2>3. ReplayShape(f[0])
    BY <2>2 DEF ReplayShape
  <2>4. 1..0 = {}
    OBVIOUS
  <2>. QED
    BY <2>2, <2>3, <2>4, NoLessReflexive
<1>4. ASSUME NEW k \in Nat, k + 1 =< n, Good(k)
      PROVE  Good(k + 1)
  <2> DEFINE a == f[k]
             line == lines[k + 1]
             b == f[k + 1]
  <2>1. k + 1 \in 1..n /\ (k + 1) - 1 = k /\ line \in Records \cup {Bad, Overlong}
    BY <1>2, <1>4
  <2>2. b = ReplayLine(a, line)
    BY <1>1, <2>1 DEF Replays
  <2>3. /\ ReplayShape(b) /\ NoLess(a.g, b.g)
        /\ a.status # "reading" => b = a
        /\ line # Bad /\ a.status = "reading" => b.status # "stopped"
        /\ b.status = "reading" =>
              /\ line.op = "add_vertex" => b.g.store.nextV > line.id
              /\ line.op = "add_edge" => b.g.store.nextE > line.id
    BY <1>4, <2>1, <2>2, ReplayLineShape
  <2>4. EngineShape(a.g) /\ EngineShape(b.g)
    BY <1>4, <2>3 DEF ReplayShape
  <2>5. /\ e.store.nextV \in Nat /\ a.g.store.nextV \in Nat /\ b.g.store.nextV \in Nat
        /\ e.store.nextE \in Nat /\ a.g.store.nextE \in Nat /\ b.g.store.nextE \in Nat
    BY <2>4, EngineFields
  <2>6. NoLess(e, b.g)
    BY <1>4, <2>3, <2>5 DEF NoLess
  <2>7. ASSUME Bad \notin ToSet(lines)
        PROVE  b.status # "stopped"
    <3>1. line # Bad
      BY <1>2, <2>1, <2>7 DEF ToSet
    <3>. QED
      BY <1>4, <2>3, <2>7, <3>1
  <2>8. ASSUME b.status = "reading"
        PROVE  Past(k + 1)
    <3>1. a.status = "reading"
      BY <2>3, <2>8
    <3>2. ASSUME NEW j \in 1..(k + 1)
          PROVE  /\ lines[j].op = "add_vertex" => b.g.store.nextV > lines[j].id
                 /\ lines[j].op = "add_edge" => b.g.store.nextE > lines[j].id
      <4>1. CASE j = k + 1
        BY <2>3, <2>8, <4>1
      <4>2. CASE j \in 1..k
        <5>1. /\ lines[j].op = "add_vertex" => a.g.store.nextV > lines[j].id
              /\ lines[j].op = "add_edge" => a.g.store.nextE > lines[j].id
          BY <1>4, <3>1, <4>2
        <5>2. j \in 1..n
          BY <1>2, <1>4, <4>2
        <5>3. lines[j].op \in {"add_vertex", "add_edge"} => lines[j].id \in Nat
          <6>1. lines[j] \in Records \/ lines[j].op \in {"bad", "overlong"}
            BY <1>2, <5>2 DEF Bad, Overlong
          <6>. QED
            BY <6>1, RecordFacts, Constants
        <5>4. a.g.store.nextV =< b.g.store.nextV /\ a.g.store.nextE =< b.g.store.nextE
          BY <2>3 DEF NoLess
        <5>. HIDE DEF a, b
        <5>. QED
          BY <2>5, <5>1, <5>3, <5>4
      <4>. QED
        BY <1>4, <4>1, <4>2
    <3>. QED
      BY <3>2
  <2>. QED
    BY <2>3, <2>6, <2>7, <2>8
<1>5. Good(n)
  <2>1. 0 \in T
    BY <1>3
  <2>2. \A k \in Nat : k \in T => k + 1 \in T
    <3>. HIDE DEF Good
    <3>1. ASSUME NEW k \in Nat, k \in T, k + 1 =< n
          PROVE  Good(k + 1)
      <4>1. k =< n
        BY <1>2, <3>1
      <4>. QED
        BY <1>4, <3>1, <4>1
    <3>. QED
      BY <3>1
  <2>3. n \in T
    <3>. HIDE DEF T
    <3>. QED
      BY <1>2, <2>1, <2>2, NatsWithin
  <2>. QED
    BY <1>2, <2>3
<1>6. ASSUME f[n].status # "failed", Bad \notin ToSet(lines)
      PROVE  PastLines(f[n].g, lines)
  <2>1. f[n].status = "reading"
    BY <1>5, <1>6 DEF ReplayShape
  <2>2. \A line \in ToSet(lines) : \E j \in 1..n : line = lines[j]
    BY <1>2 DEF ToSet
  <2>. QED
    BY <1>5, <2>1, <2>2 DEF PastLines
<1>. QED
  BY <1>1, <1>5, <1>6 DEF lines, n

LEMMA ScannedTyped ==
    ASSUME LogTyped
    PROVE  ScannedLines(log) \in Seq(Records \cup {Bad, Overlong})
BY DEF LogTyped, ScannedLines

(* Whatever a start recovers has the shape of an engine, and when every    *)
(* needed record is there, its counters are past every id given.           *)
LEMMA RecoveredShape ==
    ASSUME Typed
    PROVE  /\ EngineShape(Recovered.g)
           /\ IdsFresh /\ Recovered.ok =>
                /\ high.v < Recovered.g.store.nextV /\ high.e < Recovered.g.store.nextE
                /\ PastLines(Recovered.g, ScannedLines(log))
<1>1. LogTyped /\ FilesTyped /\ EngineTyped
  BY DEF Typed
<1>2. high.v \in Nat /\ high.e \in Nat
  BY <1>1 DEF EngineTyped
<1>3. ASSUME NEW base, EngineShape(base)
      PROVE  LET r == RecoverOnto(base, log)
             IN  /\ EngineShape(r.g)
                 /\ IdsFresh /\ Covered(base.store.nextV, base.store.nextE) /\ r.ok =>
                      /\ high.v < r.g.store.nextV /\ high.e < r.g.store.nextE
                      /\ PastLines(r.g, ScannedLines(log))
  <2> DEFINE end == ReplayInto(base, log)
             r == RecoverOnto(base, log)
  <2>1. /\ ReplayShape(end) /\ NoLess(base, end.g)
        /\ end.status # "failed" /\ Bad \notin ToSet(ScannedLines(log))
              => PastLines(end.g, ScannedLines(log))
    BY <1>1, <1>3, ScannedTyped, ReplayIntoShape
  <2>2. r.ok = (end.status # "failed") /\ r.g = end.g
    BY DEF RecoverOnto
  <2>. HIDE DEF end, r
  <2>3. EngineShape(r.g)
    BY <2>1, <2>2 DEF ReplayShape
  <2>4. ASSUME IdsFresh, Covered(base.store.nextV, base.store.nextE), r.ok
        PROVE  /\ high.v < r.g.store.nextV /\ high.e < r.g.store.nextE
               /\ PastLines(r.g, ScannedLines(log))
    <3>1. PastLines(r.g, ScannedLines(log))
      BY <2>1, <2>2, <2>4 DEF IdsFresh, Lines
    <3>2. /\ base.store.nextV \in Nat /\ r.g.store.nextV \in Nat /\ base.store.nextV =< r.g.store.nextV
          /\ base.store.nextE \in Nat /\ r.g.store.nextE \in Nat /\ base.store.nextE =< r.g.store.nextE
      BY <1>3, <2>1, <2>2, <2>3, EngineFields DEF NoLess
    <3>3. ASSUME NEW line \in Lines
          PROVE  line.op \in {"add_vertex", "add_edge"} => line.id \in Nat
      <4>1. line \in Records \/ line \in {Bad, Overlong}
        BY <1>1, ScannedTyped DEF Lines, ToSet
      <4>2. CASE line \in Records
        <5>1. \/ line.op \notin {"add_vertex", "add_edge"}
              \/ line.id \in VertexIds \/ line.id \in EdgeIds
          BY <4>2, RecordFacts
        <5>. QED
          BY <5>1, Constants
      <4>3. CASE line \in {Bad, Overlong}
        BY <4>3 DEF Bad, Overlong
      <4>. QED
        BY <4>1, <4>2, <4>3
    <3>4. high.v < r.g.store.nextV
      BY <1>2, <2>4, <3>1, <3>2, <3>3 DEF Covered, Reaches, PastLines, Lines
    <3>5. high.e < r.g.store.nextE
      BY <1>2, <2>4, <3>1, <3>2, <3>3 DEF Covered, Reaches, PastLines, Lines
    <3>. QED
      BY <3>1, <3>4, <3>5
  <2>. QED
    BY <2>3, <2>4 DEF r
<1>4. CASE dir.snap = None
  <2>1. Recovered = RecoverOnto(NewEngine, log)
    BY <1>4 DEF Recovered
  <2>2. IdsFresh => Covered(NewEngine.store.nextV, NewEngine.store.nextE)
    BY <1>4, NewEngineShape DEF IdsFresh, Coverage
  <2>. QED
    BY <1>3, <2>1, <2>2, NewEngineShape
<1>5. CASE dir.snap # None
  <2> DEFINE head == files[dir.snap].head
             usable == Whole(files[dir.snap]) /\ S!CanReset(head)
  <2>1. Recovered = IF usable THEN RecoverOnto(LoadInto(head), log) ELSE Refused
    BY <1>5 DEF Recovered, RecoverFrom
  <2>2. dir.snap \in Inodes /\ HalfShape(head)
    BY <1>1, <1>5 DEF FilesTyped
  <2>3. usable => SnapshotShape(head)
    BY <2>2 DEF HalfShape, Whole
  <2>4. IdsFresh => Covered(head.nextV, head.nextE)
    BY <1>5 DEF IdsFresh, Coverage
  <2>. HIDE DEF head, usable
  <2>5. CASE usable
    <3>1. /\ EngineShape(LoadInto(head))
          /\ LoadInto(head).store.nextV = head.nextV /\ LoadInto(head).store.nextE = head.nextE
      BY <2>3, <2>5, LoadIntoShape
    <3>. QED
      BY <1>3, <2>1, <2>4, <2>5, <3>1
  <2>6. CASE ~usable
    <3>1. Refused.g = NewEngine /\ Refused.ok = FALSE
      BY DEF Refused
    <3>. QED
      BY <2>1, <2>6, <3>1, NewEngineShape
  <2>. QED
    BY <2>5, <2>6
<1>. QED
  BY <1>4, <1>5

(***************************************************************************)
(* The log under an append.                                                *)
(***************************************************************************)
LogType == [lines : Seq(Records \cup {Bad, Overlong}), tail : Records \cup {Partial, Overlong, None}]

LEMMA AppendToSet ==
    ASSUME NEW U, NEW q \in Seq(U), NEW x \in U
    PROVE  Append(q, x) \in Seq(U) /\ ToSet(Append(q, x)) = ToSet(q) \cup {x}
<1>1. /\ Len(q) \in Nat /\ DOMAIN q = 1..Len(q)
      /\ DOMAIN Append(q, x) = 1..(Len(q) + 1)
      /\ Append(q, x)[Len(q) + 1] = x
      /\ \A i \in 1..Len(q) : Append(q, x)[i] = q[i]
  OBVIOUS
<1>2. 1..(Len(q) + 1) = 1..Len(q) \cup {Len(q) + 1}
  BY <1>1
<1>. QED
  BY <1>1, <1>2 DEF ToSet

LEMMA AppendLineFacts ==
    ASSUME LogTyped, NEW rec \in Records, NEW damaged \in {Bad, Overlong}
    PROVE  LET x == AppendLine(log, rec, damaged)
           IN  x \in LogType /\ (log.tail = None => ToSet(ScannedLines(x)) = Lines \cup {rec})
<1> DEFINE x == AppendLine(log, rec, damaged)
<1>1. log \in LogType
  BY DEF LogTyped, LogType
<1>2. CASE log.tail = None
  <2>1. x \in LogType /\ x.tail = None /\ x.lines = Append(log.lines, rec)
    BY <1>1, <1>2 DEF AppendLine, LogType
  <2>2. ScannedLines(x) = Append(log.lines, rec) /\ ScannedLines(log) = log.lines
    BY <1>2, <2>1 DEF ScannedLines
  <2>3. ToSet(Append(log.lines, rec)) = ToSet(log.lines) \cup {rec}
    BY <1>1, AppendToSet DEF LogType
  <2>. QED
    BY <2>1, <2>2, <2>3 DEF Lines
<1>3. CASE log.tail # None
  BY <1>1, <1>3 DEF AppendLine, LogType
<1>. QED
  BY <1>2, <1>3

LEMMA AppendFragmentFacts ==
    ASSUME LogTyped, NEW fragment \in Records \cup {Partial, Overlong}
    PROVE  LET x == AppendFragment(log, fragment)
           IN  /\ x \in LogType
               /\ log.tail \in {None, Partial, Overlong} =>
                     Lines \subseteq ToSet(ScannedLines(x))
               /\ log.tail \in {None, Partial, Overlong} /\ x.tail # Overlong =>
                     ToSet(ScannedLines(x)) \subseteq Lines \cup (Records \cap {fragment})
               /\ log.tail = None /\ fragment \in Records => fragment \in ToSet(ScannedLines(x))
<1> DEFINE x == AppendFragment(log, fragment)
<1>1. log \in LogType
  BY DEF LogTyped, LogType
<1>b. /\ x.lines = log.lines
      /\ x.tail = CASE log.tail = None -> fragment
                   [] log.tail # None /\ Overlong \in {log.tail, fragment} -> Overlong
                   [] OTHER -> Partial
      /\ x = [lines |-> x.lines, tail |-> x.tail]
  BY <1>1 DEF AppendFragment, LogType
<1>c. /\ log.tail = None => x.tail = fragment
      /\ log.tail # None => x.tail \in {Partial, Overlong}
      /\ log.tail = Overlong => x.tail = Overlong
  BY <1>b, Constants
<1>d. x \in LogType
  BY <1>1, <1>b, <1>c DEF LogType
<1>2. /\ x \in LogType /\ x.lines = log.lines
      /\ log.tail = None => x.tail = fragment
      /\ log.tail # None => x.tail \in {Partial, Overlong}
      /\ log.tail = Overlong => x.tail = Overlong
  BY <1>b, <1>c, <1>d
<1>. HIDE DEF x
<1>a. /\ Overlong \notin {None, Partial}
      /\ log.tail = Overlong => ScannedLines(x) = ScannedLines(log)
  BY <1>2, BadIsNoRecord, Constants DEF ScannedLines
<1>3. ASSUME log.tail \in {None, Partial}
      PROVE  /\ Lines \subseteq ToSet(ScannedLines(x))
             /\ x.tail # Overlong =>
                   ToSet(ScannedLines(x)) \subseteq Lines \cup (Records \cap {fragment})
             /\ log.tail = None /\ fragment \in Records => fragment \in ToSet(ScannedLines(x))
  <2>1. Lines = ToSet(log.lines)
    BY <1>3 DEF Lines, ScannedLines
  <2>2. CASE log.tail = None /\ fragment \in Records
    <3>1. x.tail = fragment /\ fragment # None /\ fragment # Partial
      BY <1>2, <2>2, RecordFacts
    <3>2. ScannedLines(x) = Append(log.lines, fragment)
      BY <1>2, <3>1 DEF ScannedLines
    <3>3. ToSet(Append(log.lines, fragment)) = ToSet(log.lines) \cup {fragment}
      BY <1>1, <2>2, AppendToSet DEF LogType
    <3>. QED
      BY <2>1, <2>2, <3>2, <3>3
  <2>3. CASE ~(log.tail = None /\ fragment \in Records)
    <3>1. x.tail \in {Partial, Overlong}
      BY <1>2, <1>3, <2>3
    <3>2. CASE x.tail = Partial
      <4>1. ScannedLines(x) = log.lines
        BY <1>2, <3>2 DEF ScannedLines
      <4>. QED
        BY <2>1, <2>3, <4>1
    <3>3. CASE x.tail = Overlong
      <4>1. ScannedLines(x) = Append(log.lines, Overlong)
        BY <1>2, <1>a, <3>3 DEF ScannedLines
      <4>2. ToSet(Append(log.lines, Overlong)) = ToSet(log.lines) \cup {Overlong}
        BY <1>1, AppendToSet DEF LogType
      <4>. QED
        BY <2>1, <2>3, <3>3, <4>1, <4>2
    <3>. QED
      BY <3>1, <3>2, <3>3
  <2>. QED
    BY <2>2, <2>3
<1>. QED
  BY <1>2, <1>a, <1>3, Constants DEF x, Lines

(***************************************************************************)
(* The invariant: the initial state and what several steps have in common. *)
(***************************************************************************)
LEMMA InitInv == Init => DurInv
<1>. SUFFICES ASSUME Init PROVE DurInv
  OBVIOUS
<1>1. EngineTyped
  BY NewEngineShape DEF Init, EngineTyped
<1>2. LogTyped
  BY DEF Init, LogTyped, EmptyLog
<1>3. FilesTyped
  BY DEF Init, FilesTyped, HalfShape, NewFile
<1>4. \A s \in Savers : saver[s].pc = "idle"
  BY DEF Init, Idle
<1>5. SaverTyped
  BY DEF Init, SaverTyped, Idle, Saving, Writing
<1>6. FilesSound
  BY <1>4 DEF Init, FilesSound, OneSaver, Saving, Writing
<1>7. FreshSound
  <2>1. Lines = {}
    <3>1. ScannedLines(log) = <<>> /\ DOMAIN <<>> = {}
      BY DEF Init, EmptyLog, ScannedLines
    <3>. QED
      BY <3>1 DEF Lines, ToSet
  <2>2. Covered(1, 1)
    BY DEF Init, Covered, Reaches
  <2>3. Coverage
    BY <1>4, <2>2 DEF Init, Coverage, Saving
  <2>4. high.v < g.store.nextV /\ high.e < g.store.nextE
    BY NewEngineShape DEF Init
  <2>. QED
    BY <2>1, <2>3, <2>4 DEF Init, FreshSound, IdsFresh
<1>. QED
  BY <1>1, <1>2, <1>3, <1>5, <1>6, <1>7 DEF DurInv, Typed, ExposedTyped, Init

(* Coverage survives more lines, higher ids that are among them, and steps *)
(* that leave the snapshots alone.                                         *)
LEMMA CoverageKept ==
    ASSUME EngineTyped, EngineTyped', Coverage, Lines \subseteq Lines',
           high.v' = high.v \/ \E line \in Lines' : line.op = "add_vertex" /\ line.id = high.v',
           high.e' = high.e \/ \E line \in Lines' : line.op = "add_edge" /\ line.id = high.e',
           dir.snap' = dir.snap,
           dir.snap # None => (files[dir.snap].head)' = files[dir.snap].head,
           \A s \in Savers : saver[s].pc' \in Saving =>
               saver[s].pc \in Saving /\ saver[s].snap' = saver[s].snap
    PROVE  Coverage'
<1>1. high.v' \in Nat /\ high.e' \in Nat
  BY DEF EngineTyped
<1>2. ASSUME NEW v, NEW e, Covered(v, e)
      PROVE  Reaches(Lines', "add_vertex", v, high.v') /\ Reaches(Lines', "add_edge", e, high.e')
  <2>1. Reaches(Lines', "add_vertex", v, high.v')
    <3>1. CASE high.v' = high.v
      BY <1>2, <3>1 DEF Covered, Reaches
    <3>2. CASE \E line \in Lines' : line.op = "add_vertex" /\ line.id = high.v'
      BY <1>1, <3>2 DEF Reaches
    <3>. QED
      BY <3>1, <3>2
  <2>2. Reaches(Lines', "add_edge", e, high.e')
    <3>1. CASE high.e' = high.e
      BY <1>2, <3>1 DEF Covered, Reaches
    <3>2. CASE \E line \in Lines' : line.op = "add_edge" /\ line.id = high.e'
      BY <1>1, <3>2 DEF Reaches
    <3>. QED
      BY <3>1, <3>2
  <2>. QED
    BY <2>1, <2>2
<1>3. (dir.snap = None => Covered(1, 1))'
  BY <1>2 DEF Coverage, Covered
<1>4. (dir.snap # None => Covered(files[dir.snap].head.nextV, files[dir.snap].head.nextE))'
  BY <1>2 DEF Coverage, Covered
<1>5. ASSUME NEW s \in Savers, saver[s].pc' \in Saving
      PROVE  Covered(saver[s].snap.nextV, saver[s].snap.nextE)'
  BY <1>2, <1>5 DEF Coverage, Covered
<1>. QED
  BY <1>3, <1>4, <1>5 DEF Coverage

LEMMA FilesKept ==
    ASSUME FilesTyped, SaverTyped, FilesSound, UNCHANGED <<files, dir, saver>>,
           exposed \subseteq exposed'
    PROVE  FilesTyped' /\ SaverTyped' /\ FilesSound'
<1>1. FilesTyped'
  BY DEF FilesTyped
<1>2. SaverTyped'
  BY DEF SaverTyped
<1>3. OneSaver => OneSaver'
  BY DEF OneSaver
<1>. QED
  BY <1>1, <1>2, <1>3 DEF FilesSound

(***************************************************************************)
(* Writers.                                                                *)
(***************************************************************************)
LEMMA TakeIdShape ==
    ASSUME EngineShape(g), NEW rec \in Requests
    PROVE  EngineShape(TakeId(rec)) /\ TakeId(rec).store = g.store
<1>1. rec \in Records
  BY RequestFacts
<1>2. g \in [store : {g.store}, vIds : {g.vIds}, eIds : {g.eIds}]
  BY DEF EngineShape
<1>3. CASE rec.op = "add_vertex"
  <2> DEFINE d == [g EXCEPT !.vIds = @ + 1]
  <2>1. TakeId(rec) = d
    BY <1>3 DEF TakeId
  <2>2. /\ d \in [store : {d.store}, vIds : {d.vIds}, eIds : {d.eIds}]
        /\ d.store = g.store /\ d.vIds = g.vIds + 1 /\ d.eIds = g.eIds
    BY <1>2
  <2>. HIDE DEF d
  <2>3. g.vIds \in VertexIds
    BY <1>1, <1>3, RecordFacts, RequestFacts
  <2>4. d.vIds \in 1..(MaxVertexId + 1) /\ d.store.nextV =< d.vIds
    BY <2>2, <2>3, Constants, EngineFields DEF VertexIds
  <2>5. EngineShape(d)
    BY <2>2, <2>4 DEF EngineShape
  <2>. QED
    BY <2>1, <2>2, <2>5
<1>4. CASE rec.op = "add_edge"
  <2> DEFINE d == [g EXCEPT !.eIds = @ + 1]
  <2>1. TakeId(rec) = d
    BY <1>4 DEF TakeId
  <2>2. /\ d \in [store : {d.store}, vIds : {d.vIds}, eIds : {d.eIds}]
        /\ d.store = g.store /\ d.vIds = g.vIds /\ d.eIds = g.eIds + 1
    BY <1>2
  <2>. HIDE DEF d
  <2>3. g.eIds \in EdgeIds
    BY <1>1, <1>4, RecordFacts, RequestFacts
  <2>4. d.eIds \in 1..(MaxEdgeId + 1) /\ d.store.nextE =< d.eIds
    BY <2>2, <2>3, Constants, EngineFields DEF EdgeIds
  <2>5. EngineShape(d)
    BY <2>2, <2>4 DEF EngineShape
  <2>. QED
    BY <2>1, <2>2, <2>5
<1>5. CASE rec.op \notin {"add_vertex", "add_edge"}
  BY <1>5 DEF TakeId
<1>. QED
  BY <1>3, <1>4, <1>5

LEMMA MarkFacts ==
    ASSUME high \in [v : Nat, e : Nat], NEW rec \in Records, Mark(rec)
    PROVE  /\ high' \in [v : Nat, e : Nat]
           /\ high.v' = IF rec.op = "add_vertex" THEN rec.id ELSE high.v
           /\ high.e' = IF rec.op = "add_edge" THEN rec.id ELSE high.e
<1>1. rec.op \in {"add_vertex", "add_edge"} => rec.id \in Nat
  <2>1. \/ rec.op \notin {"add_vertex", "add_edge"}
        \/ rec.id \in VertexIds \/ rec.id \in EdgeIds
    BY RecordFacts
  <2>. QED
    BY <2>1, Constants
<1>. QED
  BY <1>1 DEF Mark

LEMMA HiddenFacts ==
    ASSUME NEW rec
    PROVE  /\ Hidden(rec) \subseteq {"torn", "long", "rounded"}
           /\ "torn" \notin Hidden(rec) => log.tail = None
           /\ Spoiled \subseteq {"torn"}
           /\ "torn" \notin Spoiled => log.tail \in {None, Partial, Overlong}
           /\ \A file : /\ Outgrown(file) \subseteq {"long"}
                        /\ file.tail = Overlong => Outgrown(file) = {"long"}
BY DEF Hidden, Spoiled, Outgrown

LEMMA LogStep ==
    ASSUME DurInv, NEW rec \in Requests, Log(rec)
    PROVE  DurInv'
<1>1. EngineTyped /\ LogTyped /\ FilesTyped /\ SaverTyped /\ ExposedTyped /\ FilesSound /\ FreshSound
  BY DEF DurInv, Typed
<1>2. PICK damaged \in {Bad, Overlong} :
          /\ g' = TakeId(rec) /\ log' = AppendLine(log, rec, damaged) /\ pending' = rec
          /\ exposed' = exposed \cup Hidden(rec) \cup Outgrown(log')
          /\ UNCHANGED <<high, phase, walOpen, files, dir, saver, loader>>
  BY DEF Log, LogSteady, DamagedLines
<1>3. rec \in Records /\ (rec.op = "update_vertex" => rec.id \in DOMAIN g.store.vertices)
  BY <1>1, RequestFacts DEF EngineTyped
<1>4. EngineShape(g') /\ g'.store = g.store
  BY <1>1, <1>2, TakeIdShape DEF EngineTyped
<1>5. EngineTyped'
  BY <1>1, <1>2, <1>3, <1>4 DEF EngineTyped
<1>6. LogTyped'
  BY <1>1, <1>2, <1>3, AppendLineFacts DEF LogTyped, LogType
<1>7. ExposedTyped'
  BY <1>1, <1>2, HiddenFacts DEF ExposedTyped
<1>8. FilesTyped' /\ SaverTyped' /\ FilesSound'
  BY <1>1, <1>2, FilesKept
<1>9. ASSUME exposed' \subseteq {"rounded", "ghost"}
      PROVE  IdsFresh'
  <2>1. IdsFresh /\ log.tail = None
    BY <1>1, <1>2, <1>9, HiddenFacts DEF FreshSound
  <2>2. Lines' = Lines \cup {rec} /\ rec # Bad /\ rec # Overlong
    BY <1>1, <1>2, <1>3, <2>1, AppendLineFacts, RecordFacts DEF Lines
  <2>3. Coverage'
    BY <1>1, <1>2, <1>5, <2>1, <2>2, CoverageKept DEF IdsFresh
  <2>. QED
    BY <1>2, <1>4, <2>1, <2>2, <2>3 DEF IdsFresh, Up
<1>. QED
  BY <1>5, <1>6, <1>7, <1>8, <1>9 DEF DurInv, Typed, FreshSound

LEMMA LogFailsStep ==
    ASSUME DurInv, NEW rec \in Requests, LogFails(rec)
    PROVE  DurInv'
<1>1. EngineTyped /\ LogTyped /\ FilesTyped /\ SaverTyped /\ ExposedTyped /\ FilesSound /\ FreshSound
  BY DEF DurInv, Typed
<1>2. /\ pending = None /\ g' = TakeId(rec)
      /\ UNCHANGED <<pending, high, phase, walOpen, files, dir, saver, loader>>
  BY DEF LogFails, LogSteady
<1>3. rec \in Records
  BY <1>1, RequestFacts DEF EngineTyped
<1>4. EngineShape(g') /\ g'.store = g.store
  BY <1>1, <1>2, TakeIdShape DEF EngineTyped
<1>5. EngineTyped'
  BY <1>1, <1>2, <1>4 DEF EngineTyped
<1>6. /\ log' \in LogType /\ exposed \subseteq exposed' /\ ExposedTyped'
      /\ "torn" \notin exposed' => Lines \subseteq Lines'
      /\ {"torn", "long"} \cap exposed' = {} => Lines' \subseteq Lines \cup {rec}
  <2>1. CASE UNCHANGED <<log, exposed>>
    BY <1>1, <2>1 DEF LogTyped, LogType, ExposedTyped, Lines
  <2>2. ASSUME NEW fragment \in {Partial, Overlong, rec},
               log' = AppendFragment(log, fragment),
               exposed' = exposed \cup Spoiled \cup Outgrown(log')
                                  \cup IF fragment = rec THEN {"ghost"} ELSE {}
        PROVE  <1>6!:
    <3>1. fragment \in Records \cup {Partial, Overlong} /\ Records \cap {fragment} \subseteq {rec}
      BY <1>3, BadIsNoRecord
    <3>2. /\ "torn" \notin exposed' => log.tail \in {None, Partial, Overlong}
          /\ "long" \notin exposed' => log'.tail # Overlong
          /\ exposed \subseteq exposed' /\ ExposedTyped'
      BY <1>1, <2>2, HiddenFacts DEF ExposedTyped
    <3>. QED
      BY <1>1, <2>2, <3>1, <3>2, AppendFragmentFacts DEF Lines
  <2>3. ASSUME NEW damaged \in {Bad, Overlong}, log' = AppendLine(log, rec, damaged),
               exposed' = exposed \cup {"ghost"} \cup Hidden(rec) \cup Outgrown(log')
        PROVE  <1>6!:
    BY <1>1, <1>3, <2>3, AppendLineFacts, HiddenFacts DEF ExposedTyped, Lines
  <2>. QED
    BY <2>1, <2>2, <2>3 DEF LogFails, DamagedLines
<1>7. LogTyped'
  BY <1>1, <1>2, <1>6 DEF LogTyped, LogType
<1>8. FilesTyped' /\ SaverTyped' /\ FilesSound'
  BY <1>1, <1>2, <1>6, FilesKept
<1>9. ASSUME exposed' \subseteq {"rounded", "ghost"}
      PROVE  IdsFresh'
  <2>1. IdsFresh /\ {"torn", "long"} \cap exposed' = {}
    BY <1>1, <1>6, <1>9 DEF FreshSound
  <2>2. Lines \subseteq Lines' /\ Bad \notin Lines' /\ Overlong \notin Lines'
    BY <1>3, <1>6, <2>1, BadIsNoRecord DEF IdsFresh
  <2>3. Coverage'
    BY <1>1, <1>2, <1>5, <2>1, <2>2, CoverageKept DEF IdsFresh
  <2>. QED
    BY <1>2, <1>4, <2>1, <2>2, <2>3 DEF IdsFresh, Up
<1>. QED
  BY <1>5, <1>6, <1>7, <1>8, <1>9 DEF DurInv, Typed, FreshSound

LEMMA StoreStep ==
    ASSUME DurInv, Store
    PROVE  DurInv'
<1>1. EngineTyped /\ LogTyped /\ FilesTyped /\ SaverTyped /\ ExposedTyped /\ FilesSound /\ FreshSound
  BY DEF DurInv, Typed
<1>2. /\ Up /\ pending # None /\ g' = Apply(g, pending) /\ Mark(pending) /\ pending' = None
      /\ UNCHANGED <<log, exposed, phase, walOpen, files, dir, saver, loader>>
  BY DEF Store, LogSteady
<1>3. /\ pending \in Records /\ EngineShape(g) /\ high \in [v : Nat, e : Nat]
      /\ pending.op = "update_vertex" => pending.id \in DOMAIN g.store.vertices
  BY <1>1, <1>2 DEF EngineTyped
<1>4. /\ EngineShape(g') /\ NoLess(g, g')
      /\ pending.op = "add_vertex" => g'.store.nextV > pending.id
      /\ pending.op = "add_edge" => g'.store.nextE > pending.id
  BY <1>2, <1>3, ApplyShape
<1>5. /\ high' \in [v : Nat, e : Nat]
      /\ high.v' = IF pending.op = "add_vertex" THEN pending.id ELSE high.v
      /\ high.e' = IF pending.op = "add_edge" THEN pending.id ELSE high.e
  BY <1>2, <1>3, MarkFacts
<1>6. EngineTyped'
  BY <1>1, <1>2, <1>4, <1>5 DEF EngineTyped
<1>7. LogTyped' /\ ExposedTyped' /\ Lines' = Lines
  BY <1>1, <1>2 DEF LogTyped, ExposedTyped, Lines
<1>8. FilesTyped' /\ SaverTyped' /\ FilesSound'
  BY <1>1, <1>2, FilesKept
<1>9. ASSUME exposed' \subseteq {"rounded", "ghost"}
      PROVE  IdsFresh'
  <2>1. IdsFresh
    BY <1>1, <1>2, <1>9 DEF FreshSound
  <2>2. Coverage'
    BY <1>1, <1>2, <1>5, <1>6, <1>7, <2>1, CoverageKept DEF IdsFresh
  <2>3. high.v' < g.store.nextV'
    <3>1. /\ high.v \in Nat /\ high.v' \in Nat /\ g.store.nextV \in Nat /\ g.store.nextV' \in Nat
          /\ high.v < g.store.nextV /\ g.store.nextV =< g.store.nextV'
      BY <1>2, <1>3, <1>4, <1>5, <2>1, EngineFields DEF IdsFresh, NoLess
    <3>. QED
      BY <1>4, <1>5, <3>1
  <2>4. high.e' < g.store.nextE'
    <3>1. /\ high.e \in Nat /\ high.e' \in Nat /\ g.store.nextE \in Nat /\ g.store.nextE' \in Nat
          /\ high.e < g.store.nextE /\ g.store.nextE =< g.store.nextE'
      BY <1>2, <1>3, <1>4, <1>5, <2>1, EngineFields DEF IdsFresh, NoLess
    <3>. QED
      BY <1>4, <1>5, <3>1
  <2>. QED
    BY <1>2, <1>7, <2>1, <2>2, <2>3, <2>4 DEF IdsFresh
<1>. QED
  BY <1>6, <1>7, <1>8, <1>9 DEF DurInv, Typed, FreshSound

LEMMA WriteUnloggedStep ==
    ASSUME DurInv, NEW rec \in Requests, WriteUnlogged(rec)
    PROVE  DurInv'
<1>1. EngineTyped /\ LogTyped /\ FilesTyped /\ SaverTyped /\ ExposedTyped /\ FilesSound
  BY DEF DurInv, Typed
<1>2. /\ pending = None /\ g' = Apply(TakeId(rec), rec) /\ Mark(rec)
      /\ exposed' = exposed \cup {"shutdown"}
      /\ UNCHANGED <<pending, log, phase, walOpen, files, dir, saver, loader>>
  BY DEF WriteUnlogged, LogSteady
<1>3. rec \in Records /\ (rec.op = "update_vertex" => rec.id \in DOMAIN g.store.vertices)
  BY <1>1, RequestFacts DEF EngineTyped
<1>4. EngineShape(TakeId(rec)) /\ TakeId(rec).store = g.store
  BY <1>1, TakeIdShape DEF EngineTyped
<1>5. EngineShape(g')
  BY <1>2, <1>3, <1>4, ApplyShape
<1>6. high' \in [v : Nat, e : Nat]
  BY <1>1, <1>2, <1>3, MarkFacts DEF EngineTyped
<1>7. EngineTyped'
  BY <1>1, <1>2, <1>5, <1>6 DEF EngineTyped
<1>8. LogTyped' /\ ExposedTyped'
  BY <1>1, <1>2 DEF LogTyped, ExposedTyped
<1>9. FilesTyped' /\ SaverTyped' /\ FilesSound'
  BY <1>1, <1>2, FilesKept
<1>10. FreshSound'
  BY <1>2 DEF FreshSound
<1>. QED
  BY <1>7, <1>8, <1>9, <1>10 DEF DurInv, Typed

(***************************************************************************)
(* Saves.                                                                  *)
(***************************************************************************)
LEMMA SaverMoves ==
    ASSUME SaverTyped, NEW s \in Savers, NEW r, saver' = [saver EXCEPT ![s] = r],
           r \in [pc : Saving \cup {"idle", "done"}, snap : {r.snap}, inode : Inodes \cup {None}],
           r.pc \in Writing => r.inode \in Inodes,
           r.pc \in Saving => SnapshotShape(r.snap)
    PROVE  /\ SaverTyped' /\ saver[s]' = r
           /\ \A t \in Savers : t # s => saver[t]' = saver[t]
<1>1. /\ DOMAIN saver' = Savers /\ saver'[s] = r
      /\ \A t \in Savers : t # s => saver'[t] = saver[t]
  BY DEF SaverTyped
<1>2. ASSUME NEW t \in Savers
      PROVE  /\ saver'[t] \in [pc : Saving \cup {"idle", "done"}, snap : {saver'[t].snap},
                               inode : Inodes \cup {None}]
             /\ saver'[t].pc \in Writing => saver'[t].inode \in Inodes
             /\ saver'[t].pc \in Saving => SnapshotShape(saver'[t].snap)
  BY <1>1 DEF SaverTyped
<1>3. SaverTyped'
  BY <1>1, <1>2 DEF SaverTyped
<1>. QED
  BY <1>1, <1>3

LEMMA StepMoves ==
    ASSUME SaverTyped, NEW s \in Savers, NEW from \in Saving, NEW to \in Saving, Step(s, from, to),
           to \in Writing => from \in Writing
    PROVE  /\ SaverTyped' /\ saver[s].pc = from /\ saver[s].pc' = to
           /\ saver[s].snap' = saver[s].snap /\ saver[s].inode' = saver[s].inode
           /\ \A t \in Savers : t # s => saver[t]' = saver[t]
<1> DEFINE r == [saver[s] EXCEPT !.pc = to]
<1>1. saver[s].pc = from /\ saver' = [saver EXCEPT ![s] = r]
  BY DEF Step
<1>2. /\ r \in [pc : Saving \cup {"idle", "done"}, snap : {r.snap}, inode : Inodes \cup {None}]
      /\ r.pc = to /\ r.snap = saver[s].snap /\ r.inode = saver[s].inode
  BY DEF SaverTyped
<1>. HIDE DEF r
<1>3. /\ r.pc \in Writing => r.inode \in Inodes
      /\ r.pc \in Saving => SnapshotShape(r.snap)
  BY <1>1, <1>2 DEF SaverTyped
<1>4. /\ SaverTyped' /\ saver[s]' = r
      /\ \A t \in Savers : t # s => saver[t]' = saver[t]
  BY <1>1, <1>2, <1>3, SaverMoves
<1>. QED
  BY <1>1, <1>2, <1>4

LEMMA FinishMoves ==
    ASSUME SaverTyped, NEW s \in Savers, Finish(s)
    PROVE  /\ SaverTyped' /\ saver[s].pc' \notin Saving
           /\ \A t \in Savers : t # s => saver[t]' = saver[t]
<1> DEFINE r == IF s = "final" THEN [Idle EXCEPT !.pc = "done"] ELSE Idle
<1>1. saver' = [saver EXCEPT ![s] = r]
  BY DEF Finish
<1>2. /\ r \in [pc : {"idle", "done"}, snap : {r.snap}, inode : {None}]
      /\ r.pc \notin Saving /\ r.pc \notin Writing
  BY DEF Idle, Saving, Writing
<1>. HIDE DEF r
<1>3. /\ SaverTyped' /\ saver[s]' = r
      /\ \A t \in Savers : t # s => saver[t]' = saver[t]
  BY <1>1, <1>2, SaverMoves
<1>. QED
  BY <1>2, <1>3

(* What every step of a save leaves alone.                                 *)
LEMMA SaveKeeps ==
    ASSUME DurInv, SaveSteady
    PROVE  /\ EngineTyped /\ FilesTyped /\ SaverTyped /\ EngineTyped'
           /\ UNCHANGED log /\ UNCHANGED walOpen => LogTyped'
           /\ UNCHANGED exposed => ExposedTyped'
           /\ FilesSound /\ FreshSound
           /\ UNCHANGED <<phase, g, pending, loader, high>>
BY DEF DurInv, Typed, SaveSteady, EngineTyped, LogTyped, ExposedTyped

(* A step of a save that leaves the log alone, and the name of the snapshot *)
(* and what is under it, does nothing to the identifiers.                  *)
LEMMA FreshKept ==
    ASSUME DurInv, SaveSteady, UNCHANGED <<log, exposed>>,
           OneSaver => (Coverage => Coverage')
    PROVE  FreshSound'
<1>1. ASSUME exposed' \subseteq {"rounded", "ghost"}
      PROVE  IdsFresh'
  <2>1. IdsFresh /\ OneSaver
    BY <1>1 DEF DurInv, FreshSound, FilesSound
  <2>2. Coverage' /\ Lines' = Lines
    BY <2>1 DEF IdsFresh, Lines
  <2>. QED
    BY <2>1, <2>2 DEF IdsFresh, SaveSteady, Up
<1>. QED
  BY <1>1 DEF FreshSound

LEMMA CaptureStep ==
    ASSUME DurInv, NEW s \in Savers, Capture(s)
    PROVE  DurInv'
<1>1. SaveSteady /\ UNCHANGED <<log, files, dir, walOpen>>
  BY DEF Capture, disk
<1>2. /\ EngineTyped /\ FilesTyped /\ SaverTyped /\ EngineTyped' /\ LogTyped'
      /\ FilesSound /\ FreshSound /\ UNCHANGED <<phase, g, pending, loader, high>>
  BY <1>1, SaveKeeps
<1> DEFINE p == S!SnapshotOf(g.store)
           r == [saver[s] EXCEPT !.pc = "create", !.snap = p]
           others == \E t \in Savers : saver[t].pc \notin {"idle", "done"}
<1>3. /\ Up /\ saver[s].pc = "idle" /\ saver' = [saver EXCEPT ![s] = r]
      /\ exposed' = exposed \cup IF others THEN {"overlap"} ELSE {}
  BY DEF Capture
<1>4. SnapshotShape(p) /\ p.nextV = g.store.nextV /\ p.nextE = g.store.nextE
  BY <1>2, SnapshotOfShape DEF EngineTyped, EngineShape
<1>. HIDE DEF p
<1>5. /\ r \in [pc : Saving \cup {"idle", "done"}, snap : {r.snap}, inode : Inodes \cup {None}]
      /\ r.pc = "create" /\ r.snap = p
  BY <1>2 DEF SaverTyped, Saving
<1>. HIDE DEF r, others
<1>6. /\ SaverTyped' /\ saver[s]' = r
      /\ \A t \in Savers : t # s => saver[t]' = saver[t]
  BY <1>2, <1>3, <1>4, <1>5, SaverMoves DEF Writing
<1>7. FilesTyped' /\ ExposedTyped'
  BY <1>1, <1>3 DEF DurInv, Typed, FilesTyped, ExposedTyped
<1>8. ASSUME "overlap" \notin exposed'
      PROVE  OneSaver'
  <2>1. OneSaver /\ ~others
    BY <1>2, <1>3, <1>8 DEF FilesSound
  <2>2. \A t \in Savers : t # s => saver[t].pc' \notin Saving
    BY <1>6, <2>1 DEF others, Saving
  <2>3. \A t \in Savers : saver[t].pc' \notin Writing \cup {"meta", "truncate"}
    BY <1>5, <1>6, <2>2 DEF Saving, Writing
  <2>. QED
    BY <1>1, <2>1, <2>2, <2>3 DEF OneSaver, Writing
<1>9. ASSUME exposed' \subseteq {"rounded", "ghost"}
      PROVE  IdsFresh'
  <2>1. IdsFresh /\ Lines' = Lines
    BY <1>1, <1>2, <1>3, <1>9 DEF FreshSound, Lines
  <2>2. ASSUME NEW v, NEW e, Covered(v, e)
        PROVE  Reaches(Lines', "add_vertex", v, high.v') /\ Reaches(Lines', "add_edge", e, high.e')
    BY <1>2, <2>1, <2>2 DEF Covered
  <2>3. Covered(p.nextV, p.nextE)
    BY <1>3, <1>4, <2>1 DEF IdsFresh, Covered, Reaches
  <2>4. ASSUME NEW t \in Savers, saver[t].pc' \in Saving
        PROVE  Covered(saver[t].snap.nextV, saver[t].snap.nextE)'
    <3>1. CASE t = s
      <4>1. saver[t].snap' = p
        BY <1>5, <1>6, <3>1
      <4>. QED
        BY <2>2, <2>3, <4>1 DEF Covered
    <3>2. CASE t # s
      <4>1. saver[t]' = saver[t]
        BY <1>6, <3>2
      <4>. QED
        BY <2>1, <2>2, <2>4, <4>1 DEF Covered, IdsFresh, Coverage
    <3>. QED
      BY <3>1, <3>2
  <2>5. Coverage'
    BY <1>1, <2>1, <2>2, <2>4 DEF Covered, IdsFresh, Coverage
  <2>. QED
    BY <1>2, <2>1, <2>5 DEF IdsFresh, Up
<1>. QED
  BY <1>2, <1>6, <1>7, <1>8, <1>9 DEF DurInv, Typed, FilesSound, FreshSound

(* There are more inodes than names and open files.                        *)
LEMMA FreeInode ==
    ASSUME FilesTyped, SaverTyped, dir.tmp = None
    PROVE  \E j \in Inodes : j \notin InUse
<1> DEFINE X == {saver[t].inode : t \in Savers}
           f == [t \in Savers |-> saver[t].inode]
           n == Cardinality(Savers)
<1>1. IsFiniteSet(Savers) /\ n \in Nat
  BY SaversAssumption, FS_CardinalityType
<1>2. IsFiniteSet(X) /\ Cardinality(X) =< n
  <2>1. f \in Surjection(Savers, X)
    BY DEF Surjection
  <2>. HIDE DEF f, X
  <2>. QED
    BY <1>1, <2>1, FS_Surjection
<1>3. Cardinality(X) \in Nat
  BY <1>2, FS_CardinalityType
<1>4. InUse = {None, dir.snap} \cup X
  BY DEF InUse
<1>. HIDE DEF X
<1>5. IsFiniteSet(X \cup {dir.snap}) /\ Cardinality(X \cup {dir.snap}) =< n + 1
  BY <1>1, <1>2, <1>3, FS_AddElement
<1>6. IsFiniteSet(Inodes) /\ Cardinality(Inodes) = n + 2
  BY <1>1, FS_Interval DEF Inodes
<1>7. CASE Inodes \subseteq X \cup {dir.snap}
  <2>1. Cardinality(Inodes) =< Cardinality(X \cup {dir.snap})
    BY <1>5, <1>7, FS_Subset
  <2>2. Cardinality(X \cup {dir.snap}) \in Nat
    BY <1>5, FS_CardinalityType
  <2>. QED
    BY <1>1, <1>5, <1>6, <2>1, <2>2
<1>. QED
  BY <1>4, <1>7, Constants

LEMMA CreateStep ==
    ASSUME DurInv, NEW s \in Savers, Create(s)
    PROVE  DurInv'
<1>1. SaveSteady /\ UNCHANGED <<log, walOpen, exposed>>
  BY DEF Create
<1>2. /\ EngineTyped /\ FilesTyped /\ SaverTyped /\ EngineTyped' /\ LogTyped' /\ ExposedTyped'
      /\ FilesSound /\ FreshSound
  BY <1>1, SaveKeeps
<1> DEFINE i == IF dir.tmp # None THEN dir.tmp ELSE CHOOSE j \in Inodes : j \notin InUse
           r == [saver[s] EXCEPT !.pc = "head", !.inode = i]
<1>3. /\ saver[s].pc = "create" /\ saver' = [saver EXCEPT ![s] = r]
      /\ files' = [files EXCEPT ![i] = NewFile] /\ dir' = [dir EXCEPT !.tmp = i]
  BY DEF Create
<1>4. i \in Inodes /\ (dir.tmp = None => i # dir.snap) /\ (dir.tmp # None => i = dir.tmp)
  <2>1. CASE dir.tmp = None
    <3>1. \E j \in Inodes : j \notin InUse
      BY <1>2, <2>1, FreeInode
    <3>2. i \in Inodes /\ i \notin InUse
      BY <2>1, <3>1
    <3>. QED
      BY <2>1, <3>2 DEF InUse
  <2>2. CASE dir.tmp # None
    BY <1>2, <2>2 DEF FilesTyped
  <2>. QED
    BY <2>1, <2>2
<1>. HIDE DEF i
<1>5. /\ r \in [pc : Saving \cup {"idle", "done"}, snap : {r.snap}, inode : Inodes \cup {None}]
      /\ r.pc = "head" /\ r.snap = saver[s].snap /\ r.inode = i
  BY <1>2, <1>4 DEF SaverTyped, Saving
<1>6. saver[s].pc \in Saving
  BY <1>3 DEF Saving
<1>. HIDE DEF r
<1>7. /\ SaverTyped' /\ saver[s]' = r
      /\ \A t \in Savers : t # s => saver[t]' = saver[t]
  <2>1. SnapshotShape(r.snap)
    BY <1>2, <1>5, <1>6 DEF SaverTyped
  <2>. QED
    BY <1>2, <1>3, <1>4, <1>5, <2>1, SaverMoves
<1>8. /\ DOMAIN files' = Inodes /\ files'[i] = NewFile /\ \A j \in Inodes : j # i => files'[j] = files[j]
      /\ dir' \in [tmp : Inodes \cup {None}, snap : Inodes \cup {None}]
      /\ dir.tmp' = i /\ dir.snap' = dir.snap
  BY <1>2, <1>3, <1>4 DEF FilesTyped
<1>9. FilesTyped'
  <2>1. ASSUME NEW j \in Inodes
        PROVE  /\ files'[j] \in [head : {files'[j].head}, rest : {files'[j].rest}]
               /\ HalfShape(files'[j].head) /\ HalfShape(files'[j].rest)
    <3>1. CASE j = i
      <4>1. /\ NewFile \in [head : {NewFile.head}, rest : {NewFile.rest}]
            /\ NewFile.head = Hole /\ NewFile.rest = Hole
        BY DEF NewFile
      <4>. QED
        BY <1>8, <3>1, <4>1 DEF HalfShape
    <3>2. CASE j # i
      BY <1>2, <1>8, <3>2 DEF FilesTyped
    <3>. QED
      BY <3>1, <3>2
  <2>. QED
    BY <1>8, <2>1 DEF FilesTyped, HalfShape
<1>10. OneSaver => (dir.snap # None => i # dir.snap /\ files'[dir.snap] = files[dir.snap])
  BY <1>2, <1>4, <1>8 DEF OneSaver, FilesTyped
<1>11. ASSUME OneSaver
       PROVE  OneSaver'
  <2>1. \A t \in Savers : t # s => saver[t].pc \notin Saving /\ saver[t].pc' \notin Saving
    BY <1>6, <1>7, <1>11 DEF OneSaver
  <2>2. \A t \in Savers : saver[t].pc' \in Saving => t = s
    BY <2>1
  <2>3. saver[s].pc' = "head" /\ saver[s].inode' = dir.tmp'
    BY <1>5, <1>7, <1>8
  <2>4. dir.snap' # None => Whole(files[dir.snap])' /\ dir.tmp' # dir.snap'
    BY <1>8, <1>10, <1>11 DEF OneSaver, Whole
  <2>5. Writing \subseteq Saving /\ {"rest", "rename", "meta", "truncate"} \subseteq Saving
    BY DEF Writing, Saving
  <2>. QED
    BY <2>2, <2>3, <2>4, <2>5 DEF OneSaver
<1>12. FreshSound'
  <2>1. ASSUME OneSaver, Coverage
        PROVE  Coverage'
    <3>1. Lines' = Lines /\ high' = high
      BY <1>1 DEF Lines, SaveSteady
    <3>2. \A t \in Savers : saver[t].pc' \in Saving =>
             saver[t].pc \in Saving /\ saver[t].snap' = saver[t].snap
      BY <1>5, <1>6, <1>7
    <3>3. dir.snap # None => (files[dir.snap].head)' = files[dir.snap].head
      BY <1>8, <1>10, <2>1
    <3>. QED
      BY <1>2, <1>8, <2>1, <3>1, <3>2, <3>3, CoverageKept
  <2>. QED
    BY <1>1, <2>1, FreshKept
<1>. QED
  BY <1>1, <1>2, <1>7, <1>9, <1>11, <1>12 DEF DurInv, Typed, FilesSound

LEMMA SnapshotIsNoHole ==
    ASSUME NEW p, SnapshotShape(p)
    PROVE  p # Hole
<1>1. "hole" \in DOMAIN Hole /\ "hole" \notin DOMAIN p
  BY DEF Hole, SnapshotShape
<1>. QED
  BY <1>1

(* A half of the file under the temporary name is written.                 *)
LEMMA HalfWritten ==
    ASSUME FilesTyped, NEW i \in Inodes, NEW p, SnapshotShape(p), UNCHANGED dir,
           \/ files' = [files EXCEPT ![i].head = p]
           \/ files' = [files EXCEPT ![i].rest = p]
    PROVE  /\ FilesTyped'
           /\ \A j \in Inodes : j # i => files'[j] = files[j]
           /\ files' = [files EXCEPT ![i].head = p] =>
                 files'[i].head = p /\ files'[i].rest = files[i].rest
           /\ files' = [files EXCEPT ![i].rest = p] =>
                 files'[i].rest = p /\ files'[i].head = files[i].head
<1>1. /\ DOMAIN files' = Inodes
      /\ \A j \in Inodes : j # i => files'[j] = files[j]
      /\ files' = [files EXCEPT ![i].head = p] => files'[i] = [files[i] EXCEPT !.head = p]
      /\ files' = [files EXCEPT ![i].rest = p] => files'[i] = [files[i] EXCEPT !.rest = p]
  BY DEF FilesTyped
<1>2. files[i] \in [head : {files[i].head}, rest : {files[i].rest}]
  BY DEF FilesTyped
<1>3. /\ files'[i] \in [head : {files'[i].head}, rest : {files'[i].rest}]
      /\ files' = [files EXCEPT ![i].head = p] =>
            files'[i].head = p /\ files'[i].rest = files[i].rest
      /\ files' = [files EXCEPT ![i].rest = p] =>
            files'[i].rest = p /\ files'[i].head = files[i].head
  BY <1>1, <1>2
<1>4. ASSUME NEW j \in Inodes
      PROVE  /\ files'[j] \in [head : {files'[j].head}, rest : {files'[j].rest}]
             /\ HalfShape(files'[j].head) /\ HalfShape(files'[j].rest)
  <2>1. CASE j = i
    BY <1>3, <2>1 DEF FilesTyped, HalfShape
  <2>2. CASE j # i
    BY <1>1, <2>2 DEF FilesTyped
  <2>. QED
    BY <2>1, <2>2
<1>5. FilesTyped'
  BY <1>1, <1>4 DEF FilesTyped, HalfShape
<1>. QED
  BY <1>1, <1>3, <1>5

LEMMA SteadyCoverage ==
    ASSUME DurInv, SaveSteady, EngineTyped', UNCHANGED log, Coverage, dir.snap' = dir.snap,
           dir.snap # None => (files[dir.snap].head)' = files[dir.snap].head,
           \A t \in Savers : saver[t].pc' \in Saving =>
               saver[t].pc \in Saving /\ saver[t].snap' = saver[t].snap
    PROVE  Coverage'
<1>1. Lines' = Lines /\ high' = high /\ EngineTyped
  BY DEF Lines, SaveSteady, DurInv, Typed
<1>. QED
  BY <1>1, CoverageKept

LEMMA WriteHeadStep ==
    ASSUME DurInv, NEW s \in Savers, WriteHead(s)
    PROVE  DurInv'
<1>1. SaveSteady /\ UNCHANGED <<log, dir, walOpen, exposed>>
  BY DEF WriteHead
<1>2. /\ EngineTyped /\ FilesTyped /\ SaverTyped /\ EngineTyped' /\ LogTyped' /\ ExposedTyped'
      /\ FilesSound /\ FreshSound
  BY <1>1, SaveKeeps
<1>3. "head" \in Saving /\ "head" \in Writing /\ "rest" \in Saving /\ "rest" \in Writing
  BY DEF Saving, Writing
<1>4. /\ SaverTyped' /\ saver[s].pc = "head" /\ saver[s].pc' = "rest"
      /\ saver[s].snap' = saver[s].snap /\ saver[s].inode' = saver[s].inode
      /\ \A t \in Savers : t # s => saver[t]' = saver[t]
  BY <1>2, <1>3, StepMoves DEF WriteHead
<1>5. saver[s].inode \in Inodes /\ SnapshotShape(saver[s].snap)
  BY <1>2, <1>3, <1>4 DEF SaverTyped
<1>6. files' = [files EXCEPT ![saver[s].inode].head = saver[s].snap]
  BY DEF WriteHead
<1>7. /\ FilesTyped' /\ \A j \in Inodes : j # saver[s].inode => files'[j] = files[j]
      /\ files'[saver[s].inode].head = saver[s].snap
  BY <1>1, <1>2, <1>5, <1>6, HalfWritten
<1>8. OneSaver => (dir.snap # None => files'[dir.snap] = files[dir.snap])
  BY <1>2, <1>3, <1>4, <1>7 DEF OneSaver, FilesTyped
<1>9. ASSUME OneSaver
      PROVE  OneSaver'
  <2>1. \A t \in Savers : saver[t].pc' \in Saving => t = s
    BY <1>3, <1>4, <1>9 DEF OneSaver
  <2>2. saver[s].inode' = dir.tmp'
    BY <1>1, <1>3, <1>4, <1>9 DEF OneSaver
  <2>3. dir.snap' # None => Whole(files[dir.snap])' /\ dir.tmp' # dir.snap'
    BY <1>1, <1>8, <1>9 DEF OneSaver, Whole
  <2>4. Writing \subseteq Saving /\ {"rest", "rename", "meta", "truncate"} \subseteq Saving
    BY DEF Writing, Saving
  <2>5. (files[saver[s].inode].head)' = saver[s].snap'
    BY <1>4, <1>7
  <2>. QED
    BY <1>4, <2>1, <2>2, <2>3, <2>4, <2>5 DEF OneSaver
<1>10. FreshSound'
  <2>1. OneSaver => (Coverage => Coverage')
    BY <1>1, <1>2, <1>3, <1>4, <1>8, SteadyCoverage
  <2>. QED
    BY <1>1, <2>1, FreshKept
<1>. QED
  BY <1>1, <1>2, <1>4, <1>7, <1>9, <1>10 DEF DurInv, Typed, FilesSound

LEMMA WriteRestStep ==
    ASSUME DurInv, NEW s \in Savers, WriteRest(s)
    PROVE  DurInv'
<1>1. SaveSteady /\ UNCHANGED <<log, dir, walOpen, exposed>>
  BY DEF WriteRest
<1>2. /\ EngineTyped /\ FilesTyped /\ SaverTyped /\ EngineTyped' /\ LogTyped' /\ ExposedTyped'
      /\ FilesSound /\ FreshSound
  BY <1>1, SaveKeeps
<1>3. "rest" \in Saving /\ "rest" \in Writing /\ "rename" \in Saving /\ "rename" \in Writing
  BY DEF Saving, Writing
<1>4. /\ SaverTyped' /\ saver[s].pc = "rest" /\ saver[s].pc' = "rename"
      /\ saver[s].snap' = saver[s].snap /\ saver[s].inode' = saver[s].inode
      /\ \A t \in Savers : t # s => saver[t]' = saver[t]
  BY <1>2, <1>3, StepMoves DEF WriteRest
<1>5. saver[s].inode \in Inodes /\ SnapshotShape(saver[s].snap)
  BY <1>2, <1>3, <1>4 DEF SaverTyped
<1>6. files' = [files EXCEPT ![saver[s].inode].rest = saver[s].snap]
  BY DEF WriteRest
<1>7. /\ FilesTyped' /\ \A j \in Inodes : j # saver[s].inode => files'[j] = files[j]
      /\ files'[saver[s].inode].rest = saver[s].snap
      /\ files'[saver[s].inode].head = files[saver[s].inode].head
  BY <1>1, <1>2, <1>5, <1>6, HalfWritten
<1>8. OneSaver => (dir.snap # None => files'[dir.snap] = files[dir.snap])
  BY <1>2, <1>3, <1>4, <1>7 DEF OneSaver, FilesTyped
<1>9. ASSUME OneSaver
      PROVE  OneSaver'
  <2>1. \A t \in Savers : saver[t].pc' \in Saving => t = s
    BY <1>3, <1>4, <1>9 DEF OneSaver
  <2>2. saver[s].inode' = dir.tmp'
    BY <1>1, <1>3, <1>4, <1>9 DEF OneSaver
  <2>3. dir.snap' # None => Whole(files[dir.snap])' /\ dir.tmp' # dir.snap'
    BY <1>1, <1>8, <1>9 DEF OneSaver, Whole
  <2>4. Writing \subseteq Saving /\ {"rest", "rename", "meta", "truncate"} \subseteq Saving
    BY DEF Writing, Saving
  <2>5. /\ (files[saver[s].inode].head)' = saver[s].snap'
        /\ (files[saver[s].inode].rest)' = saver[s].snap'
    BY <1>4, <1>7, <1>9 DEF OneSaver
  <2>. QED
    BY <1>4, <2>1, <2>2, <2>3, <2>4, <2>5 DEF OneSaver
<1>10. FreshSound'
  <2>1. OneSaver => (Coverage => Coverage')
    BY <1>1, <1>2, <1>3, <1>4, <1>8, SteadyCoverage
  <2>. QED
    BY <1>1, <2>1, FreshKept
<1>. QED
  BY <1>1, <1>2, <1>4, <1>7, <1>9, <1>10 DEF DurInv, Typed, FilesSound

(* A save that ends without touching files or log.                         *)
LEMMA EndOfSave ==
    ASSUME DurInv, NEW s \in Savers, saver[s].pc \in Saving, SaveSteady, Finish(s),
           UNCHANGED <<log, files, walOpen, exposed>>, dir' \in {dir, [dir EXCEPT !.tmp = None]}
    PROVE  DurInv'
<1>1. /\ EngineTyped /\ FilesTyped /\ SaverTyped /\ EngineTyped' /\ LogTyped' /\ ExposedTyped'
      /\ FilesSound /\ FreshSound
  BY SaveKeeps
<1>2. /\ SaverTyped' /\ saver[s].pc' \notin Saving
      /\ \A t \in Savers : t # s => saver[t]' = saver[t]
  BY <1>1, FinishMoves
<1>3. /\ FilesTyped' /\ dir.snap' = dir.snap /\ dir.tmp' \in {dir.tmp, None}
  BY <1>1 DEF FilesTyped
<1>4. ASSUME OneSaver
      PROVE  OneSaver'
  <2>1. \A t \in Savers : saver[t].pc' \notin Saving
    BY <1>2, <1>4 DEF OneSaver
  <2>2. Writing \subseteq Saving /\ {"rest", "rename", "meta", "truncate"} \subseteq Saving
    BY DEF Writing, Saving
  <2>3. dir.snap' # None => Whole(files[dir.snap])' /\ dir.tmp' # dir.snap'
    BY <1>3, <1>4 DEF OneSaver, Whole
  <2>. QED
    BY <2>1, <2>2, <2>3 DEF OneSaver
<1>5. FreshSound'
  <2>1. Coverage => Coverage'
    BY <1>1, <1>2, <1>3, SteadyCoverage
  <2>. QED
    BY <2>1, FreshKept
<1>. QED
  BY <1>1, <1>2, <1>3, <1>4, <1>5 DEF DurInv, Typed, FilesSound

LEMMA SaveFailsStep ==
    ASSUME DurInv, NEW s \in Savers, SaveFails(s)
    PROVE  DurInv'
<1>1. /\ SaveSteady /\ Finish(s) /\ UNCHANGED <<log, files, walOpen, exposed>>
      /\ dir' \in {dir, [dir EXCEPT !.tmp = None]} /\ saver[s].pc \in Saving
  BY DEF SaveFails, Saving
<1>. QED
  BY <1>1, EndOfSave

LEMMA RenameStep ==
    ASSUME DurInv, NEW s \in Savers, Rename(s)
    PROVE  DurInv'
<1>1. SaveSteady /\ UNCHANGED <<log, files, walOpen, exposed>>
  BY DEF Rename
<1>2. /\ EngineTyped /\ FilesTyped /\ SaverTyped /\ EngineTyped' /\ LogTyped' /\ ExposedTyped'
      /\ FilesSound /\ FreshSound
  BY <1>1, SaveKeeps
<1>3. "rename" \in Saving /\ "rename" \in Writing /\ "meta" \in Saving /\ "meta" \notin Writing
  BY DEF Saving, Writing
<1>4. CASE Finish(s) /\ saver[s].pc = "rename" /\ UNCHANGED dir
  BY <1>1, <1>3, <1>4, EndOfSave
<1>5. CASE dir.tmp # None /\ Step(s, "rename", "meta") /\ dir' = [tmp |-> None, snap |-> dir.tmp]
  <2>1. /\ SaverTyped' /\ saver[s].pc = "rename" /\ saver[s].pc' = "meta"
        /\ saver[s].snap' = saver[s].snap /\ saver[s].inode' = saver[s].inode
        /\ \A t \in Savers : t # s => saver[t]' = saver[t]
    BY <1>2, <1>3, <1>5, StepMoves
  <2>2. FilesTyped' /\ dir.snap' = dir.tmp /\ dir.tmp' = None /\ dir.snap' # None
    BY <1>1, <1>2, <1>5 DEF FilesTyped
  <2>3. SnapshotShape(saver[s].snap) /\ saver[s].snap # Hole
    BY <1>2, <1>3, <2>1, SnapshotIsNoHole DEF SaverTyped
  <2>4. OneSaver => (files[dir.snap].head)' = saver[s].snap /\ (files[dir.snap].rest)' = saver[s].snap
    BY <1>1, <1>3, <2>1, <2>2 DEF OneSaver
  <2>5. ASSUME OneSaver
        PROVE  OneSaver'
    <3>1. \A t \in Savers : saver[t].pc' \in Saving => t = s
      BY <1>3, <2>1, <2>5 DEF OneSaver
    <3>2. Whole(files[dir.snap])' /\ dir.tmp' # dir.snap'
      BY <2>2, <2>3, <2>4, <2>5 DEF Whole
    <3>3. dir.snap' # None /\ (files[dir.snap].head)' = saver[s].snap'
      BY <2>1, <2>2, <2>4, <2>5
    <3>4. Writing \subseteq Saving /\ {"rest", "rename", "meta", "truncate"} \subseteq Saving
      BY DEF Writing, Saving
    <3>. QED
      BY <1>3, <2>1, <3>1, <3>2, <3>3, <3>4 DEF OneSaver
  <2>6. ASSUME OneSaver, Coverage
        PROVE  Coverage'
    <3>1. Lines' = Lines /\ high' = high
      BY <1>1 DEF Lines, SaveSteady
    <3>2. Covered(saver[s].snap.nextV, saver[s].snap.nextE)
      BY <1>3, <2>1, <2>6 DEF Coverage
    <3>3. Covered(files[dir.snap].head.nextV, files[dir.snap].head.nextE)'
      BY <2>4, <2>6, <3>1, <3>2 DEF Covered
    <3>4. ASSUME NEW t \in Savers, saver[t].pc' \in Saving
          PROVE  Covered(saver[t].snap.nextV, saver[t].snap.nextE)'
      <4>1. saver[t].pc \in Saving /\ saver[t].snap' = saver[t].snap
        BY <1>3, <2>1, <3>4
      <4>. QED
        BY <2>6, <3>1, <4>1 DEF Covered, Coverage
    <3>. QED
      BY <2>2, <3>3, <3>4 DEF Coverage
  <2>7. FreshSound'
    BY <1>1, <2>6, FreshKept
  <2>. QED
    BY <1>1, <1>2, <2>1, <2>2, <2>5, <2>7 DEF DurInv, Typed, FilesSound
<1>. QED
  BY <1>4, <1>5 DEF Rename

LEMMA WriteMetaStep ==
    ASSUME DurInv, NEW s \in Savers, WriteMeta(s)
    PROVE  DurInv'
<1>1. SaveSteady /\ UNCHANGED <<log, files, dir, walOpen, exposed>> /\ saver[s].pc = "meta"
  BY DEF WriteMeta, disk
<1>2. /\ EngineTyped /\ FilesTyped /\ SaverTyped /\ EngineTyped' /\ LogTyped' /\ ExposedTyped'
      /\ FilesSound /\ FreshSound
  BY <1>1, SaveKeeps
<1>3. "meta" \in Saving /\ "truncate" \in Saving /\ "truncate" \notin Writing
  BY DEF Saving, Writing
<1>4. CASE Finish(s)
  BY <1>1, <1>3, <1>4, EndOfSave
<1>5. CASE Step(s, "meta", "truncate")
  <2>1. /\ SaverTyped' /\ saver[s].pc = "meta" /\ saver[s].pc' = "truncate"
        /\ saver[s].snap' = saver[s].snap /\ saver[s].inode' = saver[s].inode
        /\ \A t \in Savers : t # s => saver[t]' = saver[t]
    BY <1>2, <1>3, <1>5, StepMoves
  <2>2. FilesTyped'
    BY <1>1, <1>2 DEF FilesTyped
  <2>3. ASSUME OneSaver
        PROVE  OneSaver'
    <3>1. \A t \in Savers : saver[t].pc' \in Saving => t = s
      BY <1>3, <2>1, <2>3 DEF OneSaver
    <3>2. dir.snap' # None => Whole(files[dir.snap])' /\ dir.tmp' # dir.snap'
      BY <1>1, <2>3 DEF OneSaver, Whole
    <3>3. dir.snap' # None /\ (files[dir.snap].head)' = saver[s].snap'
      BY <1>1, <2>1, <2>3 DEF OneSaver
    <3>4. Writing \subseteq Saving /\ {"rest", "rename", "meta", "truncate"} \subseteq Saving
      BY DEF Writing, Saving
    <3>. QED
      BY <1>3, <2>1, <3>1, <3>2, <3>3, <3>4 DEF OneSaver
  <2>4. FreshSound'
    <3>1. Coverage => Coverage'
      BY <1>1, <1>2, <1>3, <2>1, SteadyCoverage
    <3>. QED
      BY <1>1, <3>1, FreshKept
  <2>. QED
    BY <1>1, <1>2, <2>1, <2>2, <2>3, <2>4 DEF DurInv, Typed, FilesSound
<1>. QED
  BY <1>4, <1>5 DEF WriteMeta

LEMMA TruncateStep ==
    ASSUME DurInv, NEW s \in Savers, Truncate(s)
    PROVE  DurInv'
<1>1. /\ SaveSteady /\ UNCHANGED <<files, dir>> /\ saver[s].pc = "truncate" /\ Finish(s)
  BY DEF Truncate
<1>2. /\ EngineTyped /\ FilesTyped /\ SaverTyped /\ EngineTyped'
      /\ FilesSound /\ FreshSound /\ UNCHANGED <<phase, g, pending, loader, high>>
  BY <1>1, SaveKeeps
<1>3. "truncate" \in Saving
  BY DEF Saving
<1>4. /\ SaverTyped' /\ saver[s].pc' \notin Saving
      /\ \A t \in Savers : t # s => saver[t]' = saver[t]
  BY <1>1, <1>2, FinishMoves
<1>5. FilesTyped'
  BY <1>1, <1>2 DEF FilesTyped
<1>6. OneSaver => \A t \in Savers : saver[t].pc' \notin Saving
  BY <1>1, <1>3, <1>4 DEF OneSaver
<1>7. ASSUME OneSaver
      PROVE  OneSaver'
  <2>1. Writing \subseteq Saving /\ {"rest", "rename", "meta", "truncate"} \subseteq Saving
    BY DEF Writing, Saving
  <2>2. dir.snap' # None => Whole(files[dir.snap])' /\ dir.tmp' # dir.snap'
    BY <1>1, <1>7 DEF OneSaver, Whole
  <2>. QED
    BY <1>6, <1>7, <2>1, <2>2 DEF OneSaver
<1>8. CASE UNCHANGED <<log, exposed>> /\ walOpen' = FALSE
  <2>1. LogTyped' /\ ExposedTyped'
    BY <1>8 DEF DurInv, Typed, LogTyped, ExposedTyped
  <2>2. Coverage => Coverage'
    BY <1>1, <1>2, <1>4, <1>8, SteadyCoverage
  <2>3. FreshSound'
    BY <1>1, <1>8, <2>2, FreshKept
  <2>. QED
    BY <1>2, <1>4, <1>5, <1>7, <1>8, <2>1, <2>3 DEF DurInv, Typed, FilesSound
<1>9. CASE /\ log' = EmptyLog /\ walOpen' = TRUE
           /\ exposed' = exposed \cup
                IF pending = None /\ saver[s].snap = S!SnapshotOf(g.store) THEN {} ELSE {"window"}
  <2>1. LogTyped' /\ ExposedTyped'
    BY <1>9 DEF DurInv, Typed, LogTyped, ExposedTyped, EmptyLog
  <2>2. ASSUME exposed' \subseteq {"rounded", "ghost"}
        PROVE  IdsFresh'
    <3>1. IdsFresh /\ OneSaver /\ pending = None /\ saver[s].snap = S!SnapshotOf(g.store)
      BY <1>2, <1>9, <2>2 DEF FreshSound, FilesSound
    <3>2. Lines' = {}
      <4>1. ScannedLines(log)' = <<>> /\ DOMAIN <<>> = {}
        BY <1>9 DEF EmptyLog, ScannedLines
      <4>. QED
        BY <4>1 DEF Lines, ToSet
    <3>3. dir.snap # None /\ files[dir.snap].head = saver[s].snap
      BY <1>1, <3>1 DEF OneSaver
    <3>4. saver[s].snap.nextV = g.store.nextV /\ saver[s].snap.nextE = g.store.nextE
      BY <3>1 DEF S!SnapshotOf
    <3>5. Up' => Coverage'
      <4>. SUFFICES ASSUME Up' PROVE Coverage'
        OBVIOUS
      <4>1. high.v < g.store.nextV /\ high.e < g.store.nextE
        BY <1>2, <3>1 DEF IdsFresh, Up
      <4>2. Covered(files[dir.snap].head.nextV, files[dir.snap].head.nextE)'
        BY <1>1, <1>2, <3>3, <3>4, <4>1 DEF Covered, Reaches
      <4>. QED
        BY <1>1, <1>6, <3>1, <3>3, <4>2 DEF Coverage
    <3>6. Up'
      BY <1>2 DEF Truncate, Up
    <3>. QED
      BY <1>2, <3>1, <3>2, <3>5, <3>6 DEF IdsFresh, Up
  <2>. QED
    BY <1>2, <1>4, <1>5, <1>7, <1>9, <2>1, <2>2 DEF DurInv, Typed, FilesSound, FreshSound
<1>. QED
  BY <1>8, <1>9 DEF Truncate

(***************************************************************************)
(* Loads, the signal, the end of a run and the next start.                 *)
(***************************************************************************)
LEMMA LoadReadStep ==
    ASSUME DurInv, LoadRead
    PROVE  DurInv'
<1>1. /\ EngineTyped /\ LogTyped /\ FilesTyped /\ SaverTyped /\ ExposedTyped /\ FilesSound /\ FreshSound
      /\ UNCHANGED <<phase, g, pending, log, files, dir, walOpen, saver, high, exposed>>
      /\ dir.snap # None /\ Whole(files[dir.snap]) /\ loader' = files[dir.snap].head
  BY DEF DurInv, Typed, LoadRead, disk
<1>2. SnapshotShape(loader')
  BY <1>1 DEF FilesTyped, HalfShape, Whole
<1>3. EngineTyped' /\ LogTyped' /\ ExposedTyped'
  BY <1>1, <1>2 DEF EngineTyped, LogTyped, ExposedTyped
<1>4. FilesTyped' /\ SaverTyped' /\ FilesSound'
  BY <1>1, FilesKept
<1>5. Coverage => Coverage'
  BY <1>1 DEF Coverage, Covered, Lines
<1>6. FreshSound'
  BY <1>1, <1>5 DEF FreshSound, IdsFresh, Lines, Up
<1>. QED
  BY <1>3, <1>4, <1>6 DEF DurInv, Typed

LEMMA LoadReplaceStep ==
    ASSUME DurInv, LoadReplace
    PROVE  DurInv'
<1>1. /\ EngineTyped /\ LogTyped /\ FilesTyped /\ SaverTyped /\ ExposedTyped /\ FilesSound
      /\ UNCHANGED <<phase, pending, log, files, dir, walOpen, saver, high>>
      /\ loader # None /\ pending = None /\ loader' = None
      /\ g' = (IF S!CanReset(loader) THEN LoadInto(loader) ELSE g)
      /\ exposed' = exposed \cup {"load"}
  BY DEF DurInv, Typed, LoadReplace, disk
<1>2. EngineShape(g')
  BY <1>1, LoadIntoShape DEF EngineTyped
<1>3. EngineTyped' /\ LogTyped' /\ ExposedTyped'
  BY <1>1, <1>2 DEF EngineTyped, LogTyped, ExposedTyped
<1>4. FilesTyped' /\ SaverTyped' /\ FilesSound'
  BY <1>1, FilesKept
<1>5. FreshSound'
  BY <1>1 DEF FreshSound
<1>. QED
  BY <1>3, <1>4, <1>5 DEF DurInv, Typed

LEMMA SignalStep ==
    ASSUME DurInv, Signal
    PROVE  DurInv'
<1>1. /\ EngineTyped /\ LogTyped /\ FilesTyped /\ SaverTyped /\ ExposedTyped /\ FilesSound /\ FreshSound
      /\ UNCHANGED <<g, pending, log, files, dir, walOpen, saver, loader, high, exposed>>
      /\ phase = "serving" /\ phase' = "closing"
  BY DEF DurInv, Typed, Signal, disk
<1>2. EngineTyped' /\ LogTyped' /\ ExposedTyped'
  BY <1>1 DEF EngineTyped, LogTyped, ExposedTyped
<1>3. FilesTyped' /\ SaverTyped' /\ FilesSound'
  BY <1>1, FilesKept
<1>4. Coverage => Coverage'
  BY <1>1 DEF Coverage, Covered, Lines
<1>5. FreshSound'
  BY <1>1, <1>4 DEF FreshSound, IdsFresh, Lines, Up
<1>. QED
  BY <1>2, <1>3, <1>5 DEF DurInv, Typed

(* The end of a run clears what was in memory.                             *)
LEMMA DownKeeps ==
    ASSUME DurInv, NEW why \in {"stopped", "crashed"}, Down(why), exposed \subseteq exposed'
    PROVE  /\ FilesTyped' /\ SaverTyped' /\ FilesSound' /\ phase' = why /\ ~Up'
           /\ loader' = None /\ walOpen' = FALSE /\ UNCHANGED <<g, high>>
           /\ (EngineTyped' /\ Lines \subseteq Lines') => (Coverage => Coverage')
<1>1. EngineTyped /\ FilesTyped /\ SaverTyped /\ FilesSound
  BY DEF DurInv, Typed
<1>2. /\ phase' = why /\ loader' = None /\ walOpen' = FALSE /\ UNCHANGED <<g, files, dir, high>>
      /\ saver' = [s \in Savers |-> Idle]
  BY DEF Down
<1>3. /\ Idle \in [pc : {"idle"}, snap : {Idle.snap}, inode : {None}] /\ Idle.pc = "idle"
      /\ "idle" \notin Saving /\ "idle" \notin Writing
  BY DEF Idle, Saving, Writing
<1>4. /\ DOMAIN saver' = Savers /\ \A s \in Savers : saver'[s] = Idle
  BY <1>2
<1>5. SaverTyped' /\ \A s \in Savers : saver[s].pc' = "idle"
  BY <1>3, <1>4 DEF SaverTyped
<1>6. FilesTyped'
  BY <1>1, <1>2 DEF FilesTyped
<1>7. OneSaver => OneSaver'
  BY <1>2, <1>3, <1>5 DEF OneSaver, Whole
<1>8. FilesSound'
  BY <1>1, <1>7 DEF FilesSound
<1>9. ~Up'
  BY <1>2 DEF Up
<1>10. ASSUME EngineTyped', Lines \subseteq Lines', Coverage
       PROVE  Coverage'
  <2>1. \A s \in Savers : saver[s].pc' \notin Saving
    BY <1>3, <1>5
  <2>. QED
    BY <1>1, <1>2, <1>10, <2>1, CoverageKept
<1>. QED
  BY <1>2, <1>5, <1>6, <1>8, <1>9, <1>10

LEMMA StopStep ==
    ASSUME DurInv, Stop
    PROVE  DurInv'
<1>1. /\ EngineTyped /\ LogTyped /\ ExposedTyped /\ FreshSound
      /\ Down("stopped") /\ UNCHANGED <<pending, log, exposed>>
  BY DEF DurInv, Typed, Stop
<1>2. /\ FilesTyped' /\ SaverTyped' /\ FilesSound' /\ phase' = "stopped" /\ ~Up'
      /\ loader' = None /\ walOpen' = FALSE /\ UNCHANGED <<g, high>>
      /\ (EngineTyped' /\ Lines \subseteq Lines') => (Coverage => Coverage')
  BY <1>1, DownKeeps
<1>3. EngineTyped' /\ LogTyped' /\ ExposedTyped' /\ Lines' = Lines
  BY <1>1, <1>2 DEF EngineTyped, LogTyped, ExposedTyped, Lines
<1>4. FreshSound'
  BY <1>1, <1>2, <1>3 DEF FreshSound, IdsFresh
<1>. QED
  BY <1>2, <1>3, <1>4 DEF DurInv, Typed

LEMMA CrashStep ==
    ASSUME DurInv, Crash
    PROVE  DurInv'
<1>1. /\ EngineTyped /\ LogTyped /\ ExposedTyped /\ FreshSound /\ Down("crashed")
  BY DEF DurInv, Typed, Crash
<1>2. \/ UNCHANGED <<pending, log, exposed>>
      \/ /\ \E fragment \in {Partial, Overlong} : log' = AppendFragment(log, fragment)
         /\ exposed' = exposed \cup Spoiled \cup Outgrown(log') /\ UNCHANGED pending
      \/ \E rec \in Requests :
            /\ log' = AppendFragment(log, rec) /\ pending' = rec /\ log.tail = None
            /\ UNCHANGED exposed
  BY DEF Crash
<1>3. exposed \subseteq exposed' /\ ExposedTyped'
  BY <1>1, <1>2, HiddenFacts DEF ExposedTyped
<1>4. /\ FilesTyped' /\ SaverTyped' /\ FilesSound' /\ phase' = "crashed" /\ ~Up'
      /\ loader' = None /\ walOpen' = FALSE /\ UNCHANGED <<g, high>>
      /\ (EngineTyped' /\ Lines \subseteq Lines') => (Coverage => Coverage')
  BY <1>1, <1>3, DownKeeps
<1>5. /\ pending' \in Records \cup {None}
      /\ pending' # None /\ pending'.op = "update_vertex" => pending'.id \in DOMAIN g.store.vertices
      /\ log' \in LogType
      /\ "torn" \notin exposed' =>
            Lines \subseteq Lines' /\ (pending' = pending \/ pending' \in Lines')
      /\ {"torn", "long"} \cap exposed' = {} => Lines' \subseteq Lines \cup Records
  <2>1. CASE UNCHANGED <<pending, log, exposed>>
    BY <1>1, <2>1 DEF EngineTyped, LogTyped, LogType, Lines
  <2>2. ASSUME NEW fragment \in {Partial, Overlong}, log' = AppendFragment(log, fragment),
               exposed' = exposed \cup Spoiled \cup Outgrown(log'), UNCHANGED pending
        PROVE  <1>5!:
    BY <1>1, <2>2, AppendFragmentFacts, HiddenFacts DEF EngineTyped, Lines
  <2>3. ASSUME NEW rec \in Requests, log' = AppendFragment(log, rec), pending' = rec,
               log.tail = None
        PROVE  <1>5!:
    <3>1. rec \in Records /\ (rec.op = "update_vertex" => rec.id \in DOMAIN g.store.vertices)
      BY <1>1, RequestFacts DEF EngineTyped
    <3>2. AppendFragment(log, rec).tail # Overlong
      BY <2>3, <3>1, RecordFacts DEF AppendFragment, LogTyped
    <3>. QED
      BY <1>1, <2>3, <3>1, <3>2, AppendFragmentFacts DEF Lines
  <2>. QED
    BY <1>2, <2>1, <2>2, <2>3
<1>6. EngineTyped' /\ LogTyped'
  BY <1>1, <1>4, <1>5 DEF EngineTyped, LogTyped, LogType
<1>7. ASSUME exposed' \subseteq {"rounded", "ghost"}
      PROVE  IdsFresh'
  <2>1. IdsFresh /\ {"torn", "long"} \cap exposed' = {}
    BY <1>1, <1>3, <1>7 DEF FreshSound
  <2>2. Bad \notin Lines' /\ Overlong \notin Lines'
    BY <1>5, <2>1, BadIsNoRecord DEF IdsFresh
  <2>. QED
    BY <1>4, <1>5, <1>6, <2>1, <2>2 DEF IdsFresh
<1>. QED
  BY <1>3, <1>4, <1>6, <1>7 DEF DurInv, Typed, FreshSound

LEMMA RestartStep ==
    ASSUME DurInv, Restart
    PROVE  DurInv'
<1>1. /\ Typed /\ EngineTyped /\ LogTyped /\ FilesTyped /\ SaverTyped /\ ExposedTyped
      /\ FilesSound /\ FreshSound /\ UNCHANGED <<log, files, dir, saver, loader, exposed>>
  BY DEF DurInv, Typed, Restart, disk
<1>2. FilesTyped' /\ SaverTyped' /\ FilesSound'
  BY <1>1, FilesKept
<1>3. ExposedTyped' /\ Lines' = Lines
  BY <1>1 DEF ExposedTyped, Lines
<1>4. CASE ~Recovered.ok
  <2>1. phase' = "refused" /\ UNCHANGED <<walOpen, g, pending, high>>
    BY <1>4 DEF Restart
  <2>2. EngineTyped' /\ LogTyped' /\ ~Up'
    BY <1>1, <2>1 DEF EngineTyped, LogTyped, Up
  <2>3. Coverage => Coverage'
    BY <1>1, <1>3, <2>1 DEF Coverage, Covered
  <2>4. FreshSound'
    BY <1>1, <1>3, <2>1, <2>2, <2>3 DEF FreshSound, IdsFresh
  <2>. QED
    BY <1>2, <1>3, <2>2, <2>4 DEF DurInv, Typed
<1>5. CASE Recovered.ok
  <2>1. /\ phase' = "serving" /\ walOpen' = TRUE /\ g' = Recovered.g /\ pending' = None
        /\ IF pending # None THEN Mark(pending) ELSE UNCHANGED high
    BY <1>5 DEF Restart
  <2>2. /\ EngineShape(g')
        /\ IdsFresh => /\ high.v < g'.store.nextV /\ high.e < g'.store.nextE
                       /\ PastLines(g', ScannedLines(log))
    BY <1>1, <1>5, <2>1, RecoveredShape
  <2>3. /\ high' \in [v : Nat, e : Nat]
        /\ high.v' = IF pending # None /\ pending.op = "add_vertex" THEN pending.id ELSE high.v
        /\ high.e' = IF pending # None /\ pending.op = "add_edge" THEN pending.id ELSE high.e
    <3>1. CASE pending = None
      BY <1>1, <2>1, <3>1 DEF EngineTyped
    <3>2. CASE pending # None
      <4>1. pending \in Records /\ Mark(pending) /\ high \in [v : Nat, e : Nat]
        BY <1>1, <2>1, <3>2 DEF EngineTyped
      <4>. QED
        BY <3>2, <4>1, MarkFacts
    <3>. QED
      BY <3>1, <3>2
  <2>4. EngineTyped' /\ LogTyped'
    BY <1>1, <2>1, <2>2, <2>3 DEF EngineTyped, LogTyped
  <2>5. ASSUME exposed' \subseteq {"rounded", "ghost"}
        PROVE  IdsFresh'
    <3>1. IdsFresh /\ (pending # None => pending \in Lines)
      BY <1>1, <2>5 DEF FreshSound, IdsFresh
    <3>2. Coverage'
      BY <1>1, <1>3, <2>3, <2>4, <3>1, CoverageKept DEF IdsFresh
    <3>3. high.v' < g.store.nextV' /\ high.e' < g.store.nextE'
      BY <2>2, <2>3, <3>1 DEF PastLines, Lines
    <3>. QED
      BY <1>3, <2>1, <3>1, <3>2, <3>3 DEF IdsFresh
  <2>. QED
    BY <1>2, <1>3, <2>4, <2>5 DEF DurInv, Typed, FreshSound
<1>. QED
  BY <1>4, <1>5

LEMMA NextStep == DurInv /\ [Next]_vars => DurInv'
<1>. SUFFICES ASSUME DurInv, [Next]_vars PROVE DurInv'
  OBVIOUS
<1>1. CASE \E rec \in Requests : Log(rec) \/ LogFails(rec) \/ WriteUnlogged(rec)
  BY <1>1, LogStep, LogFailsStep, WriteUnloggedStep
<1>2. CASE Store
  BY <1>2, StoreStep
<1>3. CASE \E s \in Savers : Capture(s)
  BY <1>3, CaptureStep
<1>4. CASE \E s \in Savers : SaveStep(s)
  BY <1>4, CreateStep, WriteHeadStep, WriteRestStep, SaveFailsStep, RenameStep, WriteMetaStep,
     TruncateStep DEF SaveStep
<1>5. CASE LoadRead \/ LoadReplace
  BY <1>5, LoadReadStep, LoadReplaceStep
<1>6. CASE Signal \/ Stop \/ Crash \/ Restart
  BY <1>6, SignalStep, StopStep, CrashStep, RestartStep
<1>7. CASE UNCHANGED vars
  <2>1. /\ EngineTyped /\ LogTyped /\ FilesTyped /\ SaverTyped /\ ExposedTyped /\ FilesSound /\ FreshSound
        /\ UNCHANGED <<phase, g, pending, log, walOpen, files, dir, saver, loader, high, exposed>>
    BY <1>7 DEF DurInv, Typed, vars
  <2>2. EngineTyped' /\ LogTyped' /\ ExposedTyped'
    BY <2>1 DEF EngineTyped, LogTyped, ExposedTyped
  <2>3. FilesTyped' /\ SaverTyped' /\ FilesSound'
    BY <2>1, FilesKept
  <2>4. Coverage => Coverage'
    BY <2>1 DEF Coverage, Covered, Lines
  <2>5. FreshSound'
    BY <2>1, <2>4 DEF FreshSound, IdsFresh, Lines, Up
  <2>. QED
    BY <2>2, <2>3, <2>5 DEF DurInv, Typed
<1>. QED
  BY <1>1, <1>2, <1>3, <1>4, <1>5, <1>6, <1>7 DEF Next

(* DurInv holds in every reachable state, for all bounds, contents, savers *)
(* and failing calls (wal.go:27-104, persistence.go:20-59, main.go:28-83). *)
THEOREM Inductive == Spec => []DurInv
<1>1. Init => DurInv
  BY InitInv
<1>2. DurInv /\ [Next]_vars => DurInv'
  BY NextStep
<1>. QED
  BY <1>1, <1>2, PTL DEF Spec

(* Every variable has its type: no saver, no replay and no crash takes an  *)
(* identifier, an inode or a record out of its range (wal.go:73-104).      *)
THEOREM TypeCorrect == Spec => []TypeOK
<1>1. DurInv => TypeOK
  <2>. SUFFICES ASSUME DurInv PROVE TypeOK
    OBVIOUS
  <2>1. EngineTyped /\ LogTyped /\ FilesTyped /\ SaverTyped /\ ExposedTyped
    BY DEF DurInv, Typed
  <2>2. /\ g.vIds \in 1..(MaxVertexId + 1) /\ g.eIds \in 1..(MaxEdgeId + 1)
        /\ DOMAIN g.store.vertices \subseteq VertexIds /\ DOMAIN g.store.edges \subseteq EdgeIds
    BY <2>1, EngineFields DEF EngineTyped, EngineShape
  <2>3. pending = None \/ pending.id \in VertexIds \cup EdgeIds
    BY <2>1, RecordFacts DEF EngineTyped
  <2>4. /\ {dir.tmp, dir.snap} \subseteq Inodes \cup {None}
        /\ \A s \in Savers : saver[s].inode \in Inodes \cup {None}
    BY <2>1 DEF FilesTyped, SaverTyped
  <2>. QED
    BY <2>1, <2>2, <2>3, <2>4 DEF TypeOK, EngineTyped, LogTyped, ExposedTyped
<1>. QED
  BY <1>1, Inductive, PTL

(* The file named snapshot.gdb is one complete snapshot at any moment,     *)
(* whatever system call failed and wherever the program died, as long as   *)
(* no Persistence.Save began while another was going on                    *)
(* (persistence.go:28-35).                                                 *)
THEOREM WholeSnapshot == Spec => []WholeWithoutOverlap
<1>1. DurInv => WholeWithoutOverlap
  BY DEF DurInv, FilesSound, OneSaver, WholeWithoutOverlap, SnapshotWhole
<1>. QED
  BY <1>1, Inductive, PTL

(* With the ticker as the only caller of Save, saves never overlap and the *)
(* file is whole without further condition (main.go:48-55).                *)
THEOREM OneSaverWhole ==
    ASSUME \A s, t \in Savers : s = t
    PROVE  Spec => []SnapshotWhole
<1> DEFINE Alone == "overlap" \notin exposed
<1>1. Init => Alone
  BY DEF Init
<1>2. Alone /\ [Next]_vars => Alone'
  <2>. SUFFICES ASSUME Alone, [Next]_vars PROVE Alone'
    OBVIOUS
  <2>1. ASSUME NEW rec \in Requests, Log(rec) \/ LogFails(rec) \/ WriteUnlogged(rec)
        PROVE  Alone'
    BY <2>1, HiddenFacts DEF Log, LogFails, WriteUnlogged
  <2>2. ASSUME NEW s \in Savers, Capture(s)
        PROVE  Alone'
    <3>1. \A t \in Savers : saver[t].pc = "idle"
      BY <2>2 DEF Capture
    <3>. QED
      BY <2>2, <3>1 DEF Capture
  <2>3. ASSUME NEW s \in Savers, SaveStep(s)
        PROVE  Alone'
    BY <2>3 DEF SaveStep, Create, WriteHead, WriteRest, SaveFails, Rename, WriteMeta, Truncate
  <2>4. CASE Crash
    BY <2>4, HiddenFacts DEF Crash
  <2>5. CASE Store \/ LoadRead \/ LoadReplace \/ Signal \/ Stop \/ Restart \/ UNCHANGED vars
    BY <2>5 DEF Store, LoadRead, LoadReplace, Signal, Stop, Restart, vars
  <2>. QED
    BY <2>1, <2>2, <2>3, <2>4, <2>5 DEF Next
<1>3. DurInv /\ Alone => SnapshotWhole
  BY DEF DurInv, FilesSound, OneSaver, SnapshotWhole
<1>. QED
  BY <1>1, <1>2, <1>3, Inductive, PTL DEF Spec

(* The identifiers of stored elements, of deleted ones too, are not handed *)
(* out again by a program that starts from what is on disk, wherever the   *)
(* one before it died: the counters of the snapshot and the records of the *)
(* log reach past them together, at every step of a save                   *)
(* (id.go:32, wal.go:73-104, persistence.go:55-59).                        *)
THEOREM FreshAfterRestart == Spec => []RecoveredIdsFresh
<1>1. DurInv => RecoveredIdsFresh
  <2>. SUFFICES ASSUME DurInv, exposed \subseteq {"rounded", "ghost"}, Recovered.ok
                PROVE  Recovered.g.vIds > high.v /\ Recovered.g.eIds > high.e
    BY DEF RecoveredIdsFresh
  <2>1. Typed /\ IdsFresh /\ high.v \in Nat /\ high.e \in Nat
    BY DEF DurInv, Typed, FreshSound, EngineTyped
  <2>2. /\ EngineShape(Recovered.g)
        /\ high.v < Recovered.g.store.nextV /\ high.e < Recovered.g.store.nextE
    BY <2>1, RecoveredShape
  <2>3. /\ Recovered.g.store.nextV \in Nat /\ Recovered.g.vIds \in Nat
        /\ Recovered.g.store.nextV =< Recovered.g.vIds
        /\ Recovered.g.store.nextE \in Nat /\ Recovered.g.eIds \in Nat
        /\ Recovered.g.store.nextE =< Recovered.g.eIds
    BY <2>2, EngineFields
  <2>. QED
    BY <2>1, <2>2, <2>3
<1>. QED
  BY <1>1, Inductive, PTL

-----------------------------------------------------------------------------
(***************************************************************************)
(* No data lost.  Two stores with the same content differ in their next    *)
(* identifiers at most.  A store is Exact when its adjacency maps are the  *)
(* projections of its edges and no edge lacks an endpoint: that is what    *)
(* makes a deleted vertex take exactly its edges along.                    *)
(***************************************************************************)
SameContent(t, u) == t.vertices = u.vertices /\ t.edges = u.edges

Maps(t) ==
    /\ t.vertices = [x \in DOMAIN t.vertices |-> t.vertices[x]]
    /\ t.edges = [x \in DOMAIN t.edges |-> t.edges[x]]

Exact(t) ==
    /\ Maps(t)
    /\ DOMAIN t.out = DOMAIN t.vertices /\ DOMAIN t.in = DOMAIN t.vertices
    /\ \A v \in DOMAIN t.vertices :
          /\ t.out[v] = {e \in DOMAIN t.edges : t.edges[e].from = v}
          /\ t.in[v] = {e \in DOMAIN t.edges : t.edges[e].to = v}
    /\ S!CanReset(t)

Incident(t, v) == {e \in DOMAIN t.edges : v \in {t.edges[e].from, t.edges[e].to}}

(* A record that changes t, one that cannot be replayed onto t, and what   *)
(* the change comes to.                                                    *)
Fits(r, t) ==
    /\ r.op = "add_vertex" => r.id \notin DOMAIN t.vertices
    /\ r.op \in {"update_vertex", "delete_vertex"} => r.id \in DOMAIN t.vertices
    /\ r.op = "add_edge" => r.id \notin DOMAIN t.edges /\ {r.edge.from, r.edge.to} \subseteq DOMAIN t.vertices
    /\ r.op = "delete_edge" => r.id \in DOMAIN t.edges

Misfits(r, t) ==
    \/ r.op = "update_vertex" /\ r.id \notin DOMAIN t.vertices
    \/ /\ r.op = "add_edge" /\ r.id \notin DOMAIN t.edges
       /\ ~({r.edge.from, r.edge.to} \subseteq DOMAIN t.vertices)

Effect(r, t, u) ==
    /\ r.op \in {"add_vertex", "update_vertex"} =>
          u.vertices = S!Put(t.vertices, r.id, r.vertex) /\ u.edges = t.edges
    /\ r.op = "delete_vertex" =>
          u.vertices = S!Without(t.vertices, {r.id}) /\ u.edges = S!Without(t.edges, Incident(t, r.id))
    /\ r.op = "add_edge" => u.vertices = t.vertices /\ u.edges = S!Put(t.edges, r.id, r.edge)
    /\ r.op = "delete_edge" => u.vertices = t.vertices /\ u.edges = S!Without(t.edges, {r.id})

LEMMA EffectAgrees ==
    ASSUME NEW r \in Records, NEW t, NEW u, SameContent(t, u), NEW t2, NEW u2,
           Effect(r, t, t2), Effect(r, u, u2)
    PROVE  SameContent(t2, u2)
<1>1. Incident(t, r.id) = Incident(u, r.id)
  BY DEF Incident, SameContent
<1>. QED
  BY <1>1, RecordFacts DEF SameContent, Effect

LEMMA FitsAgrees ==
    ASSUME NEW r, NEW t, NEW u, SameContent(t, u)
    PROVE  Fits(r, t) = Fits(r, u) /\ Misfits(r, t) = Misfits(r, u)
BY DEF SameContent, Fits, Misfits

LEMMA AddVertexExact ==
    ASSUME NEW t, IsStore(t), Exact(t), NEW id, id \notin DOMAIN t.vertices, NEW v
    PROVE  Exact(S!AddVertex(t, id, v))
<1> DEFINE x == S!AddVertex(t, id, v)
<1>1. /\ x.vertices = S!Put(t.vertices, id, v) /\ x.edges = t.edges
      /\ x.out = S!Put(t.out, id, {}) /\ x.in = S!Put(t.in, id, {})
  BY DEF IsStore, S!AddVertex
<1>. HIDE DEF x
<1>2. \A e \in DOMAIN t.edges : t.edges[e].from # id /\ t.edges[e].to # id
  BY DEF Exact, S!CanReset
<1>3. ASSUME NEW w \in DOMAIN x.vertices
      PROVE  /\ x.out[w] = {e \in DOMAIN x.edges : x.edges[e].from = w}
             /\ x.in[w] = {e \in DOMAIN x.edges : x.edges[e].to = w}
  <2>1. CASE w = id
    BY <1>1, <1>2, <2>1 DEF S!Put
  <2>2. CASE w # id
    <3>1. w \in DOMAIN t.vertices /\ w \in DOMAIN t.out /\ w \in DOMAIN t.in
      BY <1>1, <2>2 DEF S!Put, Exact
    <3>2. x.out[w] = t.out[w] /\ x.in[w] = t.in[w]
      BY <1>1, <2>2, <3>1 DEF S!Put
    <3>. QED
      BY <1>1, <3>1, <3>2 DEF Exact
  <2>. QED
    BY <2>1, <2>2
<1>4. DOMAIN x.out = DOMAIN x.vertices /\ DOMAIN x.in = DOMAIN x.vertices /\ S!CanReset(x)
  BY <1>1 DEF S!Put, Exact, S!CanReset
<1>5. Maps(x)
  BY <1>1 DEF S!Put, Exact, Maps
<1>. QED
  BY <1>3, <1>4, <1>5 DEF Exact, x

LEMMA UpdateVertexExact ==
    ASSUME NEW t, IsStore(t), Exact(t), NEW id \in DOMAIN t.vertices, NEW v
    PROVE  Exact(S!UpdateVertex(t, id, v))
<1> DEFINE x == S!UpdateVertex(t, id, v)
<1>1. x.vertices = S!Put(t.vertices, id, v) /\ x.edges = t.edges /\ x.out = t.out /\ x.in = t.in
  BY DEF IsStore, S!UpdateVertex
<1>. HIDE DEF x
<1>2. DOMAIN x.vertices = DOMAIN t.vertices
  BY <1>1 DEF S!Put
<1>3. Maps(x)
  BY <1>1 DEF S!Put, Exact, Maps
<1>. QED
  BY <1>1, <1>2, <1>3 DEF Exact, S!CanReset, x

LEMMA AddEdgeExact ==
    ASSUME NEW t, IsStore(t), Exact(t), NEW id, id \notin DOMAIN t.edges,
           NEW e, {e.from, e.to} \subseteq DOMAIN t.vertices
    PROVE  Exact(S!AddEdge(t, id, e))
<1> DEFINE x == S!AddEdge(t, id, e)
<1>1. /\ x.vertices = t.vertices /\ x.edges = S!Put(t.edges, id, e)
      /\ x.out = [t.out EXCEPT ![e.from] = t.out[e.from] \cup {id}]
      /\ x.in = [t.in EXCEPT ![e.to] = t.in[e.to] \cup {id}]
  BY DEF IsStore, S!AddEdge
<1>. HIDE DEF x
<1>2. /\ DOMAIN x.edges = DOMAIN t.edges \cup {id} /\ x.edges[id] = e
      /\ \A f \in DOMAIN t.edges : x.edges[f] = t.edges[f]
  BY <1>1 DEF S!Put
<1>3. ASSUME NEW w \in DOMAIN x.vertices
      PROVE  /\ x.out[w] = {f \in DOMAIN x.edges : x.edges[f].from = w}
             /\ x.in[w] = {f \in DOMAIN x.edges : x.edges[f].to = w}
  <2>1. w \in DOMAIN t.out /\ w \in DOMAIN t.in
    BY <1>1, <1>3 DEF Exact
  <2>2. /\ t.out[w] = {f \in DOMAIN t.edges : t.edges[f].from = w}
        /\ t.in[w] = {f \in DOMAIN t.edges : t.edges[f].to = w}
    BY <1>1, <1>3 DEF Exact
  <2>3. x.out[w] = IF w = e.from THEN t.out[w] \cup {id} ELSE t.out[w]
    BY <1>1, <2>1
  <2>4. x.in[w] = IF w = e.to THEN t.in[w] \cup {id} ELSE t.in[w]
    BY <1>1, <2>1
  <2>. QED
    BY <1>2, <2>2, <2>3, <2>4
<1>4. S!CanReset(x)
  <2>1. S!CanReset(t)
    BY DEF Exact
  <2>. QED
    BY <1>1, <1>2, <2>1 DEF S!CanReset
<1>5. DOMAIN x.out = DOMAIN x.vertices /\ DOMAIN x.in = DOMAIN x.vertices
  BY <1>1 DEF Exact
<1>6. Maps(x)
  BY <1>1 DEF S!Put, Exact, Maps
<1>. QED
  BY <1>3, <1>4, <1>5, <1>6 DEF Exact, x

LEMMA DeleteEdgesExact ==
    ASSUME NEW t, IsStore(t), Exact(t), NEW E
    PROVE  Exact(S!DeleteEdges(t, E))
<1> DEFINE x == S!DeleteEdges(t, E)
<1>1. /\ x.vertices = t.vertices /\ x.edges = S!Without(t.edges, E)
      /\ x.out = [v \in DOMAIN t.out |-> {e \in t.out[v] : e \notin E \/ t.edges[e].from # v}]
      /\ x.in = [v \in DOMAIN t.in |-> {e \in t.in[v] : e \notin E \/ t.edges[e].to # v}]
  BY DEF IsStore, S!DeleteEdges
<1>. HIDE DEF x
<1>2. /\ DOMAIN x.edges = DOMAIN t.edges \ E
      /\ \A f \in DOMAIN x.edges : x.edges[f] = t.edges[f]
  BY <1>1 DEF S!Without
<1>3. ASSUME NEW w \in DOMAIN x.vertices
      PROVE  /\ x.out[w] = {f \in DOMAIN x.edges : x.edges[f].from = w}
             /\ x.in[w] = {f \in DOMAIN x.edges : x.edges[f].to = w}
  <2>1. w \in DOMAIN t.out /\ w \in DOMAIN t.in
    BY <1>1, <1>3 DEF Exact
  <2>2. /\ t.out[w] = {f \in DOMAIN t.edges : t.edges[f].from = w}
        /\ t.in[w] = {f \in DOMAIN t.edges : t.edges[f].to = w}
    BY <1>1, <1>3 DEF Exact
  <2>3. /\ x.out[w] = {e \in t.out[w] : e \notin E \/ t.edges[e].from # w}
        /\ x.in[w] = {e \in t.in[w] : e \notin E \/ t.edges[e].to # w}
    BY <1>1, <2>1
  <2>. QED
    BY <1>2, <2>2, <2>3
<1>4. S!CanReset(x)
  <2>1. S!CanReset(t)
    BY DEF Exact
  <2>. QED
    BY <1>1, <1>2, <2>1 DEF S!CanReset
<1>5. DOMAIN x.out = DOMAIN x.vertices /\ DOMAIN x.in = DOMAIN x.vertices
  BY <1>1 DEF Exact
<1>6. Maps(x)
  BY <1>1 DEF S!Without, Exact, Maps
<1>. QED
  BY <1>3, <1>4, <1>5, <1>6 DEF Exact, x

LEMMA DeleteVertexExact ==
    ASSUME NEW t, IsStore(t), Exact(t), NEW id, Incident(t, id) = {}
    PROVE  Exact(S!DeleteVertex(t, id))
<1> DEFINE x == S!DeleteVertex(t, id)
<1>1. /\ x.vertices = S!Without(t.vertices, {id}) /\ x.edges = t.edges
      /\ x.out = S!Without(t.out, {id}) /\ x.in = S!Without(t.in, {id})
  BY DEF IsStore, S!DeleteVertex
<1>. HIDE DEF x
<1>2. DOMAIN x.vertices = DOMAIN t.vertices \ {id}
  BY <1>1 DEF S!Without
<1>3. ASSUME NEW w \in DOMAIN x.vertices
      PROVE  /\ x.out[w] = {f \in DOMAIN x.edges : x.edges[f].from = w}
             /\ x.in[w] = {f \in DOMAIN x.edges : x.edges[f].to = w}
  <2>1. w \in DOMAIN t.out /\ w \in DOMAIN t.in /\ w # id /\ w \in DOMAIN t.vertices
    BY <1>2, <1>3 DEF Exact
  <2>2. x.out[w] = t.out[w] /\ x.in[w] = t.in[w]
    BY <1>1, <2>1 DEF S!Without
  <2>. QED
    BY <1>1, <2>1, <2>2 DEF Exact
<1>4. \A e \in DOMAIN t.edges : t.edges[e].from # id /\ t.edges[e].to # id
  BY DEF Incident
<1>5. S!CanReset(x)
  <2>1. S!CanReset(t)
    BY DEF Exact
  <2>. QED
    BY <1>1, <1>2, <1>4, <2>1 DEF S!CanReset
<1>6. DOMAIN x.out = DOMAIN x.vertices /\ DOMAIN x.in = DOMAIN x.vertices
  BY <1>1 DEF Exact, S!Without
<1>7. Maps(x)
  BY <1>1 DEF S!Without, Exact, Maps
<1>. QED
  BY <1>3, <1>5, <1>6, <1>7 DEF Exact, x

LEMMA SetNextIDsExact ==
    ASSUME NEW t, IsStore(t), Exact(t), NEW v, NEW e
    PROVE  Exact(S!SetNextIDs(t, v, e))
<1> DEFINE x == S!SetNextIDs(t, v, e)
<1>1. x.vertices = t.vertices /\ x.edges = t.edges /\ x.out = t.out /\ x.in = t.in
  BY DEF IsStore, S!SetNextIDs
<1>. HIDE DEF x
<1>2. Maps(x)
  BY <1>1 DEF Exact, Maps
<1>. QED
  BY <1>1, <1>2 DEF Exact, S!CanReset, x

(* A snapshot that can be reset to becomes an exact store of its content.  *)
LEMMA ResetExact ==
    ASSUME NEW p, S!CanReset(p), Maps(p)
    PROVE  SameContent(LoadInto(p).store, p) /\ Exact(LoadInto(p).store)
<1> DEFINE x == S!Reset(p)
<1>1. /\ x.vertices = p.vertices /\ x.edges = p.edges
      /\ x.out = [v \in DOMAIN p.vertices |-> {e \in DOMAIN p.edges : p.edges[e].from = v}]
      /\ x.in = [v \in DOMAIN p.vertices |-> {e \in DOMAIN p.edges : p.edges[e].to = v}]
  BY DEF S!Reset
<1>2. LoadInto(p).store = x
  BY DEF LoadInto
<1>. HIDE DEF x
<1>3. Exact(x)
  BY <1>1 DEF Exact, S!CanReset, Maps
<1>. QED
  BY <1>1, <1>2, <1>3 DEF SameContent

(* A record that comes back from the log as it was written.                *)
Legible(r) ==
    /\ ~TooLong(r)
    /\ r.op \in {"add_vertex", "update_vertex"} => FromJSON(r.vertex) = r.vertex
    /\ r.op = "add_edge" => FromJSON(r.edge) = r.edge

LEMMA EngineIsStore ==
    ASSUME NEW e, EngineShape(e)
    PROVE  /\ IsStore(e.store)
           /\ \A x : [e EXCEPT !.store = x].store = x
BY DEF EngineShape, StoreShape, IsStore

(* The record of a call that passed its checks, and the same record when   *)
(* it is replayed onto a store it fits.                                    *)
LEMMA AddVertexEffect ==
    ASSUME NEW e, EngineShape(e), Exact(e.store), NEW id, id \notin DOMAIN e.store.vertices, NEW v
    PROVE  LET u == AddVertex(e, id, v).store
           IN  /\ Exact(u) /\ u.vertices = S!Put(e.store.vertices, id, v)
               /\ u.edges = e.store.edges
<1> DEFINE next == Restore(e.vIds, id + 1)
           u == S!AddVertex(e.store, id, v)
           w == S!SetNextIDs(u, next, e.eIds)
<1>1. AddVertex(e, id, v).store = w
  <2>. HIDE DEF w, next
  <2>. QED
    BY DEF AddVertex, EngineShape, w, next, u
<1>2. IsStore(e.store)
  BY EngineIsStore
<1>3. Exact(u) /\ IsStore(u) /\ u.vertices = S!Put(e.store.vertices, id, v) /\ u.edges = e.store.edges
  BY <1>2, AddVertexExact, AddVertexFields
<1>. HIDE DEF u, next
<1>4. Exact(w) /\ w.vertices = u.vertices /\ w.edges = u.edges
  BY <1>3, SetNextIDsExact, SetNextIDsFields
<1>. HIDE DEF w
<1>. QED
  BY <1>1, <1>3, <1>4

LEMMA AddEdgeEffect ==
    ASSUME NEW e, EngineShape(e), Exact(e.store), NEW id, id \notin DOMAIN e.store.edges,
           NEW edge, {edge.from, edge.to} \subseteq DOMAIN e.store.vertices
    PROVE  LET u == AddEdge(e, id, edge).store
           IN  /\ Exact(u) /\ u.vertices = e.store.vertices
               /\ u.edges = S!Put(e.store.edges, id, edge)
<1> DEFINE next == Restore(e.eIds, id + 1)
           u == S!AddEdge(e.store, id, edge)
           w == S!SetNextIDs(u, e.vIds, next)
<1>1. AddEdge(e, id, edge).store = w
  <2>. HIDE DEF w, next
  <2>. QED
    BY DEF AddEdge, EngineShape, w, next, u
<1>2. IsStore(e.store)
  BY EngineIsStore
<1>3. Exact(u) /\ IsStore(u) /\ u.vertices = e.store.vertices /\ u.edges = S!Put(e.store.edges, id, edge)
  BY <1>2, AddEdgeExact, AddEdgeFields
<1>. HIDE DEF u, next
<1>4. Exact(w) /\ w.vertices = u.vertices /\ w.edges = u.edges
  BY <1>3, SetNextIDsExact, SetNextIDsFields
<1>. HIDE DEF w
<1>. QED
  BY <1>1, <1>3, <1>4

LEMMA UpdateVertexEffect ==
    ASSUME NEW e, EngineShape(e), Exact(e.store), NEW id \in DOMAIN e.store.vertices, NEW v
    PROVE  LET u == UpdateVertex(e, id, v).store
           IN  /\ Exact(u) /\ u.vertices = S!Put(e.store.vertices, id, v)
               /\ u.edges = e.store.edges
<1>1. UpdateVertex(e, id, v).store = S!UpdateVertex(e.store, id, v) /\ IsStore(e.store)
  BY EngineIsStore DEF UpdateVertex
<1>. QED
  BY <1>1, UpdateVertexExact, UpdateVertexFields

LEMMA DeleteEdgeEffect ==
    ASSUME NEW e, EngineShape(e), Exact(e.store), NEW id
    PROVE  LET u == DeleteEdge(e, id).store
           IN  /\ Exact(u) /\ u.vertices = e.store.vertices
               /\ u.edges = S!Without(e.store.edges, {id})
<1>1. DeleteEdge(e, id).store = S!DeleteEdges(e.store, {id}) /\ IsStore(e.store)
  BY EngineIsStore DEF DeleteEdge, S!DeleteEdge
<1>. QED
  BY <1>1, DeleteEdgesExact, DeleteEdgesFields

(* The cascade: the adjacency maps name exactly the edges at the vertex.   *)
LEMMA DeleteVertexEffect ==
    ASSUME NEW e, EngineShape(e), Exact(e.store), NEW id \in DOMAIN e.store.vertices
    PROVE  LET u == DeleteVertex(e, id).store
           IN  /\ Exact(u) /\ u.vertices = S!Without(e.store.vertices, {id})
               /\ u.edges = S!Without(e.store.edges, Incident(e.store, id))
<1> DEFINE t == e.store
           E == S!EdgesOf(t, id, "BOTH")
           bare == S!DeleteEdges(t, E)
           u == S!DeleteVertex(bare, id)
<1>1. DeleteVertex(e, id).store = u /\ IsStore(t)
  BY EngineIsStore DEF DeleteVertex
<1>2. E = Incident(t, id)
  <2>1. E = t.out[id] \cup t.in[id]
    BY DEF S!EdgesOf, Exact
  <2>2. /\ t.out[id] = {f \in DOMAIN t.edges : t.edges[f].from = id}
        /\ t.in[id] = {f \in DOMAIN t.edges : t.edges[f].to = id}
    BY DEF Exact
  <2>. QED
    BY <2>1, <2>2 DEF Incident
<1>3. /\ Exact(bare) /\ IsStore(bare) /\ bare.vertices = t.vertices
      /\ bare.edges = S!Without(t.edges, E)
  BY <1>1, DeleteEdgesExact, DeleteEdgesFields
<1>. HIDE DEF bare
<1>4. Incident(bare, id) = {}
  BY <1>2, <1>3 DEF Incident, S!Without
<1>5. Exact(u) /\ u.vertices = S!Without(bare.vertices, {id}) /\ u.edges = bare.edges
  BY <1>3, <1>4, DeleteVertexExact, DeleteVertexFields
<1>. HIDE DEF u, E
<1>. QED
  BY <1>1, <1>2, <1>3, <1>5

LEMMA ApplyEffect ==
    ASSUME NEW e, EngineShape(e), Exact(e.store), NEW r \in Records, Fits(r, e.store)
    PROVE  Exact(Apply(e, r).store) /\ Effect(r, e.store, Apply(e, r).store)
<1>1. CASE r.op = "add_vertex"
  <2>1. Apply(e, r) = AddVertex(e, r.id, r.vertex)
    BY <1>1 DEF Apply
  <2>. QED
    BY <1>1, <2>1, AddVertexEffect DEF Effect, Fits
<1>2. CASE r.op = "update_vertex"
  <2>1. Apply(e, r) = UpdateVertex(e, r.id, r.vertex)
    BY <1>2 DEF Apply
  <2>. QED
    BY <1>2, <2>1, UpdateVertexEffect DEF Effect, Fits
<1>3. CASE r.op = "delete_vertex"
  <2>1. Apply(e, r) = DeleteVertex(e, r.id)
    BY <1>3 DEF Apply
  <2>. QED
    BY <1>3, <2>1, DeleteVertexEffect DEF Effect, Fits
<1>4. CASE r.op = "add_edge"
  <2>1. Apply(e, r) = AddEdge(e, r.id, r.edge)
    BY <1>4 DEF Apply
  <2>. QED
    BY <1>4, <2>1, AddEdgeEffect DEF Effect, Fits
<1>5. CASE r.op = "delete_edge"
  <2>1. Apply(e, r) = DeleteEdge(e, r.id)
    BY <1>5 DEF Apply
  <2>. QED
    BY <1>5, <2>1, DeleteEdgeEffect DEF Effect, Fits
<1>. QED
  BY <1>1, <1>2, <1>3, <1>4, <1>5, RecordFacts

(* The patch that clears the old properties and sets the logged ones turns *)
(* any vertex into the logged one.                                         *)
LEMMA PatchRebuilds ==
    ASSUME NEW old, NEW v \in Vertices
    PROVE  NewVertex(v.labels, PatchedProps(old, ReplayPatch(old, v))) = v
<1> DEFINE patch == ReplayPatch(old, v)
           props == PatchedProps(old, patch)
<1>1. /\ DOMAIN patch = DOMAIN old.props \cup DOMAIN v.props
      /\ \A k \in DOMAIN patch : patch[k] = IF k \in DOMAIN v.props THEN v.props[k] ELSE Nil
  BY DEF ReplayPatch
<1>2. v = [labels |-> v.labels, props |-> v.props] /\ v.props \in PropertyMaps
  BY DEF Vertices
<1>3. v.props \in [DOMAIN v.props -> Values]
  BY <1>2 DEF PropertyMaps, PartialMaps
<1>. HIDE DEF patch
<1>4. \A k \in DOMAIN v.props : v.props[k] # Nil
  BY <1>3, NilAssumption
<1>5. /\ DOMAIN props = (DOMAIN old.props \cup DOMAIN patch) \ {j \in DOMAIN patch : patch[j] = Nil}
      /\ \A k \in DOMAIN props : props[k] = IF k \in DOMAIN patch THEN patch[k] ELSE old.props[k]
      /\ props = [k \in DOMAIN props |-> props[k]]
  BY DEF PatchedProps
<1>. HIDE DEF props
<1>6. DOMAIN props = DOMAIN v.props
  BY <1>1, <1>4, <1>5
<1>7. \A k \in DOMAIN v.props : props[k] = v.props[k]
  BY <1>1, <1>5, <1>6
<1>8. props = v.props
  BY <1>3, <1>5, <1>6, <1>7
<1>. QED
  BY <1>2, <1>8 DEF NewVertex, props, patch

(* Replaying a record onto a store: the change itself where it fits, a     *)
(* failure where it needs what is not there, and nothing where the store   *)
(* already shows it.                                                       *)
LEMMA ReplayEffect ==
    ASSUME NEW e, EngineShape(e), Exact(e.store), NEW r \in Records, Legible(r)
    PROVE  LET b == ReplayRecord(e, r)
           IN  /\ Fits(r, e.store) =>
                      b.status = "reading" /\ Exact(b.g.store) /\ Effect(r, e.store, b.g.store)
               /\ Misfits(r, e.store) => b.status = "failed" /\ b.g = e
               /\ ~Fits(r, e.store) /\ ~Misfits(r, e.store) => b = Going(e)
<1> DEFINE t == e.store
           b == ReplayRecord(e, r)
<1>0. /\ \A d : Going(d).status = "reading" /\ Going(d).g = d
      /\ \A d : Failed(d).status = "failed" /\ Failed(d).g = d
  BY DEF Going, Failed
<1>1. CASE r.op = "add_vertex"
  <2>1. b = Going(IF r.id \in DOMAIN t.vertices THEN e ELSE AddVertex(e, r.id, r.vertex))
    BY <1>1 DEF ReplayRecord, S!HasVertex, Legible
  <2>2. ~Misfits(r, t)
    BY <1>1 DEF Misfits
  <2>. HIDE DEF b
  <2>3. CASE r.id \in DOMAIN t.vertices
    BY <1>1, <2>1, <2>2, <2>3 DEF Fits, b
  <2>4. CASE r.id \notin DOMAIN t.vertices
    <3>1. b = Going(AddVertex(e, r.id, r.vertex)) /\ Fits(r, t)
      BY <1>1, <2>1, <2>4 DEF Fits
    <3>2. b.status = "reading" /\ b.g = AddVertex(e, r.id, r.vertex)
      BY <1>0, <3>1
    <3>3. Exact(b.g.store) /\ Effect(r, t, b.g.store)
      BY <1>1, <2>4, <3>2, AddVertexEffect DEF Effect
    <3>. QED
      BY <2>2, <3>1, <3>2, <3>3 DEF b
  <2>. QED
    BY <2>3, <2>4
<1>2. CASE r.op = "update_vertex"
  <2>1. CASE r.id \in DOMAIN t.vertices
    <3>1. r.vertex \in Vertices
      BY <1>2 DEF Records
    <3>2. b = Going(UpdateVertex(e, r.id, r.vertex))
      BY <1>2, <2>1, <3>1, PatchRebuilds DEF ReplayRecord, S!HasVertex, Legible, Replayed
    <3>. HIDE DEF b
    <3>3. b.status = "reading" /\ b.g = UpdateVertex(e, r.id, r.vertex)
      BY <1>0, <3>2
    <3>4. Exact(b.g.store) /\ Effect(r, t, b.g.store)
      BY <1>2, <2>1, <3>3, UpdateVertexEffect DEF Effect
    <3>5. Fits(r, t) /\ ~Misfits(r, t)
      BY <1>2, <2>1 DEF Fits, Misfits
    <3>. QED
      BY <3>3, <3>4, <3>5 DEF b
  <2>2. CASE r.id \notin DOMAIN t.vertices
    <3>1. b = Failed(e)
      BY <1>2, <2>2 DEF ReplayRecord, S!HasVertex
    <3>2. ~Fits(r, t) /\ Misfits(r, t)
      BY <1>2, <2>2 DEF Fits, Misfits
    <3>. QED
      BY <1>0, <3>1, <3>2
  <2>. QED
    BY <2>1, <2>2
<1>3. CASE r.op = "delete_vertex"
  <2>1. b = Going(IF r.id \in DOMAIN t.vertices THEN DeleteVertex(e, r.id) ELSE e)
    BY <1>3 DEF ReplayRecord, S!HasVertex
  <2>2. ~Misfits(r, t)
    BY <1>3 DEF Misfits
  <2>. HIDE DEF b
  <2>3. CASE r.id \notin DOMAIN t.vertices
    BY <1>3, <2>1, <2>2, <2>3 DEF Fits, b
  <2>4. CASE r.id \in DOMAIN t.vertices
    <3>1. b = Going(DeleteVertex(e, r.id)) /\ Fits(r, t)
      BY <1>3, <2>1, <2>4 DEF Fits
    <3>2. b.status = "reading" /\ b.g = DeleteVertex(e, r.id)
      BY <1>0, <3>1
    <3>3. Exact(b.g.store) /\ Effect(r, t, b.g.store)
      BY <1>3, <2>4, <3>2, DeleteVertexEffect DEF Effect
    <3>. QED
      BY <2>2, <3>1, <3>2, <3>3 DEF b
  <2>. QED
    BY <2>3, <2>4
<1>4. CASE r.op = "add_edge"
  <2>1. CASE r.id \in DOMAIN t.edges
    <3>1. b = Going(e)
      BY <1>4, <2>1 DEF ReplayRecord, S!HasEdge
    <3>2. ~Fits(r, t) /\ ~Misfits(r, t)
      BY <1>4, <2>1 DEF Fits, Misfits
    <3>. QED
      BY <3>1, <3>2
  <2>2. CASE r.id \notin DOMAIN t.edges /\ {r.edge.from, r.edge.to} \subseteq DOMAIN t.vertices
    <3>1. b = Going(AddEdge(e, r.id, r.edge))
      BY <1>4, <2>2 DEF ReplayRecord, S!HasEdge, S!HasVertex, S!CanAddEdge, Legible
    <3>2. Fits(r, t) /\ ~Misfits(r, t)
      BY <1>4, <2>2 DEF Fits, Misfits
    <3>. HIDE DEF b
    <3>3. b.status = "reading" /\ b.g = AddEdge(e, r.id, r.edge)
      BY <1>0, <3>1
    <3>4. Exact(b.g.store) /\ Effect(r, t, b.g.store)
      BY <1>4, <2>2, <3>3, AddEdgeEffect DEF Effect
    <3>. QED
      BY <3>2, <3>3, <3>4 DEF b
  <2>3. CASE r.id \notin DOMAIN t.edges /\ ~({r.edge.from, r.edge.to} \subseteq DOMAIN t.vertices)
    <3>1. b = Failed(e)
      BY <1>4, <2>3 DEF ReplayRecord, S!HasEdge, S!HasVertex, S!CanAddEdge
    <3>2. ~Fits(r, t) /\ Misfits(r, t)
      BY <1>4, <2>3 DEF Fits, Misfits
    <3>. QED
      BY <1>0, <3>1, <3>2
  <2>. QED
    BY <2>1, <2>2, <2>3
<1>5. CASE r.op = "delete_edge"
  <2>1. b = Going(IF r.id \in DOMAIN t.edges THEN DeleteEdge(e, r.id) ELSE e)
    BY <1>5 DEF ReplayRecord, S!HasEdge
  <2>2. ~Misfits(r, t)
    BY <1>5 DEF Misfits
  <2>. HIDE DEF b
  <2>3. CASE r.id \notin DOMAIN t.edges
    BY <1>5, <2>1, <2>2, <2>3 DEF Fits, b
  <2>4. CASE r.id \in DOMAIN t.edges
    <3>1. b = Going(DeleteEdge(e, r.id)) /\ Fits(r, t)
      BY <1>5, <2>1, <2>4 DEF Fits
    <3>2. b.status = "reading" /\ b.g = DeleteEdge(e, r.id)
      BY <1>0, <3>1
    <3>3. Exact(b.g.store) /\ Effect(r, t, b.g.store)
      BY <1>5, <2>4, <3>2, DeleteEdgeEffect DEF Effect
    <3>. QED
      BY <2>2, <3>1, <3>2, <3>3 DEF b
  <2>. QED
    BY <2>3, <2>4
<1>. QED
  BY <1>1, <1>2, <1>3, <1>4, <1>5, RecordFacts

(***************************************************************************)
(* Replaying one more line.                                                *)
(***************************************************************************)
LEMMA ReplayLineEffect ==
    ASSUME NEW a, ReplayShape(a), a.status = "reading", Exact(a.g.store),
           NEW r \in Records, Legible(r)
    PROVE  LET b == ReplayLine(a, r)
           IN  /\ Fits(r, a.g.store) =>
                      b.status = "reading" /\ Exact(b.g.store) /\ Effect(r, a.g.store, b.g.store)
               /\ Misfits(r, a.g.store) => b.status = "failed"
               /\ ~Fits(r, a.g.store) /\ ~Misfits(r, a.g.store) => b.status = "reading" /\ b.g = a.g
<1>1. r # Bad /\ ~TooLong(r)
  BY RecordFacts DEF Legible
<1>2. ReplayLine(a, r) = ReplayRecord(a.g, r)
  BY <1>1 DEF ReplayLine
<1>3. Going(a.g).status = "reading" /\ Going(a.g).g = a.g
  BY DEF Going
<1>4. EngineShape(a.g)
  BY DEF ReplayShape
<1>. QED
  BY <1>2, <1>3, <1>4, ReplayEffect

LEMMA ReplaysAgree ==
    ASSUME NEW e, NEW L, NEW M, NEW n \in Nat, NEW m \in Nat, n =< m,
           \A i \in 1..n : L[i] = M[i],
           NEW f, Replays(f, e, L, n), NEW h, Replays(h, e, M, m)
    PROVE  f[n] = h[n]
<1> DEFINE T == {i \in Nat : i =< n => f[i] = h[i]}
<1>1. 0 \in T
  BY DEF Replays
<1>2. ASSUME NEW i \in Nat, i \in T
      PROVE  i + 1 \in T
  <2>1. CASE i + 1 =< n
    <3>1. i + 1 \in 1..n /\ i + 1 \in 1..m /\ (i + 1) - 1 = i
      BY <2>1
    <3>2. f[i + 1] = ReplayLine(f[i], L[i + 1]) /\ h[i + 1] = ReplayLine(h[i], M[i + 1])
      BY <3>1 DEF Replays
    <3>3. f[i] = h[i]
      BY <1>2, <2>1
    <3>. QED
      BY <3>1, <3>2, <3>3
  <2>. QED
    BY <2>1
<1>3. n \in T
  <2>. HIDE DEF T
  <2>. QED
    BY <1>1, <1>2, NatsWithin
<1>. QED
  BY <1>3

LEMMA ReplayMore ==
    ASSUME NEW e, NEW file, NEW longer, NEW x \in Records \cup {Bad, Overlong},
           ScannedLines(file) \in Seq(Records \cup {Bad, Overlong}),
           ScannedLines(longer) = Append(ScannedLines(file), x)
    PROVE  ReplayInto(e, longer) = ReplayLine(ReplayInto(e, file), x)
<1> DEFINE L == ScannedLines(file)
           M == ScannedLines(longer)
           n == Len(L)
<1>1. n \in Nat /\ Len(M) = n + 1 /\ M[n + 1] = x /\ M \in Seq(Records \cup {Bad, Overlong})
      /\ \A i \in 1..n : L[i] = M[i]
  OBVIOUS
<1>2. PICK f : Replays(f, e, L, n) /\ ReplayInto(e, file) = f[n]
  BY ReplayIntoSteps
<1>3. PICK h : Replays(h, e, M, n + 1) /\ ReplayInto(e, longer) = h[n + 1]
  BY <1>1, ReplayIntoSteps
<1>. HIDE DEF L, M, n
<1>4. f[n] = h[n]
  BY <1>1, <1>2, <1>3, ReplaysAgree
<1>5. h[n + 1] = ReplayLine(h[n], M[n + 1])
  <2>1. n + 1 \in 1..(n + 1) /\ (n + 1) - 1 = n
    BY <1>1
  <2>. QED
    BY <1>3, <2>1 DEF Replays
<1>. QED
  BY <1>1, <1>2, <1>3, <1>4, <1>5

LEMMA ReplaySameLines ==
    ASSUME NEW e, NEW file, NEW other, ScannedLines(file) = ScannedLines(other)
    PROVE  ReplayInto(e, file) = ReplayInto(e, other)
BY DEF ReplayInto

(***************************************************************************)
(* What the lines L of the log tell of the graph d they led to, from       *)
(* whatever graph they started.                                            *)
(***************************************************************************)
Deletes(line, x) == line.op = "delete_vertex" /\ line.id = x
OnVertex(line, x) == line.op \in {"add_vertex", "update_vertex", "delete_vertex"} /\ line.id = x
Cuts(line, id, edge) ==
    \/ line.op = "delete_edge" /\ line.id = id
    \/ line.op = "delete_vertex" /\ line.id \in {edge.from, edge.to}

(* A vertex is created before anything else is recorded of it.             *)
AddsFirst(L) ==
    \A i, j \in DOMAIN L : i < j /\ L[j].op = "add_vertex" => ~OnVertex(L[i], L[j].id)

(* What was deleted is gone for good, since identifiers are fresh.         *)
DeletedGone(L, d) ==
    \A i \in DOMAIN L : L[i].op = "delete_vertex" => L[i].id \notin DOMAIN d.vertices

(* The last record of a vertex has its value.                              *)
LastWord(L, d) ==
    \A i \in DOMAIN L :
        /\ L[i].op \in {"add_vertex", "update_vertex"}
        /\ \A k \in DOMAIN L : k > i => ~OnVertex(L[k], L[i].id)
        => L[i].id \in DOMAIN d.vertices /\ d.vertices[L[i].id] = L[i].vertex

(* A vertex that a record needs is there or deleted later.                 *)
NeededThere(L, d) ==
    \A i \in DOMAIN L : \A x \in VertexIds :
        NeedsVertex(L[i], x) =>
            x \in DOMAIN d.vertices \/ \E k \in DOMAIN L : k > i /\ Deletes(L[k], x)

(* An edge stays as it was added until a record takes it away.             *)
EdgesStand(L, d) ==
    \A i \in DOMAIN L :
        /\ L[i].op = "add_edge"
        /\ \A k \in DOMAIN L : k > i => ~Cuts(L[k], L[i].id, L[i].edge)
        => L[i].id \in DOMAIN d.edges /\ d.edges[L[i].id] = L[i].edge

NoneCut(L, d) ==
    \A id \in DOMAIN d.edges : \A i \in DOMAIN L : ~Cuts(L[i], id, d.edges[id])

Told(L, d) ==
    /\ AddsFirst(L) /\ DeletedGone(L, d) /\ LastWord(L, d) /\ NeededThere(L, d)
    /\ EdgesStand(L, d) /\ NoneCut(L, d)

Clean(L) == \A i \in DOMAIN L : Legible(L[i])

(* A change of a vertex that a later record deletes, or an edge tied to    *)
(* one.                                                                    *)
Stale(L) ==
    \E i, j \in DOMAIN L : i < j /\ L[j].op = "delete_vertex" /\ NeedsVertex(L[i], L[j].id)

(* A replay of L ends in the content of d unless L is stale.               *)
Faithful(end, L, d) ==
    IF end.status = "failed" THEN Stale(L)
    ELSE end.status = "reading" /\ SameContent(end.g.store, d) /\ Exact(end.g.store)

(* Where a replay of all of L onto d itself stands after i records.        *)
AgreesAt(t, d, x) ==
    /\ x \in DOMAIN t.vertices <=> x \in DOMAIN d.vertices
    /\ x \in DOMAIN t.vertices => t.vertices[x] = d.vertices[x]

VerticesSoFar(t, d, L, i) ==
    \A x : (\A k \in DOMAIN L : k =< i => ~OnVertex(L[k], x))
           \/ (\A k \in DOMAIN L : k > i => ~OnVertex(L[k], x))
           => AgreesAt(t, d, x)

EdgesSoFar(t, d, L, i) ==
    /\ \A id \in DOMAIN d.edges : id \in DOMAIN t.edges /\ t.edges[id] = d.edges[id]
    /\ \A id \in DOMAIN t.edges :
          \/ id \in DOMAIN d.edges
          \/ \E j \in DOMAIN L :
                /\ j =< i /\ L[j].op = "add_edge" /\ L[j].id = id /\ L[j].edge = t.edges[id]
                /\ \A k \in DOMAIN L : k > j /\ k =< i => ~Cuts(L[k], id, t.edges[id])

SoFar(t, d, L, i) ==
    /\ VerticesSoFar(t, d, L, i) /\ EdgesSoFar(t, d, L, i)
    /\ DOMAIN d.vertices \subseteq DOMAIN t.vertices

LEMMA CutEdgesLeave ==
    ASSUME NEW r \in Records, NEW t, NEW u, Fits(r, t), Effect(r, t, u), NEW id
    PROVE  /\ id \in DOMAIN t.edges /\ ~Cuts(r, id, t.edges[id]) =>
                  id \in DOMAIN u.edges /\ u.edges[id] = t.edges[id]
           /\ id \in DOMAIN u.edges =>
                \/ id \in DOMAIN t.edges /\ ~Cuts(r, id, t.edges[id]) /\ u.edges[id] = t.edges[id]
                \/ /\ r.op = "add_edge" /\ r.id = id /\ u.edges[id] = r.edge
                   /\ id \notin DOMAIN t.edges
<1>1. CASE r.op \in {"add_vertex", "update_vertex"}
  BY <1>1 DEF Effect, Cuts
<1>2. CASE r.op = "delete_vertex"
  BY <1>2 DEF Effect, Cuts, S!Without, Incident
<1>3. CASE r.op = "add_edge"
  BY <1>3 DEF Effect, Cuts, S!Put, Fits
<1>4. CASE r.op = "delete_edge"
  BY <1>4 DEF Effect, Cuts, S!Without
<1>. QED
  BY <1>1, <1>2, <1>3, <1>4, RecordFacts

LEMMA VerticesMove ==
    ASSUME NEW r \in Records, NEW t, NEW u, Effect(r, t, u), NEW x
    PROVE  /\ ~OnVertex(r, x) => AgreesAt(t, u, x)
           /\ OnVertex(r, x) /\ r.op # "delete_vertex" => x \in DOMAIN u.vertices /\ u.vertices[x] = r.vertex
           /\ Deletes(r, x) => x \notin DOMAIN u.vertices
<1>1. CASE r.op \in {"add_vertex", "update_vertex"}
  BY <1>1 DEF Effect, OnVertex, Deletes, AgreesAt, S!Put
<1>2. CASE r.op = "delete_vertex"
  BY <1>2 DEF Effect, OnVertex, Deletes, AgreesAt, S!Without
<1>3. CASE r.op = "add_edge"
  BY <1>3 DEF Effect, OnVertex, Deletes, AgreesAt
<1>4. CASE r.op = "delete_edge"
  BY <1>4 DEF Effect, OnVertex, Deletes, AgreesAt
<1>. QED
  BY <1>1, <1>2, <1>3, <1>4, RecordFacts

(***************************************************************************)
(* A replay of the log onto the graph the log led to: the capture of a     *)
(* snapshot makes it one.  SoFar says where the replay stands: a vertex no *)
(* line has touched yet, or that no later line touches, is as in d, and an *)
(* edge that is not in d is one a line added and none has cut since.       *)
(***************************************************************************)
LEMMA AgreesTransitive ==
    ASSUME NEW t, NEW u, NEW d, NEW x, AgreesAt(t, u, x)
    PROVE  AgreesAt(t, d, x) <=> AgreesAt(u, d, x)
BY DEF AgreesAt

LEMMA SoFarChanges ==
    ASSUME NEW L \in Seq(Records), NEW d, Told(L, d), NEW i \in DOMAIN L,
           NEW t, NEW u, SoFar(t, d, L, i - 1), Fits(L[i], t), Effect(L[i], t, u)
    PROVE  SoFar(u, d, L, i)
<1> DEFINE r == L[i]
<1>1. r \in Records /\ DOMAIN L \subseteq Nat /\ i \in Nat
  OBVIOUS
<1>2. /\ \A k \in DOMAIN L : k =< i - 1 => k =< i
      /\ \A k \in DOMAIN L : k =< i => k =< i - 1 \/ k = i
      /\ \A k \in DOMAIN L : k > i - 1 => k > i \/ k = i
      /\ i =< i /\ ~(i > i)
  BY <1>1
<1>3. VerticesSoFar(u, d, L, i)
  <2>1. SUFFICES ASSUME NEW x,
                        (\A k \in DOMAIN L : k =< i => ~OnVertex(L[k], x))
                        \/ (\A k \in DOMAIN L : k > i => ~OnVertex(L[k], x))
                 PROVE  AgreesAt(u, d, x)
    BY DEF VerticesSoFar
  <2>2. CASE ~OnVertex(r, x)
    <3>1. AgreesAt(t, d, x)
      <4>1. (\A k \in DOMAIN L : k =< i - 1 => ~OnVertex(L[k], x))
            \/ (\A k \in DOMAIN L : k > i - 1 => ~OnVertex(L[k], x))
        BY <1>2, <2>1, <2>2
      <4>. QED
        BY <4>1 DEF SoFar, VerticesSoFar
    <3>2. AgreesAt(t, u, x)
      BY <1>1, <2>2, VerticesMove
    <3>. QED
      BY <3>1, <3>2, AgreesTransitive
  <2>3. CASE OnVertex(r, x)
    <3>1. r.id = x /\ \A k \in DOMAIN L : k > i => ~OnVertex(L[k], r.id)
      BY <1>2, <2>1, <2>3 DEF OnVertex
    <3>2. CASE r.op = "delete_vertex"
      <4>1. x \notin DOMAIN u.vertices
        BY <1>1, <3>1, <3>2, VerticesMove DEF Deletes
      <4>2. x \notin DOMAIN d.vertices
        BY <3>1, <3>2 DEF Told, DeletedGone
      <4>. QED
        BY <4>1, <4>2 DEF AgreesAt
    <3>3. CASE r.op # "delete_vertex"
      <4>1. x \in DOMAIN u.vertices /\ u.vertices[x] = r.vertex
        BY <1>1, <2>3, <3>3, VerticesMove
      <4>2. r.op \in {"add_vertex", "update_vertex"}
        BY <2>3, <3>3 DEF OnVertex
      <4>3. x \in DOMAIN d.vertices /\ d.vertices[x] = r.vertex
        <5>1. LastWord(L, d)
          BY DEF Told
        <5>. HIDE DEF r
        <5>2. r = L[i]
          BY DEF r
        <5>. QED
          BY <3>1, <4>2, <5>1, <5>2 DEF LastWord
      <4>. QED
        BY <4>1, <4>3 DEF AgreesAt
    <3>. QED
      BY <3>2, <3>3
  <2>. QED
    BY <2>2, <2>3
<1>4. EdgesSoFar(t, d, L, i - 1)
  BY DEF SoFar
<1>5. ASSUME NEW id \in DOMAIN d.edges
      PROVE  id \in DOMAIN u.edges /\ u.edges[id] = d.edges[id]
  <2>1. id \in DOMAIN t.edges /\ t.edges[id] = d.edges[id]
    BY <1>4 DEF EdgesSoFar
  <2>2. ~Cuts(r, id, d.edges[id])
    BY DEF Told, NoneCut
  <2>. QED
    BY <1>1, <2>1, <2>2, CutEdgesLeave
<1>6. ASSUME NEW id \in DOMAIN u.edges, id \notin DOMAIN d.edges
      PROVE  \E j \in DOMAIN L :
                /\ j =< i /\ L[j].op = "add_edge" /\ L[j].id = id /\ L[j].edge = u.edges[id]
                /\ \A k \in DOMAIN L : k > j /\ k =< i => ~Cuts(L[k], id, u.edges[id])
  <2>1. CASE id \in DOMAIN t.edges /\ ~Cuts(r, id, t.edges[id]) /\ u.edges[id] = t.edges[id]
    <3>1. PICK j \in DOMAIN L :
             /\ j =< i - 1 /\ L[j].op = "add_edge" /\ L[j].id = id /\ L[j].edge = t.edges[id]
             /\ \A k \in DOMAIN L : k > j /\ k =< i - 1 => ~Cuts(L[k], id, t.edges[id])
      BY <1>4, <1>6, <2>1 DEF EdgesSoFar
    <3>2. \A k \in DOMAIN L : k > j /\ k =< i => ~Cuts(L[k], id, t.edges[id])
      BY <1>2, <2>1, <3>1
    <3>. QED
      BY <1>2, <2>1, <3>1, <3>2
  <2>2. CASE r.op = "add_edge" /\ r.id = id /\ u.edges[id] = r.edge
    BY <1>1, <1>2, <2>2
  <2>. QED
    BY <1>1, <1>6, <2>1, <2>2, CutEdgesLeave
<1>7. DOMAIN d.vertices \subseteq DOMAIN u.vertices
  <2>1. SUFFICES ASSUME NEW x \in DOMAIN d.vertices PROVE x \in DOMAIN u.vertices
    OBVIOUS
  <2>2. x \in DOMAIN t.vertices
    BY DEF SoFar
  <2>3. ~Deletes(r, x)
    BY DEF Told, DeletedGone, Deletes
  <2>. QED
    BY <1>1, <2>2, <2>3, VerticesMove DEF AgreesAt, OnVertex, Deletes
<1>. QED
  BY <1>3, <1>5, <1>6, <1>7 DEF SoFar, EdgesSoFar

LEMMA SoFarStays ==
    ASSUME NEW L \in Seq(Records), NEW d, Told(L, d), NEW i \in DOMAIN L,
           NEW t, Exact(t), SoFar(t, d, L, i - 1), ~Fits(L[i], t), ~Misfits(L[i], t)
    PROVE  SoFar(t, d, L, i)
<1> DEFINE r == L[i]
<1>1. r \in Records /\ DOMAIN L \subseteq Nat /\ i \in Nat
  OBVIOUS
<1>2. /\ \A k \in DOMAIN L : k =< i - 1 => k =< i
      /\ \A k \in DOMAIN L : k =< i => k =< i - 1 \/ k = i
      /\ \A k \in DOMAIN L : k > i - 1 => k > i \/ k = i
      /\ \A k \in DOMAIN L : k =< i - 1 => k < i
  BY <1>1
<1>3. /\ r.op \in {"add_vertex", "delete_vertex", "add_edge", "delete_edge"}
      /\ r.op = "add_vertex" => r.id \in DOMAIN t.vertices
      /\ r.op = "delete_vertex" => r.id \notin DOMAIN t.vertices
      /\ r.op = "delete_edge" => r.id \notin DOMAIN t.edges
  BY <1>1, RecordFacts DEF Fits, Misfits
<1>. HIDE DEF r
<1>4. r = L[i]
  BY DEF r
<1>5. VerticesSoFar(t, d, L, i)
  <2>1. SUFFICES ASSUME NEW x,
                        (\A k \in DOMAIN L : k =< i => ~OnVertex(L[k], x))
                        \/ (\A k \in DOMAIN L : k > i => ~OnVertex(L[k], x))
                 PROVE  AgreesAt(t, d, x)
    BY DEF VerticesSoFar
  <2>2. CASE \/ \A k \in DOMAIN L : k =< i - 1 => ~OnVertex(L[k], x)
             \/ \A k \in DOMAIN L : k > i - 1 => ~OnVertex(L[k], x)
    BY <2>2 DEF SoFar, VerticesSoFar
  <2>3. CASE /\ OnVertex(r, x)
             /\ ~ \A k \in DOMAIN L : k =< i - 1 => ~OnVertex(L[k], x)
    <3>1. r.id = x
      BY <2>3 DEF OnVertex
    <3>2. r.op # "add_vertex"
      BY <1>2, <1>4, <2>3, <3>1 DEF Told, AddsFirst
    <3>3. r.op = "delete_vertex"
      BY <1>3, <2>3, <3>2 DEF OnVertex
    <3>4. x \notin DOMAIN d.vertices /\ x \notin DOMAIN t.vertices
      BY <1>3, <1>4, <3>1, <3>3 DEF Told, DeletedGone
    <3>. QED
      BY <3>4 DEF AgreesAt
  <2>. QED
    BY <1>2, <1>4, <2>1, <2>2, <2>3
<1>6. EdgesSoFar(t, d, L, i - 1)
  BY DEF SoFar
<1>7. ASSUME NEW id \in DOMAIN t.edges, id \notin DOMAIN d.edges
      PROVE  \E j \in DOMAIN L :
                /\ j =< i /\ L[j].op = "add_edge" /\ L[j].id = id /\ L[j].edge = t.edges[id]
                /\ \A k \in DOMAIN L : k > j /\ k =< i => ~Cuts(L[k], id, t.edges[id])
  <2>1. PICK j \in DOMAIN L :
           /\ j =< i - 1 /\ L[j].op = "add_edge" /\ L[j].id = id /\ L[j].edge = t.edges[id]
           /\ \A k \in DOMAIN L : k > j /\ k =< i - 1 => ~Cuts(L[k], id, t.edges[id])
    BY <1>6, <1>7 DEF EdgesSoFar
  <2>2. {t.edges[id].from, t.edges[id].to} \subseteq DOMAIN t.vertices
    BY DEF Exact, S!CanReset
  <2>3. ~Cuts(r, id, t.edges[id])
    BY <1>3, <2>2 DEF Cuts
  <2>4. \A k \in DOMAIN L : k > j /\ k =< i => ~Cuts(L[k], id, t.edges[id])
    BY <1>2, <1>4, <2>1, <2>3
  <2>. QED
    BY <1>2, <2>1, <2>4
<1>. QED
  BY <1>5, <1>6, <1>7 DEF SoFar, EdgesSoFar

LEMMA MisfitIsStale ==
    ASSUME NEW L \in Seq(Records), NEW d, Told(L, d), NEW i \in DOMAIN L,
           NEW t, DOMAIN d.vertices \subseteq DOMAIN t.vertices, Misfits(L[i], t)
    PROVE  Stale(L)
<1>1. L[i] \in Records
  OBVIOUS
<1>2. \E x \in VertexIds : NeedsVertex(L[i], x) /\ x \notin DOMAIN t.vertices
  <2>1. CASE L[i].op = "update_vertex"
    BY <1>1, <2>1, RecordFacts DEF Misfits, NeedsVertex
  <2>2. CASE L[i].op = "add_edge"
    <3>1. L[i].edge.from \in VertexIds /\ L[i].edge.to \in VertexIds
      BY <1>1, <2>2 DEF Records
    <3>. QED
      BY <2>2, <3>1 DEF Misfits, NeedsVertex
  <2>. QED
    BY <2>1, <2>2 DEF Misfits
<1>3. PICK x \in VertexIds : NeedsVertex(L[i], x) /\ x \notin DOMAIN d.vertices
  BY <1>2
<1>4. PICK k \in DOMAIN L : k > i /\ Deletes(L[k], x)
  BY <1>3 DEF Told, NeededThere
<1>5. i < k
  BY <1>4
<1>. QED
  BY <1>3, <1>4, <1>5 DEF Stale, Deletes

LEMMA SoFarEnds ==
    ASSUME NEW L \in Seq(Records), NEW d, Told(L, d), Maps(d),
           NEW t, Maps(t), SoFar(t, d, L, Len(L))
    PROVE  SameContent(t, d)
<1>1. \A k \in DOMAIN L : ~(k > Len(L)) /\ k =< Len(L)
  OBVIOUS
<1>2. \A x : AgreesAt(t, d, x)
  BY <1>1 DEF SoFar, VerticesSoFar
<1>3. DOMAIN t.vertices = DOMAIN d.vertices /\ \A x \in DOMAIN t.vertices : t.vertices[x] = d.vertices[x]
  BY <1>2 DEF AgreesAt
<1>4. t.vertices = d.vertices
  BY <1>3 DEF Maps
<1>5. ASSUME NEW id \in DOMAIN t.edges
      PROVE  id \in DOMAIN d.edges
  <2>1. SUFFICES ASSUME id \notin DOMAIN d.edges PROVE FALSE
    OBVIOUS
  <2>2. PICK j \in DOMAIN L :
           /\ L[j].op = "add_edge" /\ L[j].id = id /\ L[j].edge = t.edges[id]
           /\ \A k \in DOMAIN L : k > j /\ k =< Len(L) => ~Cuts(L[k], id, t.edges[id])
    BY <2>1 DEF SoFar, EdgesSoFar
  <2>. QED
    BY <1>1, <2>1, <2>2 DEF Told, EdgesStand
<1>6. \A id \in DOMAIN d.edges : id \in DOMAIN t.edges /\ t.edges[id] = d.edges[id]
  BY DEF SoFar, EdgesSoFar
<1>7. t.edges = d.edges
  BY <1>5, <1>6 DEF Maps
<1>. QED
  BY <1>4, <1>7 DEF SameContent

(* Replaying a log onto a graph that already shows it: what a start does   *)
(* after a crash between the rename of a snapshot and Truncate.            *)
LEMMA ReplayOntoItself ==
    ASSUME NEW L \in Seq(Records), Clean(L), NEW d, Told(L, d), Maps(d),
           NEW e, EngineShape(e), Exact(e.store), SameContent(e.store, d),
           NEW f, Replays(f, e, L, Len(L))
    PROVE  Faithful(f[Len(L)], L, d)
<1> DEFINE n == Len(L)
           Good(i) == /\ ReplayShape(f[i])
                      /\ IF f[i].status = "failed" THEN Stale(L)
                         ELSE /\ f[i].status = "reading" /\ Exact(f[i].g.store)
                              /\ SoFar(f[i].g.store, d, L, i)
           T == {i \in Nat : i =< n => Good(i)}
<1>0. n \in Nat /\ DOMAIN L = 1..n
  OBVIOUS
<1>1. 0 \in T
  <2>1. f[0] = Going(e) /\ Going(e).status = "reading" /\ Going(e).g = e
    BY DEF Replays, Going
  <2>2. ReplayShape(f[0])
    BY <2>1 DEF ReplayShape, Going
  <2>3. \A k \in DOMAIN L : ~(k =< 0)
    OBVIOUS
  <2>4. SoFar(e.store, d, L, 0)
    BY <2>3 DEF SoFar, VerticesSoFar, EdgesSoFar, SameContent, AgreesAt
  <2>. QED
    BY <2>1, <2>2, <2>4
<1>2. ASSUME NEW j \in Nat, j \in T
      PROVE  j + 1 \in T
  <2>1. SUFFICES ASSUME j + 1 =< n PROVE Good(j + 1)
    BY <1>2
  <2> DEFINE i == j + 1
             r == L[i]
             a == f[j]
             b == f[i]
  <2>2. i \in DOMAIN L /\ i \in 1..n /\ i - 1 = j /\ Good(j) /\ r \in Records /\ Legible(r)
    BY <1>0, <1>2, <2>1 DEF Clean
  <2>3. b = ReplayLine(a, r)
    BY <2>2 DEF Replays
  <2>4. /\ ReplayShape(a)
        /\ a.status = "failed" => Stale(L)
        /\ a.status # "failed" =>
              a.status = "reading" /\ Exact(a.g.store) /\ SoFar(a.g.store, d, L, i - 1)
    BY <2>2
  <2>. HIDE DEF b, a, r, i
  <2>5. ReplayShape(b)
    BY <2>2, <2>3, <2>4, ReplayLineShape
  <2>6. CASE a.status = "failed"
    <3>1. b = a
      BY <2>2, <2>3, <2>4, <2>6, ReplayLineShape
    <3>. QED
      BY <2>4, <2>5, <2>6, <3>1 DEF b, i
  <2>7. CASE a.status # "failed"
    <3> DEFINE t == a.g.store
    <3>1. a.status = "reading" /\ Exact(t) /\ SoFar(t, d, L, i - 1)
      BY <2>4, <2>7
    <3>2. r = L[i]
      BY DEF r
    <3>3. CASE Fits(r, t)
      <4>1. b.status = "reading" /\ Exact(b.g.store) /\ Effect(r, t, b.g.store)
        BY <2>2, <2>3, <2>4, <3>1, <3>3, ReplayLineEffect
      <4>2. SoFar(b.g.store, d, L, i)
        BY <2>2, <3>1, <3>2, <3>3, <4>1, SoFarChanges
      <4>. QED
        BY <2>5, <4>1, <4>2 DEF b, i
    <3>4. CASE Misfits(r, t)
      <4>1. b.status = "failed"
        BY <2>2, <2>3, <2>4, <3>1, <3>4, ReplayLineEffect
      <4>2. Stale(L)
        BY <2>2, <3>1, <3>2, <3>4, MisfitIsStale DEF SoFar
      <4>. QED
        BY <2>5, <4>1, <4>2 DEF b, i
    <3>5. CASE ~Fits(r, t) /\ ~Misfits(r, t)
      <4>1. b.status = "reading" /\ b.g = a.g
        BY <2>2, <2>3, <2>4, <3>1, <3>5, ReplayLineEffect
      <4>2. SoFar(t, d, L, i)
        BY <2>2, <3>1, <3>2, <3>5, SoFarStays
      <4>. QED
        BY <2>5, <3>1, <4>1, <4>2 DEF b, i
    <3>. QED
      BY <3>3, <3>4, <3>5
  <2>. QED
    BY <2>6, <2>7
<1>3. Good(n)
  <2>. HIDE DEF Good, n
  <2>1. n \in T
    <3>. HIDE DEF T
    <3>. QED
      BY <1>0, <1>1, <1>2, NatsWithin
  <2>. QED
    BY <1>0, <2>1
<1>4. CASE f[n].status = "failed"
  BY <1>3, <1>4 DEF Faithful
<1>5. CASE f[n].status # "failed"
  <2>1. f[n].status = "reading" /\ Exact(f[n].g.store) /\ SoFar(f[n].g.store, d, L, n)
    BY <1>3, <1>5
  <2>2. SameContent(f[n].g.store, d)
    BY <2>1, SoFarEnds DEF Exact
  <2>. QED
    BY <1>5, <2>1, <2>2 DEF Faithful
<1>. QED
  BY <1>4, <1>5

(* The identifier of a creation has not been used in L.                    *)
NewTo(L, r) ==
    \A i \in DOMAIN L :
        /\ r.op = "add_vertex" => ~OnVertex(L[i], r.id)
        /\ r.op = "add_edge" => ~(L[i].op = "delete_edge" /\ L[i].id = r.id)

LEMMA Appended ==
    ASSUME NEW U, NEW L \in Seq(U), NEW r \in U
    PROVE  LET M == Append(L, r)
               n == Len(L) + 1
           IN  /\ M \in Seq(U) /\ n \in DOMAIN M /\ M[n] = r
               /\ \A i \in DOMAIN M : i \in DOMAIN L \/ i = n
               /\ \A i \in DOMAIN L : i \in DOMAIN M /\ M[i] = L[i] /\ i < n /\ n > i /\ ~(i > n) /\ ~(n < i)
               /\ ~(n < n) /\ ~(n > n)
OBVIOUS

LEMMA StaleKept ==
    ASSUME NEW U, NEW L \in Seq(U), NEW r \in U, Stale(L)
    PROVE  Stale(Append(L, r))
BY Appended DEF Stale

LEMMA CleanKept ==
    ASSUME NEW L \in Seq(Records), NEW r \in Records, Clean(L), Legible(r)
    PROVE  Clean(Append(L, r))
BY Appended DEF Clean

(* A change that the store takes and the log records.                      *)
LEMMA ToldKept ==
    ASSUME NEW L \in Seq(Records), NEW r \in Records, NEW d, Told(L, d), NewTo(L, r),
           Fits(r, d), NEW u, Effect(r, d, u)
    PROVE  Told(Append(L, r), u)
<1> DEFINE M == Append(L, r)
           n == Len(L) + 1
<1>1. /\ M \in Seq(Records) /\ n \in DOMAIN M /\ M[n] = r
      /\ \A i \in DOMAIN M : i \in DOMAIN L \/ i = n
      /\ \A i \in DOMAIN L : i \in DOMAIN M /\ M[i] = L[i] /\ i < n /\ n > i /\ ~(i > n) /\ ~(n < i)
      /\ ~(n < n) /\ ~(n > n)
  BY Appended
<1>. HIDE DEF M, n
<1>2. AddsFirst(L) /\ DeletedGone(L, d) /\ LastWord(L, d) /\ NeededThere(L, d)
      /\ EdgesStand(L, d) /\ NoneCut(L, d)
  BY DEF Told
<1>3. AddsFirst(M)
  BY <1>1, <1>2 DEF AddsFirst, NewTo
<1>4. DeletedGone(M, u)
  <2>1. SUFFICES ASSUME NEW i \in DOMAIN M, M[i].op = "delete_vertex" PROVE M[i].id \notin DOMAIN u.vertices
    BY DEF DeletedGone
  <2>2. CASE i = n
    BY <1>1, <2>1, <2>2, VerticesMove DEF Deletes
  <2>3. CASE i \in DOMAIN L
    <3>1. M[i] = L[i] /\ L[i].id \notin DOMAIN d.vertices
      BY <1>1, <1>2, <2>1, <2>3 DEF DeletedGone
    <3>2. OnVertex(r, L[i].id) => r.op = "delete_vertex"
      <4>1. r.op # "add_vertex" \/ r.id # L[i].id
        BY <2>1, <2>3, <3>1 DEF NewTo, OnVertex
      <4>. QED
        BY <3>1, <4>1, RecordFacts DEF Fits, OnVertex
    <3>. QED
      BY <3>1, <3>2, VerticesMove DEF AgreesAt, OnVertex, Deletes
  <2>. QED
    BY <1>1, <2>2, <2>3
<1>5. LastWord(M, u)
  <2>1. SUFFICES ASSUME NEW i \in DOMAIN M, M[i].op \in {"add_vertex", "update_vertex"},
                        \A k \in DOMAIN M : k > i => ~OnVertex(M[k], M[i].id)
                 PROVE  M[i].id \in DOMAIN u.vertices /\ u.vertices[M[i].id] = M[i].vertex
    BY DEF LastWord
  <2>2. CASE i = n
    BY <1>1, <2>1, <2>2, VerticesMove DEF OnVertex
  <2>3. CASE i \in DOMAIN L
    <3>1. M[i] = L[i] /\ ~OnVertex(r, L[i].id)
      BY <1>1, <2>1, <2>3
    <3>2. \A k \in DOMAIN L : k > i => ~OnVertex(L[k], L[i].id)
      BY <1>1, <2>1, <2>3
    <3>3. L[i].id \in DOMAIN d.vertices /\ d.vertices[L[i].id] = L[i].vertex
      BY <1>2, <2>1, <2>3, <3>1, <3>2 DEF LastWord
    <3>. QED
      BY <3>1, <3>3, VerticesMove DEF AgreesAt
  <2>. QED
    BY <1>1, <2>2, <2>3
<1>6. NeededThere(M, u)
  <2>1. SUFFICES ASSUME NEW i \in DOMAIN M, NEW x \in VertexIds, NeedsVertex(M[i], x)
                 PROVE  x \in DOMAIN u.vertices \/ \E k \in DOMAIN M : k > i /\ Deletes(M[k], x)
    BY DEF NeededThere
  <2>2. CASE i = n
    <3>1. NeedsVertex(r, x)
      BY <1>1, <2>1, <2>2
    <3>2. x \in DOMAIN d.vertices /\ ~Deletes(r, x)
      BY <3>1 DEF NeedsVertex, Fits, Deletes
    <3>. QED
      BY <3>2, RecordFacts, VerticesMove DEF AgreesAt, OnVertex, Deletes
  <2>3. CASE i \in DOMAIN L
    <3>1. CASE \E k \in DOMAIN L : k > i /\ Deletes(L[k], x)
      BY <1>1, <3>1
    <3>2. CASE x \in DOMAIN d.vertices /\ ~Deletes(r, x)
      BY <3>2, RecordFacts, VerticesMove DEF AgreesAt, OnVertex, Deletes
    <3>3. CASE Deletes(r, x)
      BY <1>1, <2>3, <3>3
    <3>. QED
      BY <1>1, <1>2, <2>1, <2>3, <3>1, <3>2, <3>3 DEF NeededThere
  <2>. QED
    BY <1>1, <2>2, <2>3
<1>7. EdgesStand(M, u)
  <2>1. SUFFICES ASSUME NEW i \in DOMAIN M, M[i].op = "add_edge",
                        \A k \in DOMAIN M : k > i => ~Cuts(M[k], M[i].id, M[i].edge)
                 PROVE  M[i].id \in DOMAIN u.edges /\ u.edges[M[i].id] = M[i].edge
    BY DEF EdgesStand
  <2>2. CASE i = n
    BY <1>1, <2>1, <2>2 DEF Effect, S!Put
  <2>3. CASE i \in DOMAIN L
    <3>1. M[i] = L[i] /\ ~Cuts(r, L[i].id, L[i].edge)
      BY <1>1, <2>1, <2>3
    <3>2. \A k \in DOMAIN L : k > i => ~Cuts(L[k], L[i].id, L[i].edge)
      BY <1>1, <2>1, <2>3
    <3>3. L[i].id \in DOMAIN d.edges /\ d.edges[L[i].id] = L[i].edge
      BY <1>2, <2>1, <2>3, <3>1, <3>2 DEF EdgesStand
    <3>. QED
      BY <3>1, <3>3, CutEdgesLeave
  <2>. QED
    BY <1>1, <2>2, <2>3
<1>8. NoneCut(M, u)
  <2>1. SUFFICES ASSUME NEW id \in DOMAIN u.edges, NEW i \in DOMAIN M PROVE ~Cuts(M[i], id, u.edges[id])
    BY DEF NoneCut
  <2>2. CASE id \in DOMAIN d.edges /\ ~Cuts(r, id, d.edges[id]) /\ u.edges[id] = d.edges[id]
    BY <1>1, <1>2, <2>2 DEF NoneCut
  <2>3. CASE r.op = "add_edge" /\ r.id = id /\ u.edges[id] = r.edge
    <3>1. CASE i = n
      BY <1>1, <2>3, <3>1 DEF Cuts
    <3>2. CASE i \in DOMAIN L
      <4>1. M[i] = L[i] /\ ~(L[i].op = "delete_edge" /\ L[i].id = r.id)
        BY <1>1, <2>3, <3>2 DEF NewTo
      <4>2. {r.edge.from, r.edge.to} \subseteq DOMAIN d.vertices
        BY <2>3 DEF Fits
      <4>3. L[i].op = "delete_vertex" => L[i].id \notin {r.edge.from, r.edge.to}
        BY <1>2, <3>2, <4>2 DEF DeletedGone
      <4>. QED
        BY <2>3, <4>1, <4>3 DEF Cuts
    <3>. QED
      BY <1>1, <3>1, <3>2
  <2>. QED
    BY <2>2, <2>3, CutEdgesLeave
<1>. QED
  BY <1>3, <1>4, <1>5, <1>6, <1>7, <1>8 DEF Told, M

LEMMA ToldOfNothing ==
    ASSUME NEW d
    PROVE  Told(<<>>, d) /\ Clean(<<>>)
BY DEF Told, AddsFirst, DeletedGone, LastWord, NeededThere, EdgesStand, NoneCut, Clean

LEMMA ToldOfContent ==
    ASSUME NEW L, NEW d, NEW u, SameContent(d, u), Told(L, d)
    PROVE  Told(L, u)
BY DEF SameContent, Told, DeletedGone, LastWord, NeededThere, EdgesStand, NoneCut

LEMMA FaithfulKept ==
    ASSUME NEW L \in Seq(Records), NEW r \in Records, Legible(r), NEW d, Fits(r, d),
           NEW u, Effect(r, d, u), NEW end, ReplayShape(end), Faithful(end, L, d)
    PROVE  Faithful(ReplayLine(end, r), Append(L, r), u)
<1> DEFINE b == ReplayLine(end, r)
<1>1. CASE end.status = "failed"
  <2>1. b = end
    BY <1>1, ReplayLineShape
  <2>2. Stale(Append(L, r))
    BY <1>1, StaleKept DEF Faithful
  <2>. QED
    BY <1>1, <2>1, <2>2 DEF Faithful
<1>2. CASE end.status # "failed"
  <2>1. end.status = "reading" /\ SameContent(end.g.store, d) /\ Exact(end.g.store)
    BY <1>2 DEF Faithful
  <2>2. SameContent(d, end.g.store)
    BY <2>1 DEF SameContent
  <2>3. Fits(r, end.g.store)
    BY <2>2, FitsAgrees
  <2>4. b.status = "reading" /\ Exact(b.g.store) /\ Effect(r, end.g.store, b.g.store)
    BY <2>1, <2>3, ReplayLineEffect
  <2>. HIDE DEF b
  <2>5. SameContent(b.g.store, u)
    BY <2>1, <2>4, EffectAgrees
  <2>. QED
    BY <2>4, <2>5 DEF Faithful, b
<1>. QED
  BY <1>1, <1>2

LEMMA FaithfulToContent ==
    ASSUME NEW L, NEW d, NEW u, SameContent(d, u), NEW end, Faithful(end, L, d)
    PROVE  Faithful(end, L, u)
BY DEF Faithful, SameContent

(***************************************************************************)
(* The invariant: as long as nothing has happened that may cost data, the  *)
(* log tells of the graph, and a replay of it onto every snapshot that may *)
(* become the one a start reads ends in that graph.                        *)
(***************************************************************************)
TopV == IF pending # None /\ pending.op = "add_vertex" THEN pending.id ELSE high.v
TopE == IF pending # None /\ pending.op = "add_edge" THEN pending.id ELSE high.e

Known(L, d, v, e) ==
    /\ \A i \in DOMAIN L :
          /\ L[i].op \in {"add_vertex", "update_vertex", "delete_vertex"} => L[i].id =< v
          /\ L[i].op = "delete_edge" => L[i].id =< e
    /\ \A x \in DOMAIN d.vertices : x =< v
    /\ \A x \in DOMAIN d.edges : x =< e

Accounted(L, d, v, e) == Exact(d) /\ Clean(L) /\ Told(L, d) /\ Known(L, d, v, e)

IsBase(p) ==
    \/ dir.snap # None /\ p = files[dir.snap].head
    \/ \E s \in Savers : saver[s].pc \in Saving /\ p = saver[s].snap

Regains(base, file, d) == Faithful(ReplayInto(base, file), ScannedLines(file), d)
Restores(p, file, d) == S!CanReset(p) /\ Regains(LoadInto(p), file, d)

Trace ==
    /\ Accounted(ScannedLines(log), Durable.store, TopV, TopE)
    /\ dir.snap = None => Regains(NewEngine, log, Durable.store)
    /\ \A p : IsBase(p) => Restores(p, log, Durable.store)

Traceable == exposed = {} => Trace

LEMMA TraceInit == Init => Traceable
<1>. SUFFICES ASSUME Init PROVE Trace
  BY DEF Traceable
<1>1. /\ Durable = NewEngine /\ log = EmptyLog /\ dir.snap = None
      /\ \A s \in Savers : saver[s].pc \notin Saving
  BY DEF Init, Durable, Idle, Saving
<1>2. ScannedLines(log) = <<>>
  BY <1>1 DEF ScannedLines, EmptyLog
<1> DEFINE t == NewEngine.store
<1>3. t.vertices = S!EmptyMap /\ t.edges = S!EmptyMap /\ t.out = S!EmptyMap /\ t.in = S!EmptyMap
  BY DEF NewEngine, S!NewMemStore
<1>4. DOMAIN S!EmptyMap = {} /\ S!EmptyMap = [x \in DOMAIN S!EmptyMap |-> S!EmptyMap[x]]
  BY DEF S!EmptyMap
<1>. HIDE DEF t
<1>5. Exact(t)
  BY <1>3, <1>4 DEF Exact, Maps, S!CanReset
<1>6. Accounted(<<>>, t, TopV, TopE)
  BY <1>3, <1>4, <1>5, ToldOfNothing DEF Accounted, Known
<1>7. ReplayInto(NewEngine, log) = Going(NewEngine)
  <2>1. <<>> \in Seq(Records \cup {Bad, Overlong}) /\ Len(<<>>) = 0
    OBVIOUS
  <2>2. PICK f : Replays(f, NewEngine, <<>>, 0) /\ ReplayInto(NewEngine, log) = f[0]
    BY <1>2, <2>1, ReplayIntoSteps
  <2>. QED
    BY <2>2 DEF Replays
<1>8. Regains(NewEngine, log, t)
  BY <1>5, <1>7 DEF Regains, Faithful, Going, SameContent, t
<1>9. \A p : ~IsBase(p)
  BY <1>1 DEF IsBase
<1>. QED
  BY <1>1, <1>2, <1>6, <1>8, <1>9 DEF Trace, t

(* Steps that leave the lines of the log and the durable graph alone.      *)
LEMMA TraceKept ==
    ASSUME Trace, ScannedLines(log)' = ScannedLines(log),
           SameContent(Durable.store, (Durable.store)'), Exact(Durable.store)',
           TopV' = TopV, TopE' = TopE,
           dir.snap' = None => dir.snap = None,
           \A p : IsBase(p)' => IsBase(p)
    PROVE  Trace'
<1> DEFINE L == ScannedLines(log)
           d == Durable.store
<1>1. L' = L /\ SameContent(d, d') /\ Exact(d') /\ Accounted(L, d, TopV, TopE)
  BY DEF Trace
<1>2. \A base : ReplayInto(base, log') = ReplayInto(base, log)
  BY ReplaySameLines
<1>3. \A base : Regains(base, log, d) => Regains(base, log', d')
  BY <1>1, <1>2, FaithfulToContent DEF Regains
<1>. HIDE DEF L, d
<1>4. Known(L, d', TopV, TopE)
  BY <1>1 DEF Accounted, Known, SameContent
<1>5. Accounted(L, d', TopV, TopE)
  BY <1>1, <1>4, ToldOfContent DEF Accounted
<1>6. Accounted(L', d', TopV', TopE')
  BY <1>1, <1>5
<1>7. dir.snap' = None => Regains(NewEngine, log', d')
  BY <1>3 DEF Trace, d
<1>8. ASSUME NEW p, IsBase(p)'
      PROVE  Restores(p, log', d')
  BY <1>3, <1>8 DEF Trace, Restores, d
<1>. QED
  BY <1>6, <1>7, <1>8 DEF Trace, L, d

LEMMA ReplayShapes ==
    ASSUME LogTyped
    PROVE  \A base : EngineShape(base) => ReplayShape(ReplayInto(base, log))
BY ScannedTyped, ReplayIntoShape

LEMMA BaseShape ==
    ASSUME DurInv, "overlap" \notin exposed, NEW p, IsBase(p)
    PROVE  SnapshotShape(p)
<1>1. FilesTyped /\ SaverTyped /\ OneSaver
  BY DEF DurInv, Typed, FilesSound
<1>2. CASE dir.snap # None /\ p = files[dir.snap].head
  BY <1>1, <1>2 DEF FilesTyped, HalfShape, OneSaver, Whole
<1>3. CASE \E s \in Savers : saver[s].pc \in Saving /\ p = saver[s].snap
  BY <1>1, <1>3 DEF SaverTyped
<1>. QED
  BY <1>2, <1>3 DEF IsBase

(* Steps that add one record to the log.                                   *)
LEMMA TraceExtends ==
    ASSUME DurInv, exposed = {}, Trace, NEW r \in Records, Legible(r),
           NewTo(ScannedLines(log), r), Fits(r, Durable.store),
           ScannedLines(log') = Append(ScannedLines(log), r),
           ScannedLines(log) \in Seq(Records),
           Effect(r, Durable.store, (Durable.store)'), Exact(Durable.store)',
           Known(ScannedLines(log'), (Durable.store)', TopV', TopE'),
           dir.snap' = None => dir.snap = None,
           \A p : IsBase(p)' => IsBase(p)
    PROVE  Trace'
<1> DEFINE L == ScannedLines(log)
           M == ScannedLines(log')
           d == Durable.store
           u == (Durable.store)'
<1>1. M = Append(L, r) /\ Accounted(L, d, TopV, TopE) /\ LogTyped
  BY DEF Trace, DurInv, Typed
<1>2. Accounted(M, u, TopV', TopE')
  BY <1>1, ToldKept, CleanKept DEF Accounted
<1>3. ASSUME NEW base, EngineShape(base), Regains(base, log, d)
      PROVE  Regains(base, log', u)
  <2> DEFINE end == ReplayInto(base, log)
  <2>1. ReplayInto(base, log') = ReplayLine(end, r)
    BY <1>1, ScannedTyped, ReplayMore
  <2>2. ReplayShape(end) /\ Faithful(end, L, d)
    BY <1>1, <1>3, ReplayShapes DEF Regains
  <2>. HIDE DEF end, L, M, d, u
  <2>3. Faithful(ReplayLine(end, r), M, u)
    <3>1. L \in Seq(Records) /\ Fits(r, d) /\ Effect(r, d, u)
      BY DEF L, d, u
    <3>. QED
      BY <1>1, <2>2, <3>1, FaithfulKept
  <2>. QED
    BY <2>1, <2>3 DEF Regains, M
<1>4. dir.snap' = None => Regains(NewEngine, log', u)
  BY <1>3, NewEngineShape DEF Trace
<1>5. ASSUME NEW p, IsBase(p)'
      PROVE  Restores(p, log', u)
  <2>1. IsBase(p)
    BY <1>5
  <2>2. Restores(p, log, d)
    BY <2>1 DEF Trace
  <2>3. EngineShape(LoadInto(p))
    BY <2>1, BaseShape, LoadIntoShape
  <2>. QED
    BY <1>3, <2>2, <2>3 DEF Restores
<1>. QED
  BY <1>2, <1>4, <1>5 DEF Trace

LEMMA TraceFacts ==
    ASSUME DurInv, Traceable, exposed = {}
    PROVE  /\ Trace /\ Exact(Durable.store)
           /\ EngineTyped /\ LogTyped /\ FilesTyped /\ SaverTyped /\ OneSaver /\ IdsFresh
           /\ ScannedLines(log) \in Seq(Records)
<1>1. /\ Trace /\ EngineTyped /\ LogTyped /\ FilesTyped /\ SaverTyped /\ OneSaver /\ IdsFresh
  BY DEF DurInv, Typed, Traceable, FilesSound, FreshSound
<1>2. /\ ScannedLines(log) \in Seq(Records \cup {Bad, Overlong})
      /\ {Bad, Overlong} \cap ToSet(ScannedLines(log)) = {}
  BY <1>1, ScannedTyped DEF IdsFresh, Lines
<1>3. \A i \in DOMAIN ScannedLines(log) : ScannedLines(log)[i] \notin {Bad, Overlong}
  BY <1>2 DEF ToSet
<1>4. ScannedLines(log) \in Seq(Records)
  <2> DEFINE L == ScannedLines(log)
  <2>1. DOMAIN L = 1..Len(L) /\ Len(L) \in Nat /\ L = [i \in 1..Len(L) |-> L[i]]
    BY <1>2
  <2>2. \A i \in 1..Len(L) : L[i] \in Records
    BY <1>2, <1>3
  <2>. HIDE DEF L
  <2>3. L \in Seq(Records)
    BY <2>1, <2>2
  <2>. QED
    BY <2>3 DEF L
<1>. QED
  BY <1>1, <1>4 DEF Trace, Accounted

(* A request has passed the checks of the engine.                          *)
LEMMA RequestFits ==
    ASSUME EngineShape(g), NEW rec \in Requests
    PROVE  Fits(rec, g.store)
<1>1. g.vIds \notin DOMAIN g.store.vertices
  <2>1. \A id \in DOMAIN g.store.vertices : id \in Nat /\ id < g.store.nextV
    BY EngineFields, Constants
  <2>. QED
    BY <2>1, EngineFields
<1>2. g.eIds \notin DOMAIN g.store.edges
  <2>1. \A id \in DOMAIN g.store.edges : id \in Nat /\ id < g.store.nextE
    BY EngineFields, Constants
  <2>. QED
    BY <2>1, EngineFields
<1>3. CASE \E v \in Vertices : rec = AddVertexRec(g.vIds, v)
  BY <1>1, <1>3 DEF Fits, AddVertexRec
<1>4. CASE \E id \in DOMAIN g.store.vertices, v \in Vertices : rec = UpdateVertexRec(id, v)
  BY <1>4 DEF Fits, UpdateVertexRec
<1>5. CASE \E id \in DOMAIN g.store.vertices : rec = DeleteVertexRec(id)
  BY <1>5 DEF Fits, DeleteVertexRec
<1>6. CASE \E from, to \in DOMAIN g.store.vertices, label \in EdgeLabels, props \in PropertyMaps :
             rec = AddEdgeRec(g.eIds, WithProps(NewEdge(from, to, label), props))
  BY <1>2, <1>6 DEF Fits, AddEdgeRec, NewEdge, WithProps
<1>7. CASE \E id \in DOMAIN g.store.edges : rec = DeleteEdgeRec(id)
  BY <1>7 DEF Fits, DeleteEdgeRec
<1>. QED
  BY <1>3, <1>4, <1>5, <1>6, <1>7 DEF Requests

(* Properties that survive float64 come back as they were.                 *)
LEMMA PropsSurvive ==
    ASSUME NEW props \in PropertyMaps, \A k \in DOMAIN props : SurvivesFloat(props[k])
    PROVE  [k \in DOMAIN props |-> ThroughFloat(props[k])] = props
<1>1. \A k \in DOMAIN props : ThroughFloat(props[k]) = props[k]
  BY DEF ThroughFloat
<1>2. props = [k \in DOMAIN props |-> props[k]]
  BY DEF PropertyMaps, PartialMaps
<1>. QED
  BY <1>1, <1>2

LEMMA NothingHidden ==
    ASSUME NEW rec \in Records, Hidden(rec) = {}
    PROVE  log.tail = None /\ Legible(rec)
<1>1. \A r \in {"torn", "long", "rounded"} :
          ~(CASE r = "torn"    -> log.tail # None
              [] r = "long"    -> TooLong(rec)
              [] r = "rounded" -> \E k \in DOMAIN PropsOf(rec) : ~SurvivesFloat(PropsOf(rec)[k]))
  BY DEF Hidden
<1>2. /\ log.tail = None /\ ~TooLong(rec)
      /\ \A k \in DOMAIN PropsOf(rec) : SurvivesFloat(PropsOf(rec)[k])
  BY <1>1
<1>3. ASSUME rec.op \in {"add_vertex", "update_vertex"}
      PROVE  FromJSON(rec.vertex) = rec.vertex
  <2>1. /\ rec.vertex = [labels |-> rec.vertex.labels, props |-> rec.vertex.props]
        /\ rec.vertex.props \in PropertyMaps
    BY <1>3 DEF Records, Vertices
  <2>2. PropsOf(rec) = rec.vertex.props
    BY <1>3 DEF PropsOf
  <2>3. [k \in DOMAIN rec.vertex.props |-> ThroughFloat(rec.vertex.props[k])] = rec.vertex.props
    BY <1>2, <2>1, <2>2, PropsSurvive
  <2>. QED
    BY <2>1, <2>3 DEF FromJSON
<1>4. ASSUME rec.op = "add_edge"
      PROVE  FromJSON(rec.edge) = rec.edge
  <2>1. /\ rec.edge = [from |-> rec.edge.from, to |-> rec.edge.to,
                       label |-> rec.edge.label, props |-> rec.edge.props]
        /\ rec.edge.props \in PropertyMaps
    BY <1>4 DEF Records
  <2>2. PropsOf(rec) = rec.edge.props
    BY <1>4 DEF PropsOf
  <2>3. [k \in DOMAIN rec.edge.props |-> ThroughFloat(rec.edge.props[k])] = rec.edge.props
    BY <1>2, <2>1, <2>2, PropsSurvive
  <2>. QED
    BY <2>1, <2>3 DEF FromJSON
<1>. QED
  BY <1>2, <1>3, <1>4 DEF Legible

(* The record of a request is the next line of the log; the engine e has   *)
(* taken its identifier or the program has died.                           *)
LEMMA RecordWritten ==
    ASSUME DurInv, Traceable, exposed = {}, phase = "serving", pending = None,
           NEW rec \in Requests, Hidden(rec) = {},
           EngineShape(g'), g'.store = g.store, pending' = rec,
           ScannedLines(log') = Append(ScannedLines(log), rec),
           UNCHANGED <<high, dir>>, \A p : IsBase(p)' => IsBase(p)
    PROVE  Trace'
<1> DEFINE d == g.store
           u == Apply(g', rec).store
           L == ScannedLines(log)
           M == ScannedLines(log')
<1>1. /\ Trace /\ EngineTyped /\ LogTyped /\ IdsFresh /\ L \in Seq(Records)
      /\ Durable = g /\ Exact(d)
  BY TraceFacts DEF Durable
<1>2. rec \in Records /\ Legible(rec) /\ Fits(rec, d) /\ EngineShape(g)
  BY <1>1, RequestFacts, RequestFits, NothingHidden DEF EngineTyped
<1>3. /\ (Durable.store)' = u
      /\ rec # None
  BY <1>2, RecordFacts DEF Durable
<1>4. Exact(u) /\ Effect(rec, d, u)
  BY <1>1, <1>2, ApplyEffect
<1>5. TopV = high.v /\ TopE = high.e /\ Known(L, d, high.v, high.e)
  BY <1>1 DEF TopV, TopE, Trace, Accounted
<1>6. /\ TopV' = IF rec.op = "add_vertex" THEN rec.id ELSE high.v
      /\ TopE' = IF rec.op = "add_edge" THEN rec.id ELSE high.e
  BY <1>3 DEF TopV, TopE
<1>7. /\ rec.op = "add_vertex" => rec.id > high.v
      /\ rec.op = "add_edge" => rec.id > high.e
      /\ high.v \in Nat /\ high.e \in Nat
      /\ rec.op \in {"add_vertex", "update_vertex", "delete_vertex"} => rec.id \in Nat
      /\ rec.op \in {"add_edge", "delete_edge"} => rec.id \in Nat
  <2>1. high.v \in Nat /\ high.e \in Nat /\ high.v < g.store.nextV /\ high.e < g.store.nextE
    BY <1>1 DEF EngineTyped, IdsFresh, Up
  <2>2. /\ rec.op = "add_vertex" => rec.id = g.vIds
        /\ rec.op = "add_edge" => rec.id = g.eIds
    BY <1>2, RequestFacts
  <2>3. /\ g.store.nextV \in Nat /\ g.vIds \in Nat /\ g.store.nextV =< g.vIds
        /\ g.store.nextE \in Nat /\ g.eIds \in Nat /\ g.store.nextE =< g.eIds
    BY <1>2, EngineFields
  <2>4. /\ rec.op \in {"add_vertex", "update_vertex", "delete_vertex"} => rec.id \in Nat
        /\ rec.op \in {"add_edge", "delete_edge"} => rec.id \in Nat
    BY <1>2, RecordFacts, Constants
  <2>. QED
    BY <2>1, <2>2, <2>3, <2>4
<1>8. L \in Seq(Records) /\ M = Append(L, rec)
  BY <1>1
<1>9. \A i \in DOMAIN L : /\ L[i].op \in {"add_vertex", "update_vertex", "delete_vertex"} => L[i].id \in Nat
                          /\ L[i].op = "delete_edge" => L[i].id \in Nat
  <2>. HIDE DEF L
  <2>. TAKE i \in DOMAIN L
  <2>1. L[i] \in Records
    BY <1>8
  <2>. QED
    BY <2>1, RecordFacts, Constants
<1>10. /\ \A x \in DOMAIN d.vertices : x \in Nat
       /\ \A x \in DOMAIN d.edges : x \in Nat
  BY <1>2, EngineFields, Constants
<1>. HIDE DEF u, d, L, M
<1>11. NewTo(L, rec)
  BY <1>5, <1>7, <1>9 DEF NewTo, Known, OnVertex
<1> DEFINE v == TopV'
           e == TopE'
<1>12. /\ v \in Nat /\ e \in Nat /\ high.v =< v /\ high.e =< e
       /\ rec.op = "add_vertex" => rec.id =< v
       /\ rec.op = "add_edge" => rec.id =< e
  BY <1>6, <1>7
<1>. HIDE DEF v, e
<1>13. /\ \A x \in DOMAIN d.vertices : x =< v
       /\ \A x \in DOMAIN d.edges : x =< e
  BY <1>5, <1>7, <1>10, <1>12 DEF Known
<1>14. /\ \A x \in DOMAIN u.vertices : x \in DOMAIN d.vertices \/ (rec.op = "add_vertex" /\ x = rec.id)
       /\ \A x \in DOMAIN u.edges : x \in DOMAIN d.edges \/ (rec.op = "add_edge" /\ x = rec.id)
  <2>1. ASSUME NEW x \in DOMAIN u.vertices
        PROVE  x \in DOMAIN d.vertices \/ (rec.op = "add_vertex" /\ x = rec.id)
    <3>1. CASE ~OnVertex(rec, x)
      BY <1>2, <1>4, <2>1, <3>1, VerticesMove DEF AgreesAt
    <3>2. CASE OnVertex(rec, x)
      BY <3>2 , <1>2 DEF OnVertex, Fits
    <3>. QED
      BY <3>1, <3>2
  <2>2. ASSUME NEW x \in DOMAIN u.edges
        PROVE  x \in DOMAIN d.edges \/ (rec.op = "add_edge" /\ x = rec.id)
    BY <1>2, <1>4, <2>2, CutEdgesLeave
  <2>. QED
    BY <2>1, <2>2
<1>15. /\ \A i \in DOMAIN L :
             /\ L[i].op \in {"add_vertex", "update_vertex", "delete_vertex"} => L[i].id =< v
             /\ L[i].op = "delete_edge" => L[i].id =< e
       /\ rec.op \in {"add_vertex", "update_vertex", "delete_vertex"} => rec.id =< v
       /\ rec.op = "delete_edge" => rec.id =< e
  <2>1. rec.op \in {"update_vertex", "delete_vertex"} => rec.id \in DOMAIN d.vertices
    BY <1>2 DEF Fits
  <2>2. rec.op = "delete_edge" => rec.id \in DOMAIN d.edges
    BY <1>2 DEF Fits
  <2>3. ASSUME NEW i \in DOMAIN L
        PROVE  /\ L[i].op \in {"add_vertex", "update_vertex", "delete_vertex"} => L[i].id =< v
               /\ L[i].op = "delete_edge" => L[i].id =< e
    BY <1>5, <1>7, <1>9, <1>12 DEF Known
  <2>. QED
    BY <1>12, <1>13, <2>1, <2>2, <2>3
<1>16. Known(M, u, v, e)
  <2>1. /\ \A i \in DOMAIN M : i \in DOMAIN L \/ i = Len(L) + 1
        /\ \A i \in DOMAIN L : M[i] = L[i]
        /\ M[Len(L) + 1] = rec
    BY <1>2, <1>8, Appended
  <2>2. /\ \A i \in DOMAIN M :
             /\ M[i].op \in {"add_vertex", "update_vertex", "delete_vertex"} => M[i].id =< v
             /\ M[i].op = "delete_edge" => M[i].id =< e
    BY <1>15, <2>1
  <2>3. /\ \A x \in DOMAIN u.vertices : x =< v
        /\ \A x \in DOMAIN u.edges : x =< e
    BY <1>12, <1>13, <1>14
  <2>. QED
    BY <2>2, <2>3 DEF Known
<1>. QED
  BY <1>1, <1>2, <1>3, <1>4, <1>8, <1>11, <1>16, TraceExtends DEF d, u, L, M, v, e

LEMMA LogTrace ==
    ASSUME DurInv, Traceable, NEW rec \in Requests, Log(rec)
    PROVE  Traceable'
<1>1. PICK damaged \in DamagedLines(log) :
          /\ phase = "serving" /\ pending = None /\ g' = TakeId(rec)
          /\ log' = AppendLine(log, rec, damaged)
          /\ pending' = rec /\ exposed' = exposed \cup Hidden(rec) \cup Outgrown(log')
          /\ UNCHANGED <<high, files, dir, saver>>
  BY DEF Log, LogSteady
<1>. SUFFICES ASSUME exposed' = {} PROVE Trace'
  BY DEF Traceable
<1>2. exposed = {} /\ Hidden(rec) = {}
  BY <1>1
<1>3. EngineTyped /\ LogTyped
  BY <1>2, TraceFacts
<1>4. EngineShape(g') /\ g'.store = g.store /\ rec \in Records
  BY <1>1, <1>3, TakeIdShape, RequestFacts DEF EngineTyped
<1>5. log.tail = None
  BY <1>2, <1>4, NothingHidden
<1>6. ScannedLines(log') = Append(ScannedLines(log), rec)
  <2>1. log'.lines = Append(log.lines, rec) /\ log'.tail = None
    BY <1>1, <1>3, <1>5 DEF AppendLine, LogTyped
  <2>. QED
    BY <1>5, <2>1 DEF ScannedLines
<1>7. \A p : IsBase(p)' => IsBase(p)
  BY <1>1 DEF IsBase
<1>. QED
  BY <1>1, <1>2, <1>4, <1>6, <1>7, RecordWritten

(* Steps after which the log has the same lines, the engine the same store *)
(* and the record under way is the same.                                   *)
LEMMA TraceSteady ==
    ASSUME DurInv, Traceable, exposed = {}, ScannedLines(log)' = ScannedLines(log),
           g' = g \/ (pending = None /\ g'.store = g.store), UNCHANGED <<pending, high>>,
           dir.snap' = None => dir.snap = None,
           \A p : IsBase(p)' => IsBase(p)
    PROVE  Trace'
<1>1. Trace /\ Exact(Durable.store)
  BY TraceFacts
<1>2. TopV' = TopV /\ TopE' = TopE
  BY DEF TopV, TopE
<1>3. (Durable.store)' = Durable.store
  BY DEF Durable
<1>4. SameContent(Durable.store, (Durable.store)') /\ Exact(Durable.store)'
  BY <1>1, <1>3 DEF SameContent
<1>. QED
  BY <1>1, <1>2, <1>4, TraceKept

LEMMA FragmentLines ==
    ASSUME LogTyped, NEW fragment \in Records \cup {Partial, Overlong}
    PROVE  LET x == AppendFragment(log, fragment)
           IN  /\ x.lines = log.lines
               /\ log.tail = None => x.tail = fragment
               /\ log.tail # None => x.tail \in {Partial, Overlong}
               /\ Overlong \in {log.tail, fragment} => x.tail = Overlong
               /\ fragment = Partial /\ log.tail \in {None, Partial} =>
                     ScannedLines(x) = ScannedLines(log)
               /\ fragment \in Records /\ log.tail = None =>
                     ScannedLines(x) = Append(ScannedLines(log), fragment)
<1> DEFINE x == AppendFragment(log, fragment)
<1>1. /\ x.lines = log.lines
      /\ x.tail = CASE log.tail = None -> fragment
                   [] log.tail # None /\ Overlong \in {log.tail, fragment} -> Overlong
                   [] OTHER -> Partial
  BY DEF AppendFragment, LogTyped
<1>. HIDE DEF x
<1>a. /\ log.tail = None => x.tail = fragment
      /\ log.tail # None => x.tail \in {Partial, Overlong}
      /\ Overlong \in {log.tail, fragment} => x.tail = Overlong
  BY <1>1, Constants
<1>2. fragment = Partial /\ log.tail \in {None, Partial} => ScannedLines(x) = ScannedLines(log)
  BY <1>1, BadIsNoRecord DEF ScannedLines
<1>3. fragment \in Records /\ log.tail = None => ScannedLines(x) = Append(ScannedLines(log), fragment)
  <2>1. fragment \in Records => fragment # None /\ fragment # Partial
    BY RecordFacts
  <2>. QED
    BY <1>1, <2>1 DEF ScannedLines
<1>. QED
  BY <1>1, <1>a, <1>2, <1>3 DEF x

(* Where neither a torn record nor a line too long is recorded, what a     *)
(* fragment that is no record leaves behind adds nothing to the log.       *)
LEMMA FragmentUnseen ==
    ASSUME LogTyped, NEW fragment \in {Partial, Overlong}, log' = AppendFragment(log, fragment),
           Spoiled = {}, Outgrown(log') = {}
    PROVE  ScannedLines(log)' = ScannedLines(log)
<1>1. log.tail \in {None, Partial, Overlong} /\ log'.tail # Overlong
  BY HiddenFacts
<1>2. fragment = Partial /\ log.tail \in {None, Partial}
  BY <1>1, FragmentLines
<1>. QED
  BY <1>2, FragmentLines

LEMMA LogFailsTrace ==
    ASSUME DurInv, Traceable, NEW rec \in Requests, LogFails(rec)
    PROVE  Traceable'
<1>1. /\ pending = None /\ g' = TakeId(rec) /\ UNCHANGED <<pending, high, files, dir, saver>>
  BY DEF LogFails, LogSteady
<1>. SUFFICES ASSUME exposed' = {} PROVE Trace'
  BY DEF Traceable
<1>2. /\ exposed = {} /\ "ghost" \notin exposed'
      /\ \/ UNCHANGED log
         \/ \E fragment \in {Partial, Overlong, rec} :
               /\ log' = AppendFragment(log, fragment)
               /\ exposed' = exposed \cup Spoiled \cup Outgrown(log')
                                \cup IF fragment = rec THEN {"ghost"} ELSE {}
  BY DEF LogFails
<1>3. LogTyped /\ EngineTyped
  BY <1>2, TraceFacts
<1>4. ScannedLines(log)' = ScannedLines(log)
  <2>1. CASE UNCHANGED log
    BY <2>1
  <2>2. ASSUME NEW fragment \in {Partial, Overlong}, log' = AppendFragment(log, fragment),
               Spoiled = {}, Outgrown(log') = {}
        PROVE  ScannedLines(log)' = ScannedLines(log)
    BY <1>3, <2>2, FragmentUnseen
  <2>. QED
    BY <1>2, <2>1, <2>2
<1>5. g'.store = g.store
  BY <1>1, <1>3, TakeIdShape DEF EngineTyped
<1>6. \A p : IsBase(p)' => IsBase(p)
  BY <1>1 DEF IsBase
<1>. QED
  BY <1>1, <1>2, <1>4, <1>5, <1>6, TraceSteady

LEMMA StoreTrace ==
    ASSUME DurInv, Traceable, Store
    PROVE  Traceable'
<1>1. /\ pending # None /\ g' = Apply(g, pending) /\ Mark(pending) /\ pending' = None
      /\ UNCHANGED <<log, exposed, files, dir, saver>>
  BY DEF Store, LogSteady
<1>. SUFFICES ASSUME exposed' = {} PROVE Trace'
  BY DEF Traceable
<1>2. exposed = {} /\ EngineTyped /\ Trace /\ Exact(Durable.store)
  BY <1>1, TraceFacts
<1>3. pending \in Records /\ high \in [v : Nat, e : Nat]
  BY <1>1, <1>2 DEF EngineTyped
<1>4. TopV' = TopV /\ TopE' = TopE
  BY <1>1, <1>3, MarkFacts DEF TopV, TopE
<1>5. Durable' = Durable
  BY <1>1 DEF Durable
<1>6. SameContent(Durable.store, (Durable.store)') /\ Exact(Durable.store)'
  BY <1>2, <1>5 DEF SameContent
<1>7. \A p : IsBase(p)' => IsBase(p)
  BY <1>1 DEF IsBase
<1>8. ScannedLines(log)' = ScannedLines(log)
  BY <1>1
<1>. QED
  BY <1>1, <1>2, <1>4, <1>6, <1>7, <1>8, TraceKept

(* The snapshot of now: the graph onto which the whole log may be replayed *)
(* although the snapshot shows it already.                                 *)
LEMMA SnapshotRestores ==
    ASSUME DurInv, Traceable, exposed = {}, pending = None
    PROVE  Restores(S!SnapshotOf(g.store), log, g.store)
<1> DEFINE p == S!SnapshotOf(g.store)
           d == g.store
           e == LoadInto(p)
           L == ScannedLines(log)
<1>1. /\ Trace /\ EngineTyped /\ LogTyped /\ L \in Seq(Records) /\ Durable = g /\ Exact(d)
  BY TraceFacts DEF Durable
<1>2. Clean(L) /\ Told(L, d)
  BY <1>1 DEF Trace, Accounted
<1>3. p.vertices = d.vertices /\ p.edges = d.edges /\ SnapshotShape(p)
  BY <1>1, SnapshotOfShape DEF S!SnapshotOf, EngineTyped, EngineShape
<1>. HIDE DEF p
<1>4. S!CanReset(p) /\ Maps(p) /\ Maps(d)
  BY <1>1, <1>3 DEF Exact, S!CanReset, Maps
<1>5. EngineShape(e) /\ Exact(e.store) /\ SameContent(e.store, d)
  BY <1>3, <1>4, ResetExact, LoadIntoShape DEF SameContent
<1>6. PICK f : Replays(f, e, L, Len(L)) /\ ReplayInto(e, log) = f[Len(L)]
  BY <1>1, ScannedTyped, ReplayIntoSteps
<1>. HIDE DEF e, d, L
<1>7. Faithful(f[Len(L)], L, d)
  BY <1>1, <1>2, <1>4, <1>5, <1>6, ReplayOntoItself
<1>. QED
  BY <1>4, <1>6, <1>7 DEF Restores, Regains, p, d, e, L

LEMMA CaptureTrace ==
    ASSUME DurInv, Traceable, NEW s \in Savers, Capture(s)
    PROVE  Traceable'
<1> DEFINE p == S!SnapshotOf(g.store)
           r == [saver[s] EXCEPT !.pc = "create", !.snap = p]
<1>1. /\ pending = None /\ saver' = [saver EXCEPT ![s] = r] /\ exposed \subseteq exposed'
      /\ UNCHANGED <<log, files, dir, g, pending, high>>
  BY DEF Capture, SaveSteady, disk
<1>. SUFFICES ASSUME exposed' = {} PROVE Trace'
  BY DEF Traceable
<1>2. exposed = {} /\ Trace /\ Exact(Durable.store) /\ SaverTyped /\ Durable = g
  BY <1>1, TraceFacts DEF Durable
<1>3. Restores(p, log, Durable.store)
  BY <1>1, <1>2, SnapshotRestores
<1>4. r.snap = p
  BY <1>2 DEF SaverTyped
<1>. HIDE DEF p, r
<1>5. /\ saver[s]' = r /\ \A t \in Savers : t # s => saver[t]' = saver[t]
  BY <1>1, <1>2 DEF SaverTyped
<1>6. \A q : IsBase(q)' => IsBase(q) \/ q = p
  BY <1>1, <1>4, <1>5 DEF IsBase
<1>7. Durable' = Durable /\ TopV' = TopV /\ TopE' = TopE
  BY <1>1 DEF Durable, TopV, TopE
<1>8. \A q : IsBase(q)' => Restores(q, log, Durable.store)
  BY <1>2, <1>3, <1>6 DEF Trace
<1>. QED
  BY <1>1, <1>2, <1>7, <1>8 DEF Trace

LEMMA BasesKept ==
    ASSUME dir.snap' = dir.snap,
           dir.snap # None => (files[dir.snap].head)' = files[dir.snap].head,
           \A t \in Savers : saver[t].pc' \in Saving =>
               saver[t].pc \in Saving /\ saver[t].snap' = saver[t].snap
    PROVE  \A p : IsBase(p)' => IsBase(p)
BY DEF IsBase

(* Steps of a save that change neither the log nor the engine.             *)
LEMMA SaveTrace ==
    ASSUME DurInv, Traceable, SaveSteady, UNCHANGED <<log, exposed>>,
           exposed = {} => /\ dir.snap' = None => dir.snap = None
                           /\ \A p : IsBase(p)' => IsBase(p)
    PROVE  Traceable'
<1>. SUFFICES ASSUME exposed' = {} PROVE Trace'
  BY DEF Traceable
<1>1. exposed = {} /\ g' = g /\ UNCHANGED <<pending, high>> /\ ScannedLines(log)' = ScannedLines(log)
  BY DEF SaveSteady
<1>. QED
  BY <1>1, TraceSteady

LEMMA CreateTrace ==
    ASSUME DurInv, Traceable, NEW s \in Savers, Create(s)
    PROVE  Traceable'
<1>1. SaveSteady /\ UNCHANGED <<log, exposed>>
  BY DEF Create
<1>2. FilesTyped /\ SaverTyped /\ FilesSound
  BY DEF DurInv, Typed
<1> DEFINE i == IF dir.tmp # None THEN dir.tmp ELSE CHOOSE j \in Inodes : j \notin InUse
           r == [saver[s] EXCEPT !.pc = "head", !.inode = i]
<1>3. /\ saver[s].pc = "create" /\ saver' = [saver EXCEPT ![s] = r]
      /\ files' = [files EXCEPT ![i] = NewFile] /\ dir' = [dir EXCEPT !.tmp = i]
  BY DEF Create
<1>4. dir.tmp = None => i # dir.snap
  BY <1>2, FreeInode DEF InUse
<1>5. dir.tmp # None => i = dir.tmp
  OBVIOUS
<1>. HIDE DEF i
<1>6. r.snap = saver[s].snap /\ saver[s].pc \in Saving
  BY <1>2, <1>3 DEF SaverTyped, Saving
<1>. HIDE DEF r
<1>7. /\ saver[s]' = r /\ \A t \in Savers : t # s => saver[t]' = saver[t]
  BY <1>2, <1>3 DEF SaverTyped
<1>8. dir.snap' = dir.snap
  BY <1>2, <1>3 DEF FilesTyped
<1>9. ASSUME exposed = {}
      PROVE  \A p : IsBase(p)' => IsBase(p)
  <2>1. OneSaver
    BY <1>2, <1>9 DEF FilesSound
  <2>2. dir.snap # None => (files[dir.snap].head)' = files[dir.snap].head
    <3>1. dir.snap # None => i # dir.snap /\ dir.snap \in DOMAIN files
      BY <1>2, <1>4, <1>5, <2>1 DEF OneSaver, FilesTyped
    <3>. QED
      BY <1>3, <1>8, <3>1
  <2>3. \A t \in Savers : saver[t].pc' \in Saving =>
               saver[t].pc \in Saving /\ saver[t].snap' = saver[t].snap
    BY <1>6, <1>7
  <2>. QED
    BY <1>8, <2>2, <2>3, BasesKept
<1>. QED
  BY <1>1, <1>8, <1>9, SaveTrace

LEMMA WriteTrace ==
    ASSUME DurInv, Traceable, NEW s \in Savers, WriteHead(s) \/ WriteRest(s)
    PROVE  Traceable'
<1>1. SaveSteady /\ UNCHANGED <<log, dir, exposed>>
  BY DEF WriteHead, WriteRest
<1>2. FilesTyped /\ SaverTyped /\ FilesSound
  BY DEF DurInv, Typed
<1> DEFINE i == saver[s].inode
           p == saver[s].snap
<1>3. /\ Step(s, "head", "rest") \/ Step(s, "rest", "rename")
      /\ files' = [files EXCEPT ![i].head = p] \/ files' = [files EXCEPT ![i].rest = p]
  BY DEF WriteHead, WriteRest
<1>4. {"head", "rest", "rename"} \subseteq Saving /\ {"head", "rest", "rename"} \subseteq Writing
  BY DEF Saving, Writing
<1>5. /\ saver[s].pc \in Writing /\ saver[s].pc \in Saving
      /\ saver[s].snap' = saver[s].snap
      /\ \A t \in Savers : t # s => saver[t]' = saver[t]
  BY <1>2, <1>3, <1>4, StepMoves
<1>6. i \in Inodes /\ SnapshotShape(p)
  BY <1>2, <1>5 DEF SaverTyped
<1>. HIDE DEF i, p
<1>7. \A j \in Inodes : j # i => files'[j] = files[j]
  BY <1>1, <1>2, <1>3, <1>6, HalfWritten
<1>8. ASSUME exposed = {}
      PROVE  \A q : IsBase(q)' => IsBase(q)
  <2>1. OneSaver
    BY <1>2, <1>8 DEF FilesSound
  <2>2. i = dir.tmp
    BY <1>5, <2>1 DEF OneSaver, i
  <2>3. dir.snap # None => (files[dir.snap].head)' = files[dir.snap].head
    BY <1>1, <1>2, <1>7, <2>1, <2>2 DEF OneSaver, FilesTyped
  <2>4. \A t \in Savers : saver[t].pc' \in Saving =>
               saver[t].pc \in Saving /\ saver[t].snap' = saver[t].snap
    BY <1>5
  <2>. QED
    BY <1>1, <2>3, <2>4, BasesKept
<1>. QED
  BY <1>1, <1>8, SaveTrace

(* A save ends without a new snapshot file.                                *)
LEMMA EndTrace ==
    ASSUME DurInv, Traceable, NEW s \in Savers, Finish(s), SaveSteady,
           UNCHANGED <<log, files, exposed>>, dir.snap' = dir.snap
    PROVE  Traceable'
<1>1. SaverTyped
  BY DEF DurInv, Typed
<1>2. saver[s].pc' \notin Saving /\ \A t \in Savers : t # s => saver[t]' = saver[t]
  BY <1>1, FinishMoves
<1>3. \A t \in Savers : saver[t].pc' \in Saving =>
          saver[t].pc \in Saving /\ saver[t].snap' = saver[t].snap
  BY <1>2
<1>4. \A p : IsBase(p)' => IsBase(p)
  BY <1>3, BasesKept
<1>. QED
  BY <1>4, SaveTrace

LEMMA SaveFailsTrace ==
    ASSUME DurInv, Traceable, NEW s \in Savers, SaveFails(s)
    PROVE  Traceable'
<1>1. Finish(s) /\ SaveSteady /\ UNCHANGED <<log, files, exposed>>
      /\ dir' \in {dir, [dir EXCEPT !.tmp = None]}
  BY DEF SaveFails
<1>2. dir.snap' = dir.snap
  BY <1>1 DEF DurInv, Typed, FilesTyped
<1>. QED
  BY <1>1, <1>2, EndTrace

(* The name moves to the snapshot that was being written.                  *)
LEMMA RenameTrace ==
    ASSUME DurInv, Traceable, NEW s \in Savers, Rename(s)
    PROVE  Traceable'
<1>1. SaveSteady /\ UNCHANGED <<log, files, exposed>>
  BY DEF Rename
<1>2. FilesTyped /\ SaverTyped /\ FilesSound
  BY DEF DurInv, Typed
<1>3. CASE dir.tmp # None /\ Step(s, "rename", "meta") /\ dir' = [tmp |-> None, snap |-> dir.tmp]
  <2>1. "rename" \in Saving /\ "meta" \in Saving /\ "meta" \notin Writing /\ "rename" \in Writing
    BY DEF Saving, Writing
  <2>2. /\ saver[s].pc = "rename" /\ saver[s].snap' = saver[s].snap
        /\ \A t \in Savers : t # s => saver[t]' = saver[t]
    BY <1>2, <1>3, <2>1, StepMoves
  <2>3. dir.snap' = dir.tmp /\ dir.snap' # None
    BY <1>3
  <2>4. ASSUME exposed = {}
        PROVE  \A p : IsBase(p)' => IsBase(p)
    <3>1. OneSaver
      BY <1>2, <2>4 DEF FilesSound
    <3>2. files[dir.tmp].head = saver[s].snap
      BY <2>1, <2>2, <3>1 DEF OneSaver
    <3>. QED
      BY <1>1, <2>1, <2>2, <2>3, <3>2 DEF IsBase
  <2>. QED
    BY <1>1, <2>3, <2>4, SaveTrace
<1>4. CASE Finish(s) /\ UNCHANGED dir
  BY <1>1, <1>4, EndTrace
<1>. QED
  BY <1>3, <1>4 DEF Rename

LEMMA WriteMetaTrace ==
    ASSUME DurInv, Traceable, NEW s \in Savers, WriteMeta(s)
    PROVE  Traceable'
<1>1. SaveSteady /\ UNCHANGED <<log, files, dir, exposed>>
  BY DEF WriteMeta, disk
<1>2. CASE Step(s, "meta", "truncate")
  <2>1. SaverTyped /\ "meta" \in Saving /\ "truncate" \in Saving /\ "truncate" \notin Writing
    BY DEF DurInv, Typed, Saving, Writing
  <2>2. /\ saver[s].pc = "meta" /\ saver[s].snap' = saver[s].snap
        /\ \A t \in Savers : t # s => saver[t]' = saver[t]
    BY <1>2, <2>1, StepMoves
  <2>3. \A t \in Savers : saver[t].pc' \in Saving =>
            saver[t].pc \in Saving /\ saver[t].snap' = saver[t].snap
    BY <2>1, <2>2
  <2>4. \A p : IsBase(p)' => IsBase(p)
    BY <1>1, <2>3, BasesKept
  <2>. QED
    BY <1>1, <2>4, SaveTrace
<1>3. CASE Finish(s)
  BY <1>1, <1>3, EndTrace
<1>. QED
  BY <1>2, <1>3 DEF WriteMeta

(* An empty log onto a snapshot is the snapshot.                           *)
LEMMA ReplayNothing ==
    ASSUME NEW base
    PROVE  ReplayInto(base, EmptyLog) = Going(base) /\ ScannedLines(EmptyLog) = <<>>
<1>1. ScannedLines(EmptyLog) = <<>> /\ <<>> \in Seq(Records \cup {Bad, Overlong}) /\ Len(<<>>) = 0
  BY DEF ScannedLines, EmptyLog
<1>2. PICK f : Replays(f, base, <<>>, 0) /\ ReplayInto(base, EmptyLog) = f[0]
  BY <1>1, ReplayIntoSteps
<1>. QED
  BY <1>1, <1>2 DEF Replays

(* The log is emptied once the snapshot of now is the one a start reads.   *)
LEMMA TruncateTrace ==
    ASSUME DurInv, Traceable, NEW s \in Savers, Truncate(s)
    PROVE  Traceable'
<1>1. saver[s].pc = "truncate" /\ Finish(s) /\ SaveSteady /\ UNCHANGED <<files, dir>>
  BY DEF Truncate
<1>2. CASE UNCHANGED <<log, exposed>>
  BY <1>1, <1>2, EndTrace
<1>3. CASE /\ log' = EmptyLog
           /\ exposed' = exposed \cup
                IF pending = None /\ saver[s].snap = S!SnapshotOf(g.store) THEN {} ELSE {"window"}
  <2>. SUFFICES ASSUME exposed' = {} PROVE Trace'
    BY DEF Traceable
  <2> DEFINE p == saver[s].snap
             d == g.store
  <2>1. exposed = {} /\ pending = None /\ p = S!SnapshotOf(d)
    BY <1>3
  <2>2. /\ Trace /\ Durable = g /\ Exact(d) /\ SaverTyped /\ OneSaver
    BY <2>1, TraceFacts DEF Durable
  <2>3. saver[s].pc \in Saving /\ saver[s].pc \in {"meta", "truncate"}
    BY <1>1 DEF Saving
  <2>4. dir.snap # None /\ files[dir.snap].head = p
    BY <2>2, <2>3 DEF OneSaver
  <2>5. /\ saver[s].pc' \notin Saving
        /\ \A t \in Savers : t # s => saver[t]' = saver[t]
    BY <1>1, <2>2, FinishMoves
  <2>6. \A t \in Savers : saver[t].pc' \notin Saving
    BY <2>2, <2>3, <2>5 DEF OneSaver
  <2>7. \A q : IsBase(q)' => q = p
    BY <1>1, <2>4, <2>6 DEF IsBase
  <2>8. p.vertices = d.vertices /\ p.edges = d.edges
    BY <2>1 DEF S!SnapshotOf
  <2>9. UNCHANGED <<g, pending, high>>
    BY <1>1 DEF SaveSteady
  <2>. HIDE DEF p, d
  <2>10. S!CanReset(p) /\ Maps(p)
    BY <2>2, <2>8 DEF Exact, S!CanReset, Maps
  <2>11. SameContent(LoadInto(p).store, d) /\ Exact(LoadInto(p).store)
    BY <2>8, <2>10, ResetExact DEF SameContent
  <2>12. Faithful(Going(LoadInto(p)), <<>>, d)
    BY <2>11 DEF Faithful, Going
  <2>13. Restores(p, EmptyLog, d)
    BY <2>10, <2>12, ReplayNothing DEF Restores, Regains
  <2>14. Accounted(<<>>, d, TopV, TopE)
    BY <2>2, ToldOfNothing DEF Accounted, Known, Trace, d
  <2>15. Durable' = Durable /\ TopV' = TopV /\ TopE' = TopE /\ dir.snap' # None
    BY <1>1, <2>4, <2>9 DEF Durable, TopV, TopE
  <2>. QED
    BY <1>3, <2>2, <2>7, <2>13, <2>14, <2>15, ReplayNothing DEF Trace, d
<1>. QED
  BY <1>2, <1>3 DEF Truncate

(* A recovery that goes on ends in the graph of the engine; one that does  *)
(* not was refused for stale records.                                      *)
LEMMA RecoveredFaithful ==
    ASSUME DurInv, Trace, exposed = {}
    PROVE  IF Recovered.ok
           THEN SameContent(Recovered.g.store, Durable.store) /\ Exact(Recovered.g.store)
           ELSE Stale(ScannedLines(log))
<1>1. OneSaver
  BY DEF DurInv, FilesSound
<1>2. PICK base : Regains(base, log, Durable.store) /\ Recovered = RecoverOnto(base, log)
  <2>1. CASE dir.snap = None
    BY <2>1 DEF Recovered, Trace
  <2>2. CASE dir.snap # None
    <3>1. Whole(files[dir.snap]) /\ IsBase(files[dir.snap].head)
      BY <1>1, <2>2 DEF OneSaver, IsBase
    <3>2. Restores(files[dir.snap].head, log, Durable.store)
      BY <3>1 DEF Trace
    <3>. QED
      BY <2>2, <3>1, <3>2 DEF Recovered, RecoverFrom, Restores
  <2>. QED
    BY <2>1, <2>2
<1>3. /\ Recovered.ok = (ReplayInto(base, log).status # "failed")
      /\ Recovered.g = ReplayInto(base, log).g
  BY <1>2 DEF RecoverOnto
<1>. QED
  BY <1>2, <1>3 DEF Regains, Faithful

LEMMA RestartTrace ==
    ASSUME DurInv, Traceable, Restart
    PROVE  Traceable'
<1>. SUFFICES ASSUME exposed' = {} PROVE Trace'
  BY DEF Traceable
<1>1. UNCHANGED <<log, files, dir, saver, exposed>> /\ exposed = {}
  BY DEF Restart, disk
<1>2. \A p : IsBase(p)' => IsBase(p)
  BY <1>1 DEF IsBase
<1>3. CASE ~Recovered.ok
  <2>1. UNCHANGED <<g, pending, high>>
    BY <1>3 DEF Restart
  <2>. QED
    BY <1>1, <1>2, <2>1, TraceSteady
<1>4. CASE Recovered.ok
  <2>1. /\ g' = Recovered.g /\ pending' = None
        /\ IF pending # None THEN Mark(pending) ELSE UNCHANGED high
    BY <1>4 DEF Restart
  <2>2. Trace /\ EngineTyped
    BY <1>1, TraceFacts
  <2>3. SameContent(Recovered.g.store, Durable.store) /\ Exact(Recovered.g.store)
    BY <1>1, <1>4, <2>2, RecoveredFaithful
  <2>4. Durable' = Recovered.g
    BY <2>1 DEF Durable
  <2>5. SameContent(Durable.store, (Durable.store)') /\ Exact(Durable.store)'
    BY <2>3, <2>4 DEF SameContent
  <2>6. TopV' = TopV /\ TopE' = TopE
    <3>1. CASE pending = None
      BY <2>1, <3>1 DEF TopV, TopE
    <3>2. CASE pending # None
      <4>1. pending \in Records /\ Mark(pending) /\ high \in [v : Nat, e : Nat]
        BY <2>1, <2>2, <3>2 DEF EngineTyped
      <4>. QED
        BY <2>1, <3>2, <4>1, MarkFacts DEF TopV, TopE
    <3>. QED
      BY <3>1, <3>2
  <2>7. ScannedLines(log)' = ScannedLines(log)
    BY <1>1
  <2>. QED
    BY <1>1, <1>2, <2>2, <2>5, <2>6, <2>7, TraceKept
<1>. QED
  BY <1>3, <1>4

LEMMA DownBases ==
    ASSUME SaverTyped, NEW why, Down(why)
    PROVE  /\ \A p : IsBase(p)' => IsBase(p)
           /\ UNCHANGED <<g, files, dir, high>>
<1>1. /\ UNCHANGED <<g, files, dir, high>> /\ saver' = [s \in Savers |-> Idle]
  BY DEF Down
<1>2. \A s \in Savers : saver[s].pc' \notin Saving
  BY <1>1 DEF Idle, Saving
<1>. QED
  BY <1>1, <1>2 DEF IsBase

LEMMA CrashTrace ==
    ASSUME DurInv, Traceable, Crash
    PROVE  Traceable'
<1>. SUFFICES ASSUME exposed' = {} PROVE Trace'
  BY DEF Traceable
<1>1. Down("crashed") /\ exposed = {}
  BY DEF Crash
<1>2. LogTyped /\ SaverTyped /\ EngineTyped
  BY <1>1, TraceFacts
<1>3. UNCHANGED <<g, files, dir, high>> /\ \A p : IsBase(p)' => IsBase(p)
  BY <1>1, <1>2, DownBases
<1>4. CASE UNCHANGED <<pending, log>>
  BY <1>1, <1>3, <1>4, TraceSteady
<1>5. ASSUME NEW fragment \in {Partial, Overlong}, log' = AppendFragment(log, fragment),
             Spoiled = {}, Outgrown(log') = {}, UNCHANGED pending
      PROVE  Trace'
  <2>2. ScannedLines(log)' = ScannedLines(log)
    BY <1>2, <1>5, FragmentUnseen
  <2>. QED
    BY <1>1, <1>3, <1>5, <2>2, TraceSteady
<1>6. ASSUME phase = "serving", pending = None, log.tail = None,
             NEW rec \in Requests, Hidden(rec) = {},
             log' = AppendFragment(log, rec), pending' = rec
      PROVE  Trace'
  <2>1. EngineShape(g) /\ g' = g /\ rec \in Records
    BY <1>2, <1>3, RequestFacts DEF EngineTyped
  <2>2. ScannedLines(log') = Append(ScannedLines(log), rec)
    BY <1>2, <1>6, <2>1, FragmentLines
  <2>3. EngineShape(g')
    BY <2>1
  <2>. QED
    BY <1>1, <1>3, <1>6, <2>1, <2>2, <2>3, RecordWritten
<1>. QED
  BY <1>1, <1>4, <1>5, <1>6 DEF Crash

LEMMA StopTrace ==
    ASSUME DurInv, Traceable, Stop
    PROVE  Traceable'
<1>. SUFFICES ASSUME exposed' = {} PROVE Trace'
  BY DEF Traceable
<1>1. Down("stopped") /\ UNCHANGED <<pending, log, exposed>> /\ exposed = {}
  BY DEF Stop
<1>2. SaverTyped
  BY <1>1, TraceFacts
<1>3. UNCHANGED <<g, files, dir, high>> /\ \A p : IsBase(p)' => IsBase(p)
  BY <1>1, <1>2, DownBases
<1>. QED
  BY <1>1, <1>3, TraceSteady

(* Steps that touch neither the log, the names nor the engine.             *)
LEMMA QuietTrace ==
    ASSUME DurInv, Traceable, UNCHANGED <<g, pending, log, files, dir, saver, high, exposed>>
    PROVE  Traceable'
<1>. SUFFICES ASSUME exposed' = {} PROVE Trace'
  BY DEF Traceable
<1>1. exposed = {} /\ \A p : IsBase(p)' => IsBase(p)
  BY DEF IsBase
<1>. QED
  BY <1>1, TraceSteady

LEMMA TraceNext == DurInv /\ Traceable /\ [Next]_vars => Traceable'
<1>. SUFFICES ASSUME DurInv, Traceable, [Next]_vars PROVE Traceable'
  OBVIOUS
<1>1. ASSUME NEW rec \in Requests, Log(rec) \/ LogFails(rec)
      PROVE  Traceable'
  BY <1>1, LogTrace, LogFailsTrace
<1>2. CASE \E rec \in Requests : WriteUnlogged(rec)
  BY <1>2 DEF WriteUnlogged, Traceable
<1>3. CASE Store
  BY <1>3, StoreTrace
<1>4. CASE \E s \in Savers : Capture(s)
  BY <1>4, CaptureTrace
<1>5. CASE \E s \in Savers : SaveStep(s)
  BY <1>5, CreateTrace, WriteTrace, SaveFailsTrace, RenameTrace, WriteMetaTrace, TruncateTrace
     DEF SaveStep
<1>6. CASE LoadReplace
  BY <1>6 DEF LoadReplace, Traceable
<1>7. CASE LoadRead \/ Signal \/ UNCHANGED vars
  BY <1>7, QuietTrace DEF LoadRead, Signal, vars, disk
<1>8. CASE Stop \/ Crash \/ Restart
  BY <1>8, StopTrace, CrashTrace, RestartTrace
<1>. QED
  BY <1>1, <1>2, <1>3, <1>4, <1>5, <1>6, <1>7, <1>8 DEF Next

LEMMA TraceAlways == Spec => [](DurInv /\ Traceable)
<1>1. Init => DurInv /\ Traceable
  BY InitInv, TraceInit
<1>2. DurInv /\ Traceable /\ [Next]_vars => (DurInv /\ Traceable)'
  BY NextStep, TraceNext
<1>. QED
  BY <1>1, <1>2, PTL DEF Spec

(* No data is lost: as long as none of the listed events has happened, a   *)
(* recovery that goes on restores exactly the graph as it was, the change  *)
(* whose record was already in the log included, wherever between Log and  *)
(* Store or inside a Save the program died and however often it did        *)
(* (wal.go:73-104, persistence.go:20-59, main.go:28-83).                   *)
THEOREM NothingLost == Spec => []Lossless
<1>1. DurInv /\ Traceable => Lossless
  BY RecoveredFaithful DEF Traceable, Lossless, Content, SameContent
<1>. QED
  BY <1>1, TraceAlways, PTL

(***************************************************************************)
(* Without a snapshot the log starts with the first record of the graph,   *)
(* so no record of it can be stale.  A damaged line stops the replay and   *)
(* whatever follows it is not read.                                        *)
(***************************************************************************)
LogSuffices ==
    dir.snap = None /\ exposed \subseteq {"torn"} =>
        LET end == ReplayInto(NewEngine, log)
        IN  /\ end.status # "failed"
            /\ exposed # {} => end.status = "stopped" \/ log.tail = Partial

LEMMA LogSufficesInit == Init => LogSuffices
<1>1. Init => log = EmptyLog /\ exposed = {}
  BY DEF Init
<1>2. ReplayInto(NewEngine, EmptyLog).status = "reading"
  BY ReplayNothing DEF Going
<1>. QED
  BY <1>1, <1>2 DEF LogSuffices

LEMMA LogSufficesKept ==
    ASSUME LogSuffices, UNCHANGED <<log, exposed>>, dir.snap' = None => dir.snap = None
    PROVE  LogSuffices'
BY DEF LogSuffices

(* The complete lines of a log that can be replayed.                       *)
LEMMA LinesSuffice ==
    ASSUME LogTyped, ReplayInto(NewEngine, log).status # "failed",
           NEW file, ScannedLines(file) = log.lines
    PROVE  /\ ReplayShape(ReplayInto(NewEngine, file))
           /\ ReplayInto(NewEngine, file).status # "failed"
<1>1. log.lines \in Seq(Records \cup {Bad, Overlong}) /\ log.tail \in Records \cup {Partial, Overlong, None}
  BY DEF LogTyped
<1>2. ReplayShape(ReplayInto(NewEngine, file))
  BY <1>1, NewEngineShape, ReplayIntoShape
<1>3. CASE log.tail \in {None, Partial}
  <2>1. ScannedLines(file) = ScannedLines(log)
    BY <1>3 DEF ScannedLines
  <2>. QED
    BY <1>2, <2>1, ReplaySameLines
<1>4. CASE log.tail \notin {None, Partial}
  <2>1. ScannedLines(log) = Append(ScannedLines(file), log.tail) /\ log.tail \in Records \cup {Bad, Overlong}
    BY <1>1, <1>4 DEF ScannedLines
  <2>2. ReplayInto(NewEngine, log) = ReplayLine(ReplayInto(NewEngine, file), log.tail)
    BY <1>1, <2>1, ReplayMore
  <2>3. ReplayInto(NewEngine, file).status = "failed" =>
            ReplayInto(NewEngine, log) = ReplayInto(NewEngine, file)
    BY <1>2, <2>1, <2>2, ReplayLineShape
  <2>. QED
    BY <1>2, <2>3
<1>. QED
  BY <1>3, <1>4

(* A fragment at the end of the log, or a record that follows one.         *)
LEMMA TornSuffices ==
    ASSUME LogTyped, ReplayInto(NewEngine, log).status # "failed",
           Outgrown(log') = {},
           \/ \E fragment \in {Partial, Overlong} : log' = AppendFragment(log, fragment)
           \/ log.tail # None /\ \E rec, damaged : damaged \in DamagedLines(log)
                                                /\ log' = AppendLine(log, rec, damaged)
    PROVE  LET end == ReplayInto(NewEngine, log')
           IN  end.status # "failed" /\ (end.status = "stopped" \/ log.tail' = Partial)
<1>1. ASSUME NEW fragment \in {Partial, Overlong}, log' = AppendFragment(log, fragment)
      PROVE  ReplayInto(NewEngine, log').status # "failed" /\ log'.tail = Partial
  <2>1. log'.lines = log.lines /\ log'.tail = Partial
    BY <1>1, FragmentLines, HiddenFacts
  <2>2. ScannedLines(log') = log.lines
    BY <2>1 DEF ScannedLines
  <2>. QED
    BY <2>1, <2>2, LinesSuffice
<1>2. ASSUME log.tail # None, NEW rec, NEW damaged \in DamagedLines(log),
             log' = AppendLine(log, rec, damaged)
      PROVE  ReplayInto(NewEngine, log').status = "stopped"
  <2> DEFINE short == [lines |-> log.lines, tail |-> Partial]
             a == ReplayInto(NewEngine, short)
  <2>1. ScannedLines(short) = log.lines /\ log.lines \in Seq(Records \cup {Bad, Overlong})
    BY DEF ScannedLines, LogTyped
  <2>2. log' = [lines |-> Append(log.lines, Bad), tail |-> None]
    <3>1. log' = [lines |-> Append(log.lines, damaged), tail |-> None]
      BY <1>2 DEF AppendLine
    <3>2. log'.lines # <<>> /\ Last(log'.lines) = damaged
      BY <2>1, <3>1 DEF Last
    <3>3. damaged # Overlong
      BY <3>2 DEF Outgrown
    <3>. QED
      BY <1>2, <3>1, <3>3 DEF DamagedLines
  <2>3. ScannedLines(log') = Append(log.lines, Bad)
    BY <2>2 DEF ScannedLines
  <2>4. ReplayShape(a) /\ a.status # "failed"
    BY <2>1, LinesSuffice
  <2>. HIDE DEF short
  <2>5. ReplayInto(NewEngine, log') = ReplayLine(a, Bad)
    BY <2>1, <2>3, ReplayMore
  <2>6. CASE a.status = "stopped"
    BY <2>4, <2>5, <2>6, ReplayLineShape
  <2>7. CASE a.status = "reading"
    BY <2>4, <2>5, <2>7 DEF ReplayLine, ReplayShape
  <2>. QED
    BY <2>4, <2>6, <2>7 DEF ReplayShape
<1>. QED
  BY <1>1, <1>2

(* The record of a request at the end of the log.                          *)
LEMMA RecordSuffices ==
    ASSUME DurInv, Traceable, LogSuffices, pending = None,
           dir.snap = None, exposed \subseteq {"torn"},
           NEW rec \in Requests, Hidden(rec) = {},
           ScannedLines(log') = Append(ScannedLines(log), rec)
    PROVE  LET end == ReplayInto(NewEngine, log')
           IN  end.status # "failed" /\ (exposed # {} => end.status = "stopped")
<1> DEFINE a == ReplayInto(NewEngine, log)
<1>1. EngineTyped /\ LogTyped
  BY DEF DurInv, Typed
<1>2. log.tail = None /\ Legible(rec) /\ rec \in Records /\ Fits(rec, g.store)
  BY <1>1, NothingHidden, RequestFacts, RequestFits DEF EngineTyped
<1>3. /\ a.status # "failed"
      /\ exposed # {} => a.status = "stopped"
  BY <1>2, NoneAssumption DEF LogSuffices
<1>4. ReplayShape(a)
  BY <1>1, NewEngineShape, ReplayShapes
<1>5. ReplayInto(NewEngine, log') = ReplayLine(a, rec)
  BY <1>1, <1>2, ScannedTyped, ReplayMore
<1>6. CASE exposed = {}
  <2>1. Trace /\ Durable = g
    BY <1>6, TraceFacts DEF Durable
  <2>2. a.status = "reading" /\ SameContent(a.g.store, g.store) /\ Exact(a.g.store)
    BY <1>3, <2>1 DEF Trace, Regains, Faithful
  <2>3. Fits(rec, a.g.store)
    BY <1>2, <2>2, FitsAgrees
  <2>. HIDE DEF a
  <2>4. ReplayLine(a, rec).status = "reading"
    BY <1>2, <1>4, <2>2, <2>3, ReplayLineEffect
  <2>. QED
    BY <1>5, <1>6, <2>4
<1>7. CASE exposed # {}
  <2>1. a.status = "stopped"
    BY <1>3, <1>7
  <2>. HIDE DEF a
  <2>2. ReplayLine(a, rec) = a
    BY <1>2, <1>4, <2>1, ReplayLineShape
  <2>. QED
    BY <1>5, <2>1, <2>2
<1>. QED
  BY <1>6, <1>7

LEMMA LogSufficesLog ==
    ASSUME DurInv, Traceable, LogSuffices, NEW rec \in Requests, Log(rec)
    PROVE  LogSuffices'
<1>1. PICK damaged \in DamagedLines(log) :
          /\ pending = None /\ log' = AppendLine(log, rec, damaged) /\ UNCHANGED dir
          /\ exposed' = exposed \cup Hidden(rec) \cup Outgrown(log')
  BY DEF Log, LogSteady
<1>. SUFFICES ASSUME dir.snap = None, exposed' \subseteq {"torn"}
              PROVE  LET end == ReplayInto(NewEngine, log')
                     IN  /\ end.status # "failed"
                         /\ exposed' # {} => end.status = "stopped" \/ log.tail' = Partial
  BY <1>1 DEF LogSuffices
<1>2. exposed \subseteq {"torn"} /\ Hidden(rec) \subseteq {"torn"} /\ LogTyped /\ Outgrown(log') = {}
  BY <1>1, HiddenFacts DEF DurInv, Typed
<1>3. CASE log.tail = None
  <2>1. Hidden(rec) = {}
    BY <1>2, <1>3 DEF Hidden
  <2>2. log'.lines = Append(log.lines, rec) /\ log'.tail = None
    BY <1>1, <1>2, <1>3 DEF AppendLine, LogTyped
  <2>3. ScannedLines(log') = Append(ScannedLines(log), rec)
    BY <1>3, <2>2 DEF ScannedLines
  <2>. QED
    BY <1>1, <1>2, <2>1, <2>3, RecordSuffices
<1>4. CASE log.tail # None
  BY <1>1, <1>2, <1>4, TornSuffices DEF LogSuffices
<1>. QED
  BY <1>3, <1>4

LEMMA LogSufficesLogFails ==
    ASSUME DurInv, LogSuffices, NEW rec \in Requests, LogFails(rec)
    PROVE  LogSuffices'
<1>1. UNCHANGED dir
  BY DEF LogFails, LogSteady
<1>2. CASE UNCHANGED <<log, exposed>>
  BY <1>1, <1>2, LogSufficesKept
<1>3. ASSUME NEW fragment \in {Partial, Overlong}, log' = AppendFragment(log, fragment),
             exposed \cup Outgrown(log') \subseteq exposed'
      PROVE  LogSuffices'
  <2>. SUFFICES ASSUME dir.snap = None, exposed' \subseteq {"torn"}
                PROVE  LET end == ReplayInto(NewEngine, log')
                       IN  end.status # "failed" /\ (end.status = "stopped" \/ log.tail' = Partial)
    BY <1>1 DEF LogSuffices
  <2>1. Outgrown(log') = {} /\ exposed \subseteq {"torn"} /\ LogTyped
    BY <1>3, HiddenFacts DEF DurInv, Typed
  <2>. QED
    BY <1>3, <2>1, TornSuffices DEF LogSuffices
<1>4. CASE "ghost" \in exposed'
  BY <1>4 DEF LogSuffices
<1>. QED
  BY <1>2, <1>3, <1>4 DEF LogFails

LEMMA LogSufficesCrash ==
    ASSUME DurInv, Traceable, LogSuffices, Crash
    PROVE  LogSuffices'
<1>1. UNCHANGED dir
  BY DEF Crash, Down
<1>2. CASE UNCHANGED <<log, exposed>>
  BY <1>1, <1>2, LogSufficesKept
<1>3. ASSUME NEW fragment \in {Partial, Overlong}, log' = AppendFragment(log, fragment),
             exposed \cup Outgrown(log') \subseteq exposed'
      PROVE  LogSuffices'
  <2>. SUFFICES ASSUME dir.snap = None, exposed' \subseteq {"torn"}
                PROVE  LET end == ReplayInto(NewEngine, log')
                       IN  end.status # "failed" /\ (end.status = "stopped" \/ log.tail' = Partial)
    BY <1>1 DEF LogSuffices
  <2>1. Outgrown(log') = {} /\ exposed \subseteq {"torn"} /\ LogTyped
    BY <1>3, HiddenFacts DEF DurInv, Typed
  <2>. QED
    BY <1>3, <2>1, TornSuffices DEF LogSuffices
<1>4. ASSUME pending = None, log.tail = None, NEW rec \in Requests, Hidden(rec) = {},
             log' = AppendFragment(log, rec), UNCHANGED exposed
      PROVE  LogSuffices'
  <2>1. LogTyped /\ EngineShape(g)
    BY DEF DurInv, Typed, EngineTyped
  <2>2. rec \in Records
    BY <2>1, RequestFacts
  <2>3. ScannedLines(log') = Append(ScannedLines(log), rec)
    BY <1>4, <2>1, <2>2, FragmentLines
  <2>. QED
    BY <1>1, <1>4, <2>3, RecordSuffices DEF LogSuffices
<1>. QED
  BY <1>2, <1>3, <1>4 DEF Crash

LEMMA LogSufficesSave ==
    ASSUME DurInv, LogSuffices, NEW s \in Savers, Capture(s) \/ SaveStep(s)
    PROVE  LogSuffices'
<1>1. FilesTyped /\ SaverTyped
  BY DEF DurInv, Typed
<1>2. CASE Capture(s)
  BY <1>2 DEF Capture, disk, LogSuffices
<1>3. CASE Create(s)
  <2>1. UNCHANGED <<log, exposed>> /\ dir.snap' = dir.snap
    BY <1>1, <1>3 DEF Create, FilesTyped
  <2>. QED
    BY <2>1, LogSufficesKept
<1>4. CASE SaveFails(s)
  <2>1. UNCHANGED <<log, exposed>> /\ dir.snap' = dir.snap
    BY <1>1, <1>4 DEF SaveFails, FilesTyped
  <2>. QED
    BY <2>1, LogSufficesKept
<1>5. CASE Rename(s)
  <2>1. UNCHANGED <<log, exposed>> /\ (dir.snap' = None => dir.snap = None)
    BY <1>5 DEF Rename
  <2>. QED
    BY <2>1, LogSufficesKept
<1>6. CASE WriteHead(s) \/ WriteRest(s) \/ WriteMeta(s)
  BY <1>6, LogSufficesKept DEF WriteHead, WriteRest, WriteMeta, disk
<1>7. CASE Truncate(s)
  <2>1. UNCHANGED dir /\ exposed \subseteq exposed'
    BY <1>7 DEF Truncate
  <2>2. ASSUME dir.snap = None, exposed' \subseteq {"torn"}
        PROVE  FALSE
    <3>1. OneSaver
      BY <2>1, <2>2 DEF DurInv, FilesSound
    <3>. QED
      BY <1>7, <2>2, <3>1 DEF Truncate, OneSaver
  <2>. QED
    BY <2>1, <2>2 DEF LogSuffices
<1>. QED
  BY <1>2, <1>3, <1>4, <1>5, <1>6, <1>7 DEF SaveStep

LEMMA LogSufficesNext == DurInv /\ Traceable /\ LogSuffices /\ [Next]_vars => LogSuffices'
<1>. SUFFICES ASSUME DurInv, Traceable, LogSuffices, [Next]_vars PROVE LogSuffices'
  OBVIOUS
<1>1. ASSUME NEW rec \in Requests, Log(rec) \/ LogFails(rec)
      PROVE  LogSuffices'
  BY <1>1, LogSufficesLog, LogSufficesLogFails
<1>2. CASE \E rec \in Requests : WriteUnlogged(rec)
  BY <1>2 DEF WriteUnlogged, LogSuffices
<1>3. CASE Store \/ LoadRead \/ Signal \/ Stop \/ Restart \/ UNCHANGED vars
  BY <1>3, LogSufficesKept DEF Store, LogSteady, LoadRead, Signal, Stop, Down, Restart, vars, disk
<1>4. CASE LoadReplace
  BY <1>4 DEF LoadReplace, LogSuffices
<1>5. CASE \E s \in Savers : Capture(s) \/ SaveStep(s)
  BY <1>5, LogSufficesSave
<1>6. CASE Crash
  BY <1>6, LogSufficesCrash
<1>. QED
  BY <1>1, <1>2, <1>3, <1>4, <1>5, <1>6 DEF Next

(* As long as neither a record nor a damaged line is too long to be read,  *)
(* a start is refused only because of a snapshot: the log alone always     *)
(* replays, a damaged line included, and when nothing that may cost data   *)
(* has happened the log that a snapshot refuses holds a record of a vertex *)
(* that a later record deletes (wal.go:44-104, main.go:28-45).             *)
THEOREM RefusedForStaleOnly == Spec => []RefusedForStaleRecords
<1>1. Init => LogSuffices
  BY LogSufficesInit
<1>2. DurInv /\ Traceable /\ LogSuffices /\ [Next]_vars => LogSuffices'
  BY LogSufficesNext
<1>3. DurInv /\ Traceable /\ LogSuffices => RefusedForStaleRecords
  <2>. SUFFICES ASSUME DurInv, Traceable, LogSuffices, exposed \subseteq {"torn"}, ~Recovered.ok
                PROVE  /\ dir.snap # None
                       /\ exposed = {} => Stale(ScannedLines(log))
    BY DEF RefusedForStaleRecords, Stale
  <2>1. dir.snap # None
    BY DEF LogSuffices, Recovered, RecoverOnto
  <2>2. exposed = {} => Stale(ScannedLines(log))
    BY RecoveredFaithful DEF Traceable
  <2>. QED
    BY <2>1, <2>2
<1>. QED
  BY <1>1, <1>2, <1>3, TraceAlways, PTL DEF Spec
=============================================================================
