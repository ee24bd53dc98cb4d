------------------------------ MODULE MemStore ------------------------------
(***************************************************************************)
(* storage.MemStore: two hash maps of elements, two adjacency maps from a  *)
(* vertex to the ids of its edges, and the next identifiers a snapshot     *)
(* carries.  Every method runs under the store's own mutex, so each one is *)
(* an operator from a store to the store it leaves behind.  Where a method *)
(* can refuse, a predicate Can... names the condition under which it does  *)
(* not; the caller decides what a refusal means.                           *)
(***************************************************************************)
EXTENDS Naturals, FiniteSets

(* Finite maps, as Go's map type uses them. *)
Put(f, k, v) == [x \in DOMAIN f \cup {k} |-> IF x = k THEN v ELSE f[x]]
Without(f, K) == [x \in DOMAIN f \ K |-> f[x]]
EmptyMap == [x \in {} |-> {}]

Raise(n, m) == IF m > n THEN m ELSE n

NewMemStore ==
    [vertices |-> EmptyMap, edges |-> EmptyMap,
     out |-> EmptyMap, in |-> EmptyMap, nextV |-> 1, nextE |-> 1]

HasVertex(s, id) == id \in DOMAIN s.vertices
HasEdge(s, id) == id \in DOMAIN s.edges

CanAddVertex(s, id) == ~HasVertex(s, id)

AddVertex(s, id, v) ==
    [s EXCEPT !.vertices = Put(s.vertices, id, v),
              !.out = Put(s.out, id, {}),
              !.in = Put(s.in, id, {}),
              !.nextV = Raise(s.nextV, id + 1)]

UpdateVertex(s, id, v) == [s EXCEPT !.vertices = Put(s.vertices, id, v)]

CanAddEdge(s, id, e) ==
    ~HasEdge(s, id) /\ HasVertex(s, e.from) /\ HasVertex(s, e.to)

\* Mutant: the reverse adjacency set is forgotten.
AddEdgeOutOnly(s, id, e) ==
    [s EXCEPT !.edges = Put(s.edges, id, e),
              !.out[e.from] = s.out[e.from] \cup {id},
              !.nextE = Raise(s.nextE, id + 1)]

AddEdge(s, id, e) ==
    [s EXCEPT !.edges = Put(s.edges, id, e),
              !.out[e.from] = s.out[e.from] \cup {id},
              !.in[e.to] = s.in[e.to] \cup {id},
              !.nextE = Raise(s.nextE, id + 1)]

(***************************************************************************)
(* DeleteEdge applied to every id of E, in whatever order Go's map         *)
(* iteration yields: the removals touch disjoint entries and commute.      *)
(***************************************************************************)
DeleteEdges(s, E) ==
    [s EXCEPT !.edges = Without(s.edges, E),
              !.out = [v \in DOMAIN s.out |->
                          {e \in s.out[v] : e \notin E \/ s.edges[e].from # v}],
              !.in = [v \in DOMAIN s.in |->
                          {e \in s.in[v] : e \notin E \/ s.edges[e].to # v}]]

DeleteEdge(s, id) == DeleteEdges(s, {id})

CanDeleteVertex(s, id) == HasVertex(s, id) /\ s.out[id] = {} /\ s.in[id] = {}

DeleteVertex(s, id) ==
    [s EXCEPT !.vertices = Without(s.vertices, {id}),
              !.out = Without(s.out, {id}),
              !.in = Without(s.in, {id})]

(* The ids of the edges at a vertex; reading a missing entry of a Go map   *)
(* yields the empty set.                                                   *)
EdgesOf(s, id, dir) ==
    LET ids(adj) == IF id \in DOMAIN adj THEN adj[id] ELSE {}
    IN  CASE dir = "OUT"  -> ids(s.out)
          [] dir = "IN"   -> ids(s.in)
          [] dir = "BOTH" -> ids(s.out) \cup ids(s.in)

SetNextIDs(s, v, e) ==
    [s EXCEPT !.nextV = Raise(s.nextV, v), !.nextE = Raise(s.nextE, e)]

(***************************************************************************)
(* What Graph.Snapshot reads in one critical section, and Reset, which     *)
(* builds a fresh store out of a snapshot and swaps it in; it refuses an   *)
(* edge whose endpoint the snapshot lacks.  The next identifiers are those *)
(* the additions reach, raised to the recorded ones.                       *)
(***************************************************************************)
SnapshotOf(s) == [vertices |-> s.vertices, edges |-> s.edges,
                  nextV |-> s.nextV, nextE |-> s.nextE]

CanReset(snap) ==
    \A e \in DOMAIN snap.edges :
        {snap.edges[e].from, snap.edges[e].to} \subseteq DOMAIN snap.vertices

(* The least number from n upwards that exceeds every id of a set. *)
NextAfter(ids, n) ==
    CHOOSE m \in {n} \cup {i + 1 : i \in ids} : m >= n /\ \A i \in ids : i < m

Reset(snap) ==
    LET at(field, v) == {e \in DOMAIN snap.edges : snap.edges[e][field] = v}
    IN  [vertices |-> snap.vertices, edges |-> snap.edges,
         out |-> [v \in DOMAIN snap.vertices |-> at("from", v)],
         in |-> [v \in DOMAIN snap.vertices |-> at("to", v)],
         nextV |-> NextAfter(DOMAIN snap.vertices, Raise(1, snap.nextV)),
         nextE |-> NextAfter(DOMAIN snap.edges, Raise(1, snap.nextE))]
=============================================================================
