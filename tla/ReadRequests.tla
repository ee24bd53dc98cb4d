---------------------------- MODULE ReadRequests ----------------------------
(***************************************************************************)
(* A request that reads, among writers: a search, a MATCH, a report, or    *)
(* the view of the whole graph.  The graph it meets is that of Starts.     *)
(***************************************************************************)
EXTENDS Traverse, MatchQuery, Analytics

Init ==
    /\ \E start \in Starts :
          /\ query = start.query
          /\ vertices = start.vertices /\ edges = start.edges
          /\ writes = start.writes
    /\ search = IF Asks({"match"}) THEN NewMatch ELSE NewSearch(query)
    /\ lived = {[vertices |-> vertices, edges |-> edges]}
    /\ touched = {}

(* GET /api/graph reads the vertices, and then the edges. *)
ViewQuery == [kind |-> "view"]

\* Mutant: the edges are read first.
ViewEdgesFirst ==
    \/ Asks({"view"}) /\ At("from") /\ Go([search EXCEPT !.pc = "edges", !.result = edges])
    \/ Asks({"view"}) /\ At("edges")
       /\ Answer([vertices |-> DOMAIN vertices, edges |-> search.result])

View ==
    \/ Asks({"view"}) /\ At("from")
       /\ Go([search EXCEPT !.pc = "edges", !.visited = DOMAIN vertices])
    \/ Asks({"view"}) /\ At("edges")
       /\ Answer([vertices |-> search.visited, edges |-> edges])

Handle == Traverse \/ Match \/ View \/ Build \/ Quality

Next ==
    \/ Handle
    \/ Write
    \/ \E id \in VertexIds, c \in VertexContents : LookupDuringUpdate(id, c)

Spec == Init /\ [][Next]_vars

(* The handler's reads wait for g.mu only, which lets a waiting reader in. *)
FairSpec == Spec /\ WF_vars(Handle)
-----------------------------------------------------------------------------
(* server.go:64-74: an edge of the view hangs in the air only if one of    *)
(* its ends was created after the vertices had been read and is still      *)
(* there; no vertex and no edge that is there all the time is missing.     *)
ViewBounded ==
    Asks({"view"}) /\ At("done") =>
        LET view == search.result
        IN  /\ \A e \in DOMAIN view.edges :
                  {view.edges[e].from, view.edges[e].to} \ view.vertices
                      \subseteq touched \cap DOMAIN vertices
            /\ DOMAIN Lasting \subseteq view.vertices
            /\ DOMAIN Always \subseteq DOMAIN view.edges

(* analytics.go:16, DESIGN.md:592-593: a report describes one graph of its *)
(* time: whatever the order of the flood's map, there are as many          *)
(* components as classes of vertices that edges of either direction join;  *)
(* nobody of a higher degree is left out of the top; and both reports take *)
(* the same vertices for isolated.                                         *)
ReportExact ==
    Asks({"report", "quality"}) /\ At("done") =>
        \E g \in lived :
            LET r == search.result
                ids == DOMAIN g.vertices
                ends(id) == {e \in DOMAIN g.edges : g.edges[e].from = id} \X {"out"}
                            \cup {e \in DOMAIN g.edges : g.edges[e].to = id} \X {"in"}
                alone == Cardinality({id \in ids : ends(id) = {}})
                degree(id) == Cardinality(ends(id))
                shown == {r.top[i].id : i \in DOMAIN r.top}
            IN  IF Asks({"quality"}) THEN r.isolated_vertices = alone
                ELSE /\ r.components = Cardinality({Reach(g.edges, id, AllSteps) : id \in ids})
                     /\ r.isolated = alone
                     /\ Cardinality(shown) = Min({Cardinality(ids), query.limit})
                     /\ \A i \in DOMAIN r.top : r.top[i].in + r.top[i].out = degree(r.top[i].id)
                     /\ \A id \in shown, other \in ids \ shown : degree(other) =< degree(id)

(* The vertices a search is given. *)
Ends == {query[f] : f \in {"from", "to"} \cap DOMAIN query}

(* A query fails for three reasons: a vertex it was given is not there, or *)
(* one it came upon has been deleted (bfs.go:16, 32, path.go:11, 22,       *)
(* executor.go:75; a MATCH of one node passes over it, executor.go:51); an *)
(* edge has no usable weight (path.go:83-86); RETURN names no variable of  *)
(* the pattern (executor.go:151, 166).                                     *)
FailsForCause ==
    At("failed") =>
        \/ search.result = "vertex" /\ Deleted /\ (Asks({"match"}) => query.dir # None)
        \/ search.result = "vertex" /\ Asks(SearchKinds)
           /\ \E g \in lived : ~(Ends \subseteq DOMAIN g.vertices)
        \/ search.result = "weight" /\ \E e \in EverIds : BadWeight(Ever[e].label)
        \/ search.result = "variable" /\ ~query.bound

(* Whatever the shape of the graph, cycles included, the handler comes to  *)
(* an end once the graph stays as it is (path.go:39-48, 65-95, bfs.go:24,  *)
(* dfs.go:14).  Nothing bounds a search without a depth limit while        *)
(* writers keep making the graph longer ahead of it.                       *)
QueryEnds == <>[][FALSE]_graph => <>~Open
=============================================================================
