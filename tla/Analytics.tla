----------------------------- MODULE Analytics ------------------------------
(***************************************************************************)
(* analytics.Build and analytics.Quality: reports over one snapshot of the *)
(* graph, which is read in one piece.  A vertex without a value has no     *)
(* properties.  PageRank and the edges' properties are left out.           *)
(***************************************************************************)
EXTENDS GraphReads

ReportQuery(limit) == [kind |-> "report", dir |-> "BOTH", labels |-> {}, limit |-> limit]
QualityQuery == [kind |-> "quality"]

(* server.go:193 refuses a limit out of bounds. *)
ASSUME ReportsParsed ==
    \A start \in Starts : start.query.kind = "report" => \E n \in 1..100 : start.query = ReportQuery(n)

(* The limit of a request that names none, or one out of bounds. *)
Limit(n) == IF n < 1 THEN 10 ELSE Min({n, 100})

Out(id) == Cardinality({e \in DOMAIN edges : edges[e].from = id})
In(id) == Cardinality({e \in DOMAIN edges : edges[e].to = id})
Total(id) == In(id) + Out(id)
SelfLoops == {e \in DOMAIN edges : edges[e].from = edges[e].to}

\* Mutant: an edge is entered at its source only.
nearOneWay(id) == {edges[e].to : e \in {d \in DOMAIN edges : edges[d].from = id}} \ {id}

near(id) ==
    {Other(edges[e], id, "BOTH") : e \in EdgesOf(id, "BOTH") \ SelfLoops}

(* What the queue that starts with id adds to the vertices seen. *)
Flooded(seen, id) ==
    LET reached[k \in 0..Cardinality(DOMAIN vertices)] ==
            IF k = 0 THEN seen \cup {id}
            ELSE reached[k - 1] \cup UNION {near(v) : v \in reached[k - 1] \ seen}
    IN  reached[Cardinality(DOMAIN vertices)]

(* One flood for each vertex not seen yet, in the order of a Go map. *)
Components(order) ==
    LET found[k \in 0..Len(order)] ==
            IF k = 0 THEN [seen |-> {}, count |-> 0]
            ELSE IF order[k] \in found[k - 1].seen THEN found[k - 1]
            ELSE [seen |-> Flooded(found[k - 1].seen, order[k]), count |-> found[k - 1].count + 1]
    IN  found[Len(order)].count

Before(a, b) == Total(a) > Total(b) \/ (Total(a) = Total(b) /\ a < b)

TopDegrees(limit) ==
    LET ids == CHOOSE s \in SetToSeqs(DOMAIN vertices) :
                   \A i, j \in DOMAIN s : i < j => Before(s[i], s[j])
    IN  [i \in 1..Min({Len(ids), Limit(limit)}) |-> [id |-> ids[i], in |-> In(ids[i]), out |-> Out(ids[i])]]

Build ==
    /\ Asks({"report"}) /\ At("from")
    /\ \E order \in SetToSeqs(DOMAIN vertices) :
          Answer([vertices |-> Cardinality(DOMAIN vertices), edges |-> Cardinality(DOMAIN edges),
                  components |-> Components(order),
                  isolated |-> Cardinality({id \in DOMAIN vertices : Total(id) = 0}),
                  selfLoops |-> Cardinality(SelfLoops), top |-> TopDegrees(query.limit)])

Quality ==
    /\ Asks({"quality"}) /\ At("from")
    /\ LET connected == UNION {{edges[e].from, edges[e].to} : e \in DOMAIN edges}
       IN  Answer([unlabeled_vertices |-> Cardinality({id \in DOMAIN vertices : vertices[id].labels = {}}),
                   vertices_without_properties |->
                       Cardinality({id \in DOMAIN vertices : vertices[id].value = None}),
                   isolated_vertices |-> Cardinality(DOMAIN vertices \ connected),
                   self_loops |-> Cardinality(SelfLoops)])
=============================================================================
