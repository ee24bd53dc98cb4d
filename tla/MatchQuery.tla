----------------------------- MODULE MatchQuery -----------------------------
(***************************************************************************)
(* query.Executor.match: candidates from the label index or from all       *)
(* vertices, then for each the edges, then for each edge the other end.    *)
(* The index is read without g.mu: it may be in the middle of an update,   *)
(* and of a rebuild, and rebuilds and loads that met a writer have left    *)
(* ids in it that lack the label (IndexManager's run IndexRace).           *)
(*                                                                         *)
(* The content of a vertex is its labels and the value of the property     *)
(* that WHERE asks for.  A condition is the variable it is about and the   *)
(* values for which Compare and the operator hold; a row without the       *)
(* property, or whose value does not compare, fails it.                    *)
(***************************************************************************)
EXTENDS GraphReads

MatchStmt(left, dir, label, right, where, limit) ==
    [kind |-> "match", left |-> left, dir |-> dir, label |-> label, right |-> right,
     where |-> where, limit |-> limit, bound |-> TRUE, stale |-> {}, gaps |-> {}]
(* A pattern of one node: no edge is followed. *)
NodeStmt(left, where, limit) == MatchStmt(left, None, None, None, where, limit)
(* RETURN names a variable the pattern does not bind. *)
Unbound(statement) == [statement EXCEPT !.bound = FALSE]
NoCondition == [on |-> "nothing", holds |-> {}]
(* What the index has under the label asked for when it is looked up: ids  *)
(* too many, and ids a rebuild under way has yet to put back.              *)
Indexed(statement, stale, gaps) == [[statement EXCEPT !.stale = stale] EXCEPT !.gaps = gaps]

(* The parser takes three arrows and refuses a limit below 0. *)
ASSUME StatementsParsed ==
    /\ None \notin {"OUT", "IN", "BOTH"}
    /\ \A start \in Starts : start.query.kind = "match" =>
          /\ start.query.limit \in Nat
          /\ start.query.dir \in {"OUT", "IN", "BOTH", None}
          /\ start.query.where.on \in {"nothing", "left", "right", "edge"}
          /\ start.query.stale \subseteq VertexIds

NewMatch ==
    [pc |-> "lookup", ids |-> <<>>, lefts |-> <<>>, left |-> None, arcs |-> {}, seen |-> {},
     result |-> <<>>]

Labelled(label) == {id \in DOMAIN vertices : label \in vertices[id].labels}
LookedUp == (Labelled(query.left) \cup query.stale) \ query.gaps
Bind(id) == [id |-> id, content |-> vertices[id]]
Matching(pc) == Asks({"match"}) /\ At(pc)

matchesCondition(left, edge, right) ==
    CASE query.where.on = "nothing" -> TRUE
      [] query.where.on = "left"    -> left.content.value \in query.where.holds
      [] query.where.on = "right"   -> right # None /\ right.content.value \in query.where.holds
      [] query.where.on = "edge"    -> edge # None /\ edge.label \in query.where.holds

Row(left, edge, right) == [left |-> left, edge |-> edge, right |-> right]
-----------------------------------------------------------------------------
Lookup ==
    /\ Matching("lookup")
    /\ IF query.left = None
       THEN Go([search EXCEPT !.pc = "scan",
                   !.lefts = LET ids == sortedKeys(DOMAIN vertices)
                             IN  [i \in DOMAIN ids |-> Bind(ids[i])]])
       ELSE Go([search EXCEPT !.pc = "read", !.ids = sortedKeys(LookedUp)])

(* The lookup falls between the two halves of an update that takes the     *)
(* entries of a vertex out of the index and puts them back.                *)
LookupDuringUpdate(id, c) ==
    /\ Matching("lookup") /\ query.left # None
    /\ id \in Labelled(query.left) /\ query.left \in c.labels
    /\ UpdateVertex(id, c)
    /\ search' = [search EXCEPT !.pc = "read",
                     !.ids = sortedKeys(LookedUp \ {id})]

\* Mutant: an id the index still holds is taken for a vertex.
ReadLeftUnchecked ==
    /\ Matching("read") /\ search.ids # <<>>
    /\ IF HasVertex(Head(search.ids))
       THEN Go([search EXCEPT !.ids = Tail(@), !.lefts = Append(@, Bind(Head(search.ids)))])
       ELSE Fail("vertex")

\* Mutant: the first id that is gone ends the list.
ReadLeftBreaks ==
    /\ Matching("read") /\ search.ids # <<>>
    /\ LET id == Head(search.ids)
       IN  IF HasVertex(id) THEN Go([search EXCEPT !.ids = Tail(@), !.lefts = Append(@, Bind(id))])
           ELSE Go([search EXCEPT !.ids = <<>>])

\* Mutant: an id that is gone is asked for again.
ReadLeftRetries ==
    /\ Matching("read") /\ search.ids # <<>> /\ HasVertex(Head(search.ids))
    /\ Go([search EXCEPT !.ids = Tail(@), !.lefts = Append(@, Bind(Head(search.ids)))])

(* A vertex that is gone is left out; its labels are not looked at again. *)
ReadLeft ==
    /\ Matching("read") /\ search.ids # <<>>
    /\ LET id == Head(search.ids)
       IN  Go([search EXCEPT !.ids = Tail(@),
                  !.lefts = IF HasVertex(id) THEN Append(@, Bind(id)) ELSE @])

Scan == Matching("read") /\ search.ids = <<>> /\ Go([search EXCEPT !.pc = "scan"])

(* A row is projected and shown; only then the limit is looked at. *)
Show(rest, rows) ==
    IF ~query.bound THEN Fail("variable")
    ELSE IF Len(rows) >= query.limit THEN Answer(rows)
    ELSE Go([rest EXCEPT !.result = rows])

MatchVertices ==
    /\ Matching("scan") /\ query.dir = None /\ search.lefts # <<>>
    /\ LET left == Head(search.lefts)
           rest == [search EXCEPT !.lefts = Tail(@)]
       IN  IF matchesCondition(left, None, None)
           THEN Show(rest, Append(search.result, Row(left, None, None)))
           ELSE Go(rest)

\* Mutant: an edge met from its other end is not recognised.
MatchEdgesForgets ==
    /\ Matching("scan") /\ query.dir # None /\ search.lefts # <<>>
    /\ LET left == Head(search.lefts)
           all == EdgesOf(left.id, query.dir)
           fit == {e \in all : query.label \in {None, edges[e].label}}
       IN  IF ~HasVertex(left.id) THEN Fail("vertex")
           ELSE Go([search EXCEPT !.pc = "join", !.left = left, !.lefts = Tail(@),
                       !.arcs = {<<e, edges[e]>> : e \in fit}])

(* matchEdges comes to the next candidate and reads its edges.  In an      *)
(* undirected pattern each of them counts as seen from now on.             *)
MatchEdges ==
    /\ Matching("scan") /\ query.dir # None /\ search.lefts # <<>>
    /\ LET left == Head(search.lefts)
           all == EdgesOf(left.id, query.dir)
           fit == {e \in all \ search.seen : query.label \in {None, edges[e].label}}
       IN  IF ~HasVertex(left.id) THEN Fail("vertex")
           ELSE Go([search EXCEPT !.pc = "join", !.left = left, !.lefts = Tail(@),
                       !.seen = IF query.dir = "BOTH" THEN @ \cup all ELSE @,
                       !.arcs = {<<e, edges[e]>> : e \in fit}])

\* Mutant: the label of the right end is looked for at the left end.
JoinChecksLeft(arc) ==
    /\ Matching("join") /\ arc \in search.arcs
    /\ LET id == Other(arc[2], search.left.id, query.dir)
           rest == [search EXCEPT !.arcs = @ \ {arc}]
       IN  IF ~HasVertex(id) \/ (query.right # None /\ query.right \notin search.left.content.labels)
           THEN Go(rest)
           ELSE Go([rest EXCEPT !.result = Append(@, Row(search.left, arc[1], Bind(id)))])

(* The other end of one of them, in the order of a Go map. *)
Join(arc) ==
    /\ Matching("join") /\ arc \in search.arcs
    /\ LET id == Other(arc[2], search.left.id, query.dir)
           rest == [search EXCEPT !.arcs = @ \ {arc}]
           rows == Append(search.result, Row(search.left, arc[1], Bind(id)))
       IN  IF \/ ~HasVertex(id)
              \/ query.right # None /\ id \notin Labelled(query.right)
              \/ ~matchesCondition(search.left, arc[2], Bind(id))
           THEN Go(rest) ELSE Show(rest, rows)

NextLeft == Matching("join") /\ search.arcs = {} /\ Go([search EXCEPT !.pc = "scan"])

NoMoreLefts ==
    Matching("scan") /\ search.lefts = <<>> /\ Answer(search.result)

Match ==
    \/ Lookup \/ ReadLeft \/ Scan \/ MatchVertices \/ MatchEdges \/ NextLeft \/ NoMoreLefts
    \/ Asks({"match"}) /\ \E arc \in search.arcs : Join(arc)
-----------------------------------------------------------------------------
(***************************************************************************)
(* The reference definition, over the vertices vs and the edges es.        *)
(***************************************************************************)
Fits(es, left, e, right) ==
    /\ \/ query.dir # "IN" /\ es[e].from = left.id /\ es[e].to = right.id
       \/ query.dir # "OUT" /\ es[e].to = left.id /\ es[e].from = right.id
    /\ query.label \in {None, es[e].label}
    /\ query.right = None \/ query.right \in right.content.labels
    /\ matchesCondition(left, es[e], right)

LeftFits(left) == query.left = None \/ query.left \in left.content.labels

Matches(vs, es) ==
    LET bound == {[id |-> id, content |-> vs[id]] : id \in DOMAIN vs}
    IN  {m \in [left : bound, edge : DOMAIN es, right : bound] :
            LeftFits(m.left) /\ Fits(es, m.left, m.edge, m.right)}

(* The vertices that nothing happened to while the query ran. *)
Lasting == [id \in DOMAIN vertices \ touched |-> vertices[id]]
Rows == {search.result[i] : i \in DOMAIN search.result}
Matched == Asks({"match"}) /\ At("done")
Truncated == Len(search.result) >= query.limit
(* A rebuild does not keep the vertex out of the candidates. *)
Listed(id) == query.left = None \/ id \notin query.gaps
HadLabel(id) ==
    \E g \in lived : id \in DOMAIN g.vertices /\ LeftFits([content |-> g.vertices[id]])

(* executor.go:47-100: whatever changes meanwhile, a row shows contents    *)
(* that the two vertices had during the query and an edge there was        *)
(* between them, they satisfy the pattern and the condition, the candidate *)
(* had its label at some time or the index listed it by mistake, no edge   *)
(* is shown twice from one candidate, and a limit above 0 holds.           *)
RowsExisted ==
    LET was(v) == \E g \in lived : v.id \in DOMAIN g.vertices /\ g.vertices[v.id] = v.content
    IN  Matched =>
          /\ IsInjective([i \in DOMAIN search.result |->
                            <<search.result[i].left.id, search.result[i].edge>>])
          /\ query.limit > 0 => Len(search.result) =< query.limit
          /\ \A row \in Rows :
                /\ was(row.left)
                /\ HadLabel(row.left.id) \/ row.left.id \in query.stale
                /\ query.dir = None => matchesCondition(row.left, None, None)
                /\ query.dir # None => /\ was(row.right) /\ row.edge \in EverIds
                                       /\ Fits(Ever, row.left, row.edge, row.right)

(* executor.go:65-100: a directed match of vertices and an edge that       *)
(* nothing happens to is never missed below the limit, not even when the   *)
(* index is caught in the middle of another update, nor is a row of one    *)
(* vertex; only what a rebuild has not yet put back may be.                *)
RowsComplete ==
    Matched /\ ~Truncated =>
        /\ query.dir \in {"OUT", "IN"} =>
              {m \in Matches(Lasting, Always) : Listed(m.left.id)} \subseteq Rows
        /\ query.dir = None =>
              \A id \in {id \in DOMAIN Lasting : Listed(id)} :
                  LET v == [id |-> id, content |-> Lasting[id]]
                  IN  LeftFits(v) /\ matchesCondition(v, None, None) => Row(v, None, None) \in Rows

(* DESIGN.md:336, 345: an undirected pattern shows every edge that fits it *)
(* from one of its ends.                                                   *)
UndirectedComplete ==
    Matched /\ ~Truncated /\ query.dir = "BOTH" =>
        \A m \in Matches(Lasting, Always) : \E row \in Rows : row.edge = m.edge

(* executor.go:78-81: it shows no edge twice, and none is missed when the  *)
(* pattern asks nothing of the two ends.                                   *)
UndirectedOnce ==
    Matched /\ query.dir = "BOTH" =>
        /\ \A i, j \in DOMAIN search.result :
              search.result[i].edge = search.result[j].edge => i = j
        /\ query.left = None /\ query.right = None /\ ~(query.where.on \in {"left", "right"}) =>
              UndirectedComplete
=============================================================================
