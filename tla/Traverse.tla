------------------------------ MODULE Traverse ------------------------------
(***************************************************************************)
(* traverse.Traverser: level-order and depth-first search, simple paths,   *)
(* shortest paths and cycle detection, one read of the graph at a time.    *)
(* What is left of a recursion or a loop is the agenda; each step takes    *)
(* one item of it.                                                         *)
(***************************************************************************)
EXTENDS GraphReads, Integers

CONSTANT Weight \* the weight each edge label stands for, None where it is no number

SearchKinds == {"bfs", "dfs", "paths", "unweighted", "weighted", "cycle"}

(* The requests: neighbors, path, and PATH and SHORTEST of the query       *)
(* language.  A path request with a positive depth asks for all paths.     *)
NeighborsQuery(from, dir, depth, labels) ==
    [kind |-> "bfs", from |-> from, dir |-> dir, depth |-> depth, labels |-> labels]
PathQuery(from, to, depth, weighted) ==
    [kind |-> IF weighted THEN "weighted" ELSE IF depth > 0 THEN "paths" ELSE "unweighted",
     from |-> from, to |-> to, dir |-> "OUT", depth |-> depth, labels |-> {}]
DfsQuery(from, dir, depth) ==
    [kind |-> "dfs", from |-> from, dir |-> dir, depth |-> depth, labels |-> {}]
CycleQuery == [kind |-> "cycle", dir |-> "OUT", labels |-> {}]

(* The API refuses a negative depth and the parser one out of 1..64.  A    *)
(* weight is a number or none; an edge's label says which.                 *)
ASSUME SearchesParsed ==
    \A start \in Starts :
        LET q == start.query
        IN  /\ q.kind \in {"bfs", "dfs", "paths"} => q.depth \in Nat
            /\ q.kind \in SearchKinds \ {"cycle"} => "from" \in DOMAIN q
            /\ q.kind \in {"paths", "unweighted", "weighted"} =>
                  "to" \in DOMAIN q /\ q.dir = "OUT" /\ q.labels = {}
ASSUME WeightsAreNumbers ==
    /\ None \notin Int
    /\ \A label \in DOMAIN Weight : Weight[label] \in Int \cup {None}
    /\ EdgeLabels \subseteq DOMAIN Weight
    /\ \A start \in Starts : \A e \in DOMAIN start.edges : start.edges[e].label \in DOMAIN Weight

(* visited: the ids reached; notes: tentative distances, or colours. *)
NewSearch(q) ==
    [pc |-> IF q.kind = "cycle" THEN "list" ELSE "from", agenda |-> <<>>, visited |-> {},
     notes |-> [id \in {} |-> 0], result |-> <<>>]
-----------------------------------------------------------------------------
(* Traverser.Neighbors: the edges of one read, and the ids they lead to. *)
Arcs(id) ==
    {e \in EdgesOf(id, query.dir) : query.labels = {} \/ edges[e].label \in query.labels}
ArcsTo(id, next) == {e \in Arcs(id) : Other(edges[e], id, query.dir) = next}
Neighbors(id) == {Other(edges[e], id, query.dir) : e \in Arcs(id)}

Visits(ids, depth) == [i \in DOMAIN ids |-> [id |-> ids[i], depth |-> depth]]
Extended(path, ids) == [i \in DOMAIN ids |-> Append(path, ids[i])]

Item == Head(search.agenda)
Rest == Tail(search.agenda)
Working(kinds) == Asks(kinds) /\ At("run") /\ search.agenda # <<>>

(* The endpoints are looked up one after the other, before anything else. *)
CheckFrom ==
    /\ Asks(SearchKinds) /\ At("from")
    /\ CASE ~HasVertex(query.from) -> Fail("vertex")
         [] HasVertex(query.from) /\ Asks({"bfs", "dfs"}) ->
              Go([search EXCEPT !.pc = "run", !.agenda = Visits(<<query.from>>, 0),
                     !.visited = IF Asks({"bfs"}) THEN {query.from} ELSE {},
                     !.result = IF Asks({"bfs"}) THEN Visits(<<query.from>>, 0) ELSE <<>>])
         [] OTHER -> Go([search EXCEPT !.pc = "to"])

CheckTo ==
    /\ Asks(SearchKinds) /\ At("to")
    /\ CASE ~HasVertex(query.to) -> Fail("vertex")
         [] HasVertex(query.to) /\ Asks({"weighted"}) -> Go([search EXCEPT !.pc = "list"])
         [] HasVertex(query.to) /\ Asks({"unweighted"}) /\ query.from = query.to ->
              Answer([found |-> TRUE, distance |-> 0, path |-> <<query.from>>])
         [] OTHER -> Go([search EXCEPT !.pc = "run", !.agenda = <<<<query.from>>>>,
                            !.visited = {query.from}])

(* The agenda is used up. *)
Exhausted ==
    /\ Asks(SearchKinds) /\ At("run") /\ search.agenda = <<>>
    /\ CASE Asks({"bfs", "dfs", "paths"})       -> Answer(search.result)
         [] Asks({"unweighted", "weighted"})    -> Answer([found |-> FALSE])
         [] Asks({"cycle"})                     -> Answer(FALSE)
-----------------------------------------------------------------------------
\* Mutant: a vertex counts as visited only when its turn comes.
BFSMarksLate ==
    /\ Working({"bfs"})
    /\ LET new == sortedKeys(Neighbors(Item.id) \ search.visited)
           found == Visits(new, Item.depth + 1)
       IN  IF Item.depth >= query.depth THEN Go([search EXCEPT !.agenda = Rest])
           ELSE Go([search EXCEPT !.agenda = Rest \o found,
                       !.visited = @ \cup {Item.id}, !.result = @ \o found])

BFS ==
    /\ Working({"bfs"})
    /\ LET new == sortedKeys(Neighbors(Item.id) \ search.visited)
           found == Visits(new, Item.depth + 1)
       IN  CASE Item.depth >= query.depth -> Go([search EXCEPT !.agenda = Rest])
             [] Item.depth < query.depth /\ ~HasVertex(Item.id) -> Fail("vertex")
             [] OTHER -> Go([search EXCEPT !.agenda = Rest \o found,
                                !.visited = @ \cup ToSet(new), !.result = @ \o found])

\* Mutant: a vertex already visited is walked again.
DFSRevisits ==
    /\ Working({"dfs"})
    /\ LET below == Visits(sortedKeys(Neighbors(Item.id)), Item.depth + 1)
           seen == [search EXCEPT !.visited = @ \cup {Item.id}, !.result = Append(@, Item)]
       IN  IF Item.depth >= query.depth THEN Go([seen EXCEPT !.agenda = Rest])
           ELSE Go([seen EXCEPT !.agenda = below \o Rest])

(* walk: the loop of an outer call looks at visited when it comes to a     *)
(* neighbour, which is when the item is taken here.                        *)
DFS ==
    /\ Working({"dfs"})
    /\ LET below == Visits(sortedKeys(Neighbors(Item.id)), Item.depth + 1)
           seen == [search EXCEPT !.visited = @ \cup {Item.id}, !.result = Append(@, Item)]
       IN  CASE Item.id \in search.visited -> Go([search EXCEPT !.agenda = Rest])
             [] Item.id \notin search.visited /\ Item.depth >= query.depth ->
                  Go([seen EXCEPT !.agenda = Rest])
             [] OTHER -> IF HasVertex(Item.id) THEN Go([seen EXCEPT !.agenda = below \o Rest])
                         ELSE Fail("vertex")

\* Mutant: the depth is tested before the target.
AllSimplePathsShort ==
    /\ Working({"paths"})
    /\ LET new == sortedKeys(Neighbors(Last(Item)) \ ToSet(Item))
       IN  CASE Len(Item) > query.depth -> Go([search EXCEPT !.agenda = Rest])
             [] Len(Item) =< query.depth /\ Last(Item) = query.to ->
                  Go([search EXCEPT !.agenda = Rest, !.result = Append(@, Item)])
             [] OTHER -> Go([search EXCEPT !.agenda = Extended(Item, new) \o Rest])

(* An item is the path that walk has built when it is called; used holds   *)
(* the vertices of that path.                                              *)
AllSimplePaths ==
    /\ Working({"paths"})
    /\ LET new == sortedKeys(Neighbors(Last(Item)) \ ToSet(Item))
       IN  CASE Last(Item) = query.to ->
                  Go([search EXCEPT !.agenda = Rest, !.result = Append(@, Item)])
             [] Last(Item) # query.to /\ Len(Item) > query.depth ->
                  Go([search EXCEPT !.agenda = Rest])
             [] OTHER -> IF HasVertex(Last(Item))
                         THEN Go([search EXCEPT !.agenda = Extended(Item, new) \o Rest])
                         ELSE Fail("vertex")

(* An item carries the path buildPath would follow back from it. *)
ShortestUnweighted ==
    /\ Working({"unweighted"})
    /\ LET new == Neighbors(Last(Item)) \ search.visited
           end == Append(Item, query.to)
       IN  CASE ~HasVertex(Last(Item)) -> Fail("vertex")
             [] HasVertex(Last(Item)) /\ query.to \in new ->
                  Answer([found |-> TRUE, distance |-> Len(end) - 1, path |-> end])
             [] OTHER -> Go([search EXCEPT !.agenda = Rest \o Extended(Item, sortedKeys(new)),
                                !.visited = @ \cup new])
-----------------------------------------------------------------------------
(* Graph.Vertices, for the distances of Dijkstra and the roots of HasCycle. *)
ListVertices ==
    /\ Asks({"weighted", "cycle"}) /\ At("list")
    /\ LET ids == sortedKeys(DOMAIN vertices)
       IN  IF Asks({"weighted"})
           THEN Go([search EXCEPT !.pc = "run",
                       !.notes = [id \in DOMAIN vertices \cup {query.from} |->
                                     IF id = query.from THEN 0 ELSE None],
                       !.agenda = <<[path |-> <<query.from>>, distance |-> 0]>>])
           ELSE Go([search EXCEPT !.pc = "run",
                       !.notes = [id \in VertexIds |-> "white"],
                       !.agenda = [i \in DOMAIN ids |-> [do |-> "root", id |-> ids[i]]]])

(* The lightest of the parallel edges; and what makes Dijkstra give up. *)
Best(arcs) == Min({Weight[edges[e].label] : e \in arcs})
BadWeight(label) == Weight[label] = None \/ (Weight[label] # None /\ Weight[label] < 0)

\* Mutant: the first distance stays.
CloserOnce(next, distance) == next \in DOMAIN search.notes /\ search.notes[next] = None

(* A vertex created after the list was read has Go's zero for a distance.  *)
Closer(next, distance) ==
    next \in DOMAIN search.notes
    /\ (search.notes[next] = None \/ (search.notes[next] # None /\ distance < search.notes[next]))

(* The i-th item is a nearest one; the heap may yield any of them. *)
ShortestWeighted(i) ==
    /\ Working({"weighted"}) /\ i \in DOMAIN search.agenda
    /\ \A j \in DOMAIN search.agenda : search.agenda[i].distance =< search.agenda[j].distance
    /\ LET item == search.agenda[i]
           id == Last(item.path)
           rest == RemoveAt(search.agenda, i)
           via(next) == item.distance + Best(ArcsTo(id, next))
           nearer == {next \in Neighbors(id) : Closer(next, via(next))}
           new == sortedKeys(nearer)
       IN  CASE id \in search.visited -> Go([search EXCEPT !.agenda = rest])
             [] id \notin search.visited /\ id = query.to ->
                  Answer([found |-> TRUE, distance |-> item.distance, path |-> item.path])
             [] OTHER ->
                  IF ~HasVertex(id) THEN Fail("vertex")
                  ELSE IF \E e \in Arcs(id) : BadWeight(edges[e].label) THEN Fail("weight")
                  ELSE Go([search EXCEPT
                             !.visited = @ \cup {id},
                             !.notes = [n \in DOMAIN @ |-> IF n \in nearer THEN via(n) ELSE @[n]],
                             !.agenda = rest \o [k \in DOMAIN new |->
                                 [path |-> Append(item.path, new[k]), distance |-> via(new[k])]]])
-----------------------------------------------------------------------------
\* Mutant: a vertex stays grey when its visit is over.
HasCycleGrey ==
    /\ Working({"cycle"})
    /\ LET id == Item.id
           below == sortedKeys(Neighbors(id))
           grey == [search EXCEPT !.notes[id] = "grey"]
       IN  CASE Item.do = "look" /\ search.notes[id] = "grey" -> Answer(TRUE)
             [] search.notes[id] = "white" ->
                  Go([grey EXCEPT !.agenda =
                        [i \in DOMAIN below |-> [do |-> "look", id |-> below[i]]] \o Rest])
             [] OTHER -> Go([search EXCEPT !.agenda = Rest])

(* visit: grey on entry, black after the last neighbour.  When the read    *)
(* fails, visit reports no cycle and leaves the vertex grey.               *)
HasCycle ==
    /\ Working({"cycle"})
    /\ LET id == Item.id
           below == sortedKeys(Neighbors(id))
           grey == [search EXCEPT !.notes[id] = "grey"]
           looks == [i \in DOMAIN below |-> [do |-> "look", id |-> below[i]]]
       IN  CASE Item.do = "leave" ->
                  Go([search EXCEPT !.notes[id] = "black", !.agenda = Rest])
             [] Item.do = "look" /\ search.notes[id] = "grey" -> Answer(TRUE)
             [] Item.do # "leave" /\ search.notes[id] = "white" ->
                  IF HasVertex(id)
                  THEN Go([grey EXCEPT !.agenda = looks \o <<[do |-> "leave", id |-> id]>> \o Rest])
                  ELSE Go([grey EXCEPT !.agenda = Rest])
             [] OTHER -> Go([search EXCEPT !.agenda = Rest])

Traverse ==
    \/ CheckFrom \/ CheckTo \/ ListVertices \/ Exhausted
    \/ BFS \/ DFS \/ AllSimplePaths \/ ShortestUnweighted \/ HasCycle
    \/ Asks({"weighted"}) /\ \E i \in DOMAIN search.agenda : ShortestWeighted(i)
-----------------------------------------------------------------------------
(***************************************************************************)
(* The reference definitions, over the edges es of one graph.              *)
(***************************************************************************)
ArcsOf(es) ==
    LET used == {es[e] : e \in {d \in DOMAIN es : query.labels = {} \/ es[d].label \in query.labels}}
    IN  (IF query.dir = "IN" THEN {} ELSE {<<e.from, e.to>> : e \in used})
        \cup (IF query.dir = "OUT" THEN {} ELSE {<<e.to, e.from>> : e \in used})

(* The vertices at most n steps away. *)
Reach(es, from, n) ==
    LET within[k \in 0..n] ==
            IF k = 0 THEN {from}
            ELSE within[k - 1] \cup {a[2] : a \in {b \in ArcsOf(es) : b[1] \in within[k - 1]}}
    IN  within[n]

SimplePaths(es, from, to, n) ==
    {p \in UNION {[1..k -> VertexIds] : k \in 1..(n + 1)} :
        /\ p[1] = from /\ Last(p) = to /\ IsInjective(p)
        /\ \A i \in 1..(Len(p) - 1) : <<p[i], p[i + 1]>> \in ArcsOf(es)}

(* The least weight of a walk along p. *)
PathWeight(es, p) ==
    LET hop(i) == Min({Weight[es[e].label] :
                         e \in {d \in DOMAIN es : es[d].from = p[i] /\ es[d].to = p[i + 1]}})
        upTo[k \in 1..Len(p)] == IF k = 1 THEN 0 ELSE upTo[k - 1] + hop(k - 1)
    IN  upTo[Len(p)]
-----------------------------------------------------------------------------
(***************************************************************************)
(* DESIGN.md:108-112 judge an answer by one graph; here the answer comes   *)
(* out of many reads.  What is there all the time must count, and nothing  *)
(* may count that was never there; on a graph nobody changes, the two      *)
(* bounds meet and the answer is exact.                                    *)
(***************************************************************************)
Answered(kinds) == Asks(kinds) /\ At("done")
AllSteps == Cardinality(Ids)

(* bfs.go:25-45: every vertex once, no nearer than the edges of the whole  *)
(* time allow and no farther than those that stayed; none within the depth *)
(* is missing.                                                             *)
LevelsBounded ==
    Answered({"bfs"}) =>
        LET found == search.result
        IN  /\ \A i, j \in DOMAIN found : found[i].id = found[j].id => i = j
            /\ \A i \in DOMAIN found : /\ found[i].depth =< query.depth
                                      /\ found[i].id \in Reach(Ever, query.from, found[i].depth)
            /\ \A n \in 0..query.depth : \A id \in Reach(Always, query.from, n) :
                  \E i \in DOMAIN found : found[i].id = id /\ found[i].depth =< n

(* dfs.go:11-30: every vertex once, at a depth some walk of that length    *)
(* explains; when the depth cuts nothing off, no vertex is missing that    *)
(* was reachable all the time.  (With a depth that cuts, the search misses *)
(* vertices it first meets on a detour, as the code does.)                 *)
DepthFirstBounded ==
    Answered({"dfs"}) =>
        LET found == search.result
        IN  /\ \A i, j \in DOMAIN found : found[i].id = found[j].id => i = j
            /\ \A i \in DOMAIN found : /\ found[i].depth =< query.depth
                                      /\ found[i].id \in Reach(Ever, query.from, found[i].depth)
            /\ query.depth >= AllSteps =>
                  Reach(Always, query.from, AllSteps) \subseteq {found[i].id : i \in DOMAIN found}

(* path.go:17-29, DESIGN.md:322: all simple paths of the edges that stay *)
(* are listed, each once, and only simple paths of edges that existed, no  *)
(* longer than the depth.                                                  *)
PathsBounded ==
    Answered({"paths"}) =>
        /\ IsInjective(search.result)
        /\ ToSet(search.result) \subseteq SimplePaths(Ever, query.from, query.to, query.depth)
        /\ SimplePaths(Always, query.from, query.to, query.depth) \subseteq ToSet(search.result)

(* path.go:30-92, DESIGN.md:112: a shortest path consists of edges that  *)
(* existed, is no longer than any path that was there all the time, and is *)
(* found if there was one.                                                 *)
ShortestBounded ==
    Answered({"unweighted", "weighted"}) /\ (\A e \in EverIds : ~BadWeight(Ever[e].label)) =>
        LET r == search.result
            length(es, p) == IF Asks({"weighted"}) THEN PathWeight(es, p) ELSE Len(p) - 1
            lasting == SimplePaths(Always, query.from, query.to, AllSteps)
        IN  /\ r.found => /\ r.path \in SimplePaths(Ever, query.from, query.to, AllSteps)
                          /\ length(Ever, r.path) =< r.distance
                          /\ \A p \in lasting : r.distance =< length(Always, p)
            /\ lasting # {} => r.found

OnCycle(es, id) ==
    \E a \in ArcsOf(es) : a[1] = id /\ id \in Reach(es, a[2], AllSteps)

(* dfs.go:34-60: a cycle that is there all the time is found, and a cycle  *)
(* that is reported did come about, unless a vertex was deleted meanwhile: *)
(* the one whose read failed stays grey.                                   *)
CycleBounded ==
    Answered({"cycle"}) =>
        /\ (\E id \in Ids : OnCycle(Always, id)) => search.result
        /\ search.result /\ ~Deleted => \E id \in Ids : OnCycle(Ever, id)
=============================================================================
