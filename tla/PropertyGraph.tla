--------------------------- MODULE PropertyGraph ----------------------------
(***************************************************************************)
(* What the graph engine promises, without adjacency maps, identifier      *)
(* counters, locks or logs: a directed multigraph in which an edge exists  *)
(* only between vertices that exist, and which can be put back to a state  *)
(* that was saved earlier.                                                 *)
(***************************************************************************)
CONSTANTS VertexIds, EdgeIds, VertexContents, EdgeLabels

VARIABLES vertices, edges, saved

vars == <<vertices, edges, saved>>

NoElements == [x \in {} |-> {}]
With(f, k, v) == [x \in DOMAIN f \cup {k} |-> IF x = k THEN v ELSE f[x]]
Minus(f, K) == [x \in DOMAIN f \ K |-> f[x]]

Init == vertices = NoElements /\ edges = NoElements /\ saved = {}

AddVertex(id, c) ==
    /\ id \notin DOMAIN vertices
    /\ vertices' = With(vertices, id, c)
    /\ UNCHANGED <<edges, saved>>

ChangeVertex(id, c) ==
    /\ id \in DOMAIN vertices
    /\ vertices' = With(vertices, id, c)
    /\ UNCHANGED <<edges, saved>>

IncidentEdges(id) == {e \in DOMAIN edges : id \in {edges[e].from, edges[e].to}}

RemoveVertex(id) ==
    /\ id \in DOMAIN vertices
    /\ vertices' = Minus(vertices, {id})
    /\ edges' = Minus(edges, IncidentEdges(id))
    /\ UNCHANGED saved

AddEdge(id, from, to, label) ==
    /\ id \notin DOMAIN edges
    /\ {from, to} \subseteq DOMAIN vertices
    /\ edges' = With(edges, id, [from |-> from, to |-> to, label |-> label])
    /\ UNCHANGED <<vertices, saved>>

RemoveEdge(id) ==
    /\ id \in DOMAIN edges
    /\ edges' = Minus(edges, {id})
    /\ UNCHANGED <<vertices, saved>>

Save == saved' = saved \cup {<<vertices, edges>>} /\ UNCHANGED <<vertices, edges>>

GoBack == <<vertices', edges'>> \in saved /\ UNCHANGED saved

Next ==
    \/ \E id \in VertexIds, c \in VertexContents : AddVertex(id, c)
    \/ \E id \in VertexIds, c \in VertexContents : ChangeVertex(id, c)
    \/ \E id \in VertexIds : RemoveVertex(id)
    \/ \E id \in EdgeIds, from, to \in VertexIds, l \in EdgeLabels :
           AddEdge(id, from, to, l)
    \/ \E id \in EdgeIds : RemoveEdge(id)
    \/ Save
    \/ GoBack

Spec == Init /\ [][Next]_vars
=============================================================================
