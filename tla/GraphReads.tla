----------------------------- MODULE GraphReads -----------------------------
(***************************************************************************)
(* What a query sees of the graph.  The graph is that of PropertyGraph,    *)
(* which the engine implements; every read a query makes takes g.mu for    *)
(* itself, so writers come in between any two of them.  One query runs     *)
(* among writers; the graphs it lives through are kept to judge its answer.*)
(***************************************************************************)
EXTENDS Naturals, FiniteSets, SequencesExt, FiniteSetsExt

CONSTANTS
    VertexIds, EdgeIds, VertexContents, EdgeLabels,
    Starts, \* a query, the vertices and edges of the graph it meets, and a
            \* bound of the model: how many writes may fall into its time
    None

VARIABLES
    vertices, edges, \* the graph
    query,           \* the request
    search,          \* how far its handler has come
    lived,           \* history: the graphs since the request arrived
    touched,         \* history: the vertices created, updated or deleted since then
    writes           \* number of writes that may still come

G == INSTANCE PropertyGraph WITH saved <- {}

(* Identifiers are numbers of a fixed width.  Whatever graph a request     *)
(* meets, its edges join vertices of it: the engine sees to that.          *)
IsGraph(g) ==
    /\ DOMAIN g.vertices \subseteq VertexIds
    /\ DOMAIN g.edges \subseteq EdgeIds
    /\ \A e \in DOMAIN g.edges : {g.edges[e].from, g.edges[e].to} \subseteq DOMAIN g.vertices

ASSUME IdsAreNumbers ==
    /\ VertexIds \in SUBSET Nat /\ IsFiniteSet(VertexIds)
    /\ EdgeIds \in SUBSET Nat /\ IsFiniteSet(EdgeIds)
ASSUME StartsWithGraph == \A start \in Starts : IsGraph(start)

graph == <<vertices, edges>>
vars == <<vertices, edges, query, search, lived, touched, writes>>

(* Edge.Other for an edge the store lists under id for that direction. *)
Other(e, id, dir) == IF dir # "IN" /\ e.from = id THEN e.to ELSE e.from

(* Graph.EdgesOf of a vertex that exists; a self-loop is listed once. *)
EdgesOf(id, dir) ==
    {e \in DOMAIN edges : \/ dir # "IN" /\ edges[e].from = id
                          \/ dir # "OUT" /\ edges[e].to = id}

HasVertex(id) == id \in DOMAIN vertices

(* The ids of a map or of an index entry, in ascending order. *)
sortedKeys(ids) ==
    CHOOSE s \in SetToSeqs(ids) : \A i, j \in DOMAIN s : i < j => s[i] < s[j]

Asks(kinds) == query.kind \in kinds
At(pc) == search.pc = pc
Open == search.pc \notin {"done", "failed"}

(* A step of the handler, and the two ways it ends. *)
Go(new) == search' = new /\ UNCHANGED <<vertices, edges, query, lived, touched, writes>>
Fail(why) == Go([search EXCEPT !.pc = "failed", !.result = why])
Answer(result) == Go([search EXCEPT !.pc = "done", !.result = result])
-----------------------------------------------------------------------------
Ids == UNION {DOMAIN g.vertices : g \in lived}
EverIds == UNION {DOMAIN g.edges : g \in lived}

Wrote(ids) ==
    /\ Open /\ writes > 0
    /\ writes' = writes - 1
    /\ touched' = touched \cup ids
    /\ lived' = lived \cup {[vertices |-> vertices', edges |-> edges']}
    /\ query' = query

CreateVertex(c) ==
    LET id == Max(Ids \cup {0}) + 1
    IN  id \in VertexIds /\ G!AddVertex(id, c) /\ Wrote({id}) /\ UNCHANGED search

UpdateVertex(id, c) == G!ChangeVertex(id, c) /\ Wrote({id})

DeleteVertex(id) == G!RemoveVertex(id) /\ Wrote({id}) /\ UNCHANGED search

CreateEdge(from, to, label) ==
    LET id == Max(EverIds \cup {0}) + 1
    IN  id \in EdgeIds /\ G!AddEdge(id, from, to, label) /\ Wrote({}) /\ UNCHANGED search

DeleteEdge(id) == G!RemoveEdge(id) /\ Wrote({}) /\ UNCHANGED search

Write ==
    \/ \E c \in VertexContents : CreateVertex(c)
    \/ \E id \in VertexIds, c \in VertexContents : UpdateVertex(id, c) /\ UNCHANGED search
    \/ \E id \in VertexIds : DeleteVertex(id)
    \/ \E from, to \in VertexIds, label \in EdgeLabels : CreateEdge(from, to, label)
    \/ \E id \in EdgeIds : DeleteEdge(id)
-----------------------------------------------------------------------------
(* The edges that existed at some time during the query, and at all times. *)
Ever == [e \in EverIds |-> (CHOOSE g \in lived : e \in DOMAIN g.edges).edges[e]]
Always == G!Minus(Ever, {e \in EverIds : \E g \in lived : e \notin DOMAIN g.edges})

(* A vertex that was there during the query is gone. *)
Deleted == ~(Ids \subseteq DOMAIN vertices)
=============================================================================
