---------------------------- MODULE IndexManager ----------------------------
(***************************************************************************)
(* index.Manager beside the graph it serves.  A writer holds g.mu from its *)
(* first check to the last index update, but every update of an index is a *)
(* critical section of that index alone: rebuilds, lookups and the audit   *)
(* fall between the updates of one write.  Reading the graph itself waits  *)
(* for the writer.                                                         *)
(*                                                                         *)
(* An index is the set of its entries.  Values are of one numeric type;    *)
(* module RangeIndex has the sorted slices behind the range index.         *)
(***************************************************************************)
EXTENDS Elements, FiniteSets, SequencesExt

CONSTANTS
    Rebuilders,  \* requests that rebuild the indexes, or load a snapshot and then do
    Auditors,    \* requests that audit the indexes
    MaxVertexId, MaxEdgeId \* bounds of the model: identifiers

(* An element carries finitely many labels and properties. *)
ASSUME FiniteAssumption ==
    /\ IsFiniteSet(Labels) /\ IsFiniteSet(Keys)
    /\ MaxVertexId \in Nat /\ MaxEdgeId \in Nat

VARIABLES
    store,   \* the graph, changed at the start of a write and unseen until its end
    before,  \* history: the graph before the last write
    todo,    \* the index updates the writer that holds g.mu still has to make
    index,   \* m.Labels, m.Properties, m.Ranges and m.edgeLabels
    saved,   \* the snapshot a load installs
    rebuild, \* where each rebuild stands, and the updates it has left
    audit    \* where each audit stands, and what it has found

S == INSTANCE MemStore

vars == <<store, before, todo, index, saved, rebuild, audit>>
graph == <<store, before, todo, saved>>

VertexIds == 1..MaxVertexId
EdgeIds == 1..MaxEdgeId

IndexOf(s) ==
    LET values == UNION {{<<k, s.vertices[id].props[k], id>> : k \in DOMAIN s.vertices[id].props}
                           : id \in DOMAIN s.vertices}
    IN  [labels |-> UNION {{<<l, id>> : l \in s.vertices[id].labels} : id \in DOMAIN s.vertices},
         props |-> values,
         ranges |-> values,
         edges |-> {<<s.edges[id].label, id>> : id \in DOMAIN s.edges}]

(* An audit: the entries its snapshot of the graph calls for, those it has *)
(* yet to look up, those it did not find, and the indexes whose number of  *)
(* entries was another.  gone and met are history: the entries that left   *)
(* an index meanwhile, and what other steps the audit has run among.       *)
NoAudit ==
    [pc |-> "idle", want |-> IndexOf(S!NewMemStore), left |-> {}, missing |-> {}, off |-> {},
     gone |-> {}, met |-> {}]

Init ==
    /\ store = S!NewMemStore /\ before = S!NewMemStore
    /\ todo = <<>>
    /\ index = IndexOf(S!NewMemStore)
    /\ saved = S!SnapshotOf(S!NewMemStore)
    /\ rebuild = [r \in Rebuilders |-> [pc |-> "idle", todo |-> <<>>]]
    /\ audit = [a \in Auditors |-> NoAudit]
-----------------------------------------------------------------------------
(***************************************************************************)
(* The updates of one index by addVertex, removeVertex and EdgeChanged:    *)
(* labels in the order of the vertex, properties in the order in which     *)
(* Go's map iteration happens to yield their names.                        *)
(***************************************************************************)
Update(do, part, entry) == [do |-> do, part |-> part, entry |-> entry]

LabelUpdates(do, id, v) ==
    LET labels == SetToSeq(v.labels)
    IN  [i \in DOMAIN labels |-> Update(do, "labels", <<labels[i], id>>)]

\* Mutant: removeVertex and addVertex forget the range index.
PropertyUpdatesNoRanges(do, v, id, names) ==
    [i \in DOMAIN names |-> Update(do, "props", <<names[i], v.props[names[i]], id>>)]

PropertyUpdates(do, v, id, names) ==
    FlattenSeq([i \in DOMAIN names |->
        LET entry == <<names[i], v.props[names[i]], id>>
        IN  <<Update(do, "props", entry), Update(do, "ranges", entry)>>])

(* Every order in which a vertex may enter ("put") or leave ("drop"). *)
VertexUpdates(do, id, v) ==
    {LabelUpdates(do, id, v) \o PropertyUpdates(do, v, id, names) :
        names \in SetToSeqs(DOMAIN v.props)}

\* Mutant: an edge is entered in the index of the vertex labels.
EdgeUpdateAsLabel(do, id, e) == Update(do, "labels", <<e.label, id>>)

EdgeUpdate(do, id, e) == Update(do, "edges", <<e.label, id>>)

Perform(ix, u) ==
    IF u.do = "put"
    THEN [ix EXCEPT ![u.part] = @ \cup {u.entry}]
    ELSE [ix EXCEPT ![u.part] = @ \ {u.entry}]
-----------------------------------------------------------------------------
(* Writers. *)
GraphFree == todo = <<>>

Write(new, updates) ==
    /\ GraphFree
    /\ store' = new /\ before' = store
    /\ todo' = updates
    /\ UNCHANGED <<index, saved, rebuild>>

CreateVertex(v) ==
    /\ store.nextV =< MaxVertexId
    /\ \E updates \in VertexUpdates("put", store.nextV, v) :
          Write(S!AddVertex(store, store.nextV, v), updates)

\* Mutant: the new entries go in before the old ones come out.
UpdateVertexPutsFirst(id, v) ==
    /\ S!HasVertex(store, id)
    /\ \E drops \in VertexUpdates("drop", id, store.vertices[id]),
          puts \in VertexUpdates("put", id, v) :
          Write(S!UpdateVertex(store, id, v), puts \o drops)

(* VertexChanged(old, current) takes the old entries out and puts the new  *)
(* ones in, those that stay included.                                      *)
UpdateVertex(id, v) ==
    /\ S!HasVertex(store, id)
    /\ \E drops \in VertexUpdates("drop", id, store.vertices[id]),
          puts \in VertexUpdates("put", id, v) :
          Write(S!UpdateVertex(store, id, v), drops \o puts)

(* The edges leave first, in the order of the adjacency map's iteration. *)
DeleteVertex(id) ==
    /\ S!HasVertex(store, id)
    /\ LET E == S!EdgesOf(store, id, "BOTH")
       IN  \E edges \in SetToSeqs(E), drops \in VertexUpdates("drop", id, store.vertices[id]) :
              Write(S!DeleteVertex(S!DeleteEdges(store, E), id),
                    [i \in DOMAIN edges |-> EdgeUpdate("drop", edges[i], store.edges[edges[i]])]
                        \o drops)

CreateEdge(from, to, label) ==
    LET e == NewEdge(from, to, label)
    IN  /\ store.nextE =< MaxEdgeId
        /\ S!CanAddEdge(store, store.nextE, e)
        /\ Write(S!AddEdge(store, store.nextE, e), <<EdgeUpdate("put", store.nextE, e)>>)

DeleteEdge(id) ==
    /\ S!HasEdge(store, id)
    /\ Write(S!DeleteEdge(store, id), <<EdgeUpdate("drop", id, store.edges[id])>>)

(* One update; after the last one the writer releases g.mu. *)
Notify ==
    /\ ~GraphFree
    /\ index' = Perform(index, Head(todo))
    /\ todo' = Tail(todo)
    /\ UNCHANGED <<store, before, saved, rebuild>>
-----------------------------------------------------------------------------
(***************************************************************************)
(* Rebuild, which takes no lock across its steps: four indexes are cleared *)
(* one after the other, the vertices are read and entered, then the edges. *)
(* A load replaces the graph first.                                        *)
(***************************************************************************)
Save ==
    /\ GraphFree
    /\ saved' = S!SnapshotOf(store)
    /\ UNCHANGED <<store, before, todo, index, rebuild>>

Move(r, from, to, updates) ==
    /\ rebuild[r].pc = from
    /\ rebuild' = [rebuild EXCEPT ![r] = [pc |-> to, todo |-> updates]]

StartRebuild(r) ==
    /\ Move(r, "idle", "labels", <<>>)
    /\ UNCHANGED <<graph, index>>

Load(r) ==
    /\ GraphFree
    /\ Move(r, "idle", "labels", <<>>)
    /\ store' = S!Reset(saved) /\ before' = S!Reset(saved)
    /\ UNCHANGED <<todo, saved, index>>

ClearNext == [labels |-> "props", props |-> "ranges", ranges |-> "edges", edges |-> "read"]

Clear(r) ==
    /\ rebuild[r].pc \in DOMAIN ClearNext
    /\ Move(r, rebuild[r].pc, ClearNext[rebuild[r].pc], <<>>)
    /\ index' = [index EXCEPT ![rebuild[r].pc] = {}]
    /\ UNCHANGED <<graph>>

(* g.Vertices() and g.Edges() return the elements in the order of their ids. *)
InOrder(ids) ==
    CHOOSE s \in SetToSeqs(ids) : \A i, j \in DOMAIN s : i < j => s[i] < s[j]

\* Mutant: the rebuild starts over when a writer has used the cleared index.
ReadVerticesRetrying(r) ==
    /\ GraphFree
    /\ IF index.labels = {}
       THEN Move(r, "read", "vertices", <<>>)
       ELSE Move(r, "read", "labels", <<>>)
    /\ UNCHANGED <<graph, index>>

ReadVertices(r) ==
    LET ids == InOrder(DOMAIN store.vertices)
    IN  /\ GraphFree
        /\ \E updates \in [DOMAIN ids -> UNION {VertexUpdates("put", id, store.vertices[id]) :
                                                  id \in DOMAIN store.vertices}] :
              /\ \A i \in DOMAIN ids :
                    updates[i] \in VertexUpdates("put", ids[i], store.vertices[ids[i]])
              /\ Move(r, "read", "vertices", FlattenSeq(updates))
        /\ UNCHANGED <<graph, index>>

ReadEdges(r) ==
    LET ids == InOrder(DOMAIN store.edges)
    IN  /\ GraphFree
        /\ rebuild[r].todo = <<>>
        /\ Move(r, "vertices", "reindex",
                [i \in DOMAIN ids |-> EdgeUpdate("put", ids[i], store.edges[ids[i]])])
        /\ UNCHANGED <<graph, index>>

Reindex(r) ==
    /\ rebuild[r].pc \in {"vertices", "reindex"} /\ rebuild[r].todo # <<>>
    /\ index' = Perform(index, Head(rebuild[r].todo))
    /\ rebuild' = [rebuild EXCEPT ![r].todo = Tail(@)]
    /\ UNCHANGED <<graph>>

EndRebuild(r) ==
    /\ rebuild[r].todo = <<>>
    /\ Move(r, "reindex", "idle", <<>>)
    /\ UNCHANGED <<graph, index>>
-----------------------------------------------------------------------------
(***************************************************************************)
(* Audit: one consistent snapshot of the graph, then a lookup for every    *)
(* entry it calls for, those of vertices first, then the number of entries *)
(* of one index after the other.  Each is a critical section of its own.   *)
(***************************************************************************)
Lookups(ix) == UNION {{<<part, entry>> : entry \in ix[part]} : part \in DOMAIN ix}

Rebuilding == IF \E r \in Rebuilders : rebuild[r].pc # "idle" THEN {"rebuild"} ELSE {}
Changing == IF store' # store \/ index' # index THEN {"change"} ELSE {}

(* What any other step leaves in the histories of the audits under way. *)
Meets ==
    audit' = [a \in Auditors |->
        IF audit[a].pc = "idle" THEN audit[a]
        ELSE [audit[a] EXCEPT
                !.gone = @ \cup {x \in Lookups(audit[a].want) :
                                    x[2] \in index[x[1]] /\ x[2] \notin index'[x[1]]},
                !.met = @ \cup Changing \cup Rebuilding']]

\* Mutant: the snapshot is taken without waiting for the writer.
StartAuditMidWrite(a) ==
    /\ audit[a].pc \in {"idle", "done"}
    /\ audit' = [audit EXCEPT ![a] =
                    [NoAudit EXCEPT !.pc = "look", !.want = IndexOf(store),
                                    !.left = Lookups(IndexOf(store)), !.met = Rebuilding]]
    /\ UNCHANGED <<graph, index, rebuild>>

StartAudit(a) ==
    /\ GraphFree
    /\ audit[a].pc \in {"idle", "done"}
    /\ audit' = [audit EXCEPT ![a] =
                    [NoAudit EXCEPT !.pc = "look", !.want = IndexOf(store),
                                    !.left = Lookups(IndexOf(store)), !.met = Rebuilding]]
    /\ UNCHANGED <<graph, index, rebuild>>

LookUp(a) ==
    /\ audit[a].pc = "look"
    /\ \E x \in audit[a].left :
          /\ x[1] = "edges" => \A y \in audit[a].left : y[1] = "edges"
          /\ audit' = [audit EXCEPT
                ![a].left = @ \ {x},
                ![a].missing = @ \cup (IF x[2] \in index[x[1]] THEN {} ELSE {x})]
    /\ UNCHANGED <<graph, index, rebuild>>

EndLookups(a) ==
    /\ audit[a].pc = "look" /\ audit[a].left = {}
    /\ audit' = [audit EXCEPT ![a].pc = "labels"]
    /\ UNCHANGED <<graph, index, rebuild>>

CountNext == [labels |-> "props", props |-> "ranges", ranges |-> "edges", edges |-> "done"]

Count(a) ==
    LET part == audit[a].pc
    IN  /\ part \in DOMAIN CountNext
        /\ audit' = [audit EXCEPT
              ![a].pc = CountNext[part],
              ![a].off = @ \cup (IF Cardinality(index[part]) = Cardinality(audit[a].want[part])
                                THEN {} ELSE {part})]
        /\ UNCHANGED <<graph, index, rebuild>>

Healthy(a) == audit[a].missing = {} /\ audit[a].off = {}
-----------------------------------------------------------------------------
Change ==
    \/ \E v \in Vertices : CreateVertex(v)
    \/ \E id \in VertexIds, v \in Vertices : UpdateVertex(id, v)
    \/ \E id \in VertexIds : DeleteVertex(id)
    \/ \E from, to \in VertexIds, label \in EdgeLabels : CreateEdge(from, to, label)
    \/ \E id \in EdgeIds : DeleteEdge(id)
    \/ Notify
    \/ Rebuilders # {} /\ Save
    \/ \E r \in Rebuilders :
           StartRebuild(r) \/ Load(r) \/ Clear(r) \/ ReadVertices(r) \/ ReadEdges(r)
           \/ Reindex(r) \/ EndRebuild(r)

Audit(a) == StartAudit(a) \/ LookUp(a) \/ EndLookups(a) \/ Count(a)

Next ==
    \/ Change /\ Meets
    \/ \E a \in Auditors : Audit(a)

Spec == Init /\ [][Next]_vars

(* A rebuild that has started gets its turns, and so does the writer that  *)
(* holds g.mu; sync.RWMutex lets a waiting reader in between two writers.  *)
FairSpec ==
    /\ Spec
    /\ WF_vars(Notify /\ Meets)
    /\ \A r \in Rebuilders :
          /\ WF_vars((Clear(r) \/ Reindex(r) \/ EndRebuild(r)) /\ Meets)
          /\ SF_vars((ReadVertices(r) \/ ReadEdges(r)) /\ Meets)
-----------------------------------------------------------------------------
Entries ==
    [labels : SUBSET (Labels \X VertexIds),
     props : SUBSET (Keys \X Values \X VertexIds),
     ranges : SUBSET (Keys \X Values \X VertexIds),
     edges : SUBSET (EdgeLabels \X EdgeIds)]

(* Every variable has its type. *)
TypeOK ==
    /\ DOMAIN store.vertices \subseteq VertexIds /\ DOMAIN store.edges \subseteq EdgeIds
    /\ index \in Entries
    /\ \A i \in DOMAIN todo : todo[i].part \in DOMAIN index
    /\ \A r \in Rebuilders :
          rebuild[r].pc \in {"idle", "labels", "props", "ranges", "edges", "read", "vertices", "reindex"}
    /\ \A a \in Auditors :
          audit[a].pc \in {"idle", "look", "labels", "props", "ranges", "edges", "done"}

Within(a, b) == \A part \in DOMAIN a : a[part] \subseteq b[part]
Quiet == GraphFree /\ \A r \in Rebuilders : rebuild[r].pc = "idle"

(* DESIGN.md:232: once the writer is done and no rebuild is under way, the *)
(* indexes hold exactly the entries of the graph.                          *)
IndexExact == Quiet => index = IndexOf(store)

(* However rebuilds, loads and writers interleave, an element of the graph *)
(* is never left out of an index for good: what races leave behind are     *)
(* entries too many.                                                       *)
NothingMissing == Quiet => Within(IndexOf(store), index)

(* DESIGN.md:97, 232: without rebuilds a lookup never returns an element   *)
(* that carried the entry neither before nor after the write under way,    *)
(* and of those that carry it before and after it misses at most one that  *)
(* the write has taken out and will put back.                              *)
LookupsKeepUp ==
    Rebuilders = {} =>
        \A part \in DOMAIN index :
            LET old == IndexOf(before)[part]
                new == IndexOf(store)[part]
            IN  /\ index[part] \subseteq old \cup new
                /\ \A entry \in (old \cap new) \ index[part] :
                       \E u \in ToSet(todo) : u.do = "put" /\ u.part = part /\ u.entry = entry

(* index_manager.go:77-78, DESIGN.md:599-600: what the report of an audit  *)
(* is worth.  An entry reported missing has left the index since the       *)
(* audit's snapshot, by an update of that very element, unless a rebuild   *)
(* was under way in between: races leave no entry out for good, so it is   *)
(* never a lasting fault.  And if graph and indexes have stayed as they    *)
(* were since the snapshot, the report is healthy exactly if the indexes   *)
(* are those of the graph, whatever races have left in them before.        *)
AuditTells ==
    \A a \in Auditors :
        audit[a].pc = "done" =>
            /\ "rebuild" \notin audit[a].met => audit[a].missing \subseteq audit[a].gone
            /\ "change" \notin audit[a].met => (Healthy(a) <=> index = IndexOf(store))

(* A rebuild request is answered although writers keep coming. *)
RebuildsEnd == \A r \in Rebuilders : rebuild[r].pc = "labels" ~> rebuild[r].pc = "idle"
=============================================================================
