------------------------------ MODULE Recovery ------------------------------
(***************************************************************************)
(* The records of storage.WAL, what a graph method does to the engine once *)
(* its record is logged, and what ReplayInto does with the same record     *)
(* after a restart.  An engine value holds the store and both allocators.  *)
(***************************************************************************)
EXTENDS Elements, Sequences, SequencesExt

CONSTANTS
    ExactInt,   \* integers up to this one survive a trip through float64 (2^53)
    LongValues, \* values too long for the 4 MiB line buffer of Replay
    None        \* no file, no record, no fragment

S == INSTANCE MemStore

NewIDAllocator(start) == IF start = 0 THEN 1 ELSE start

\* Mutant: an identifier that comes back does not move the allocator.
RestoreNothing(next, to) == next

\* Mutant: the allocator moves one too far.
RestorePast(next, to) == IF to > next THEN to + 1 ELSE next

Restore(next, to) == IF to > next THEN to ELSE next

NewEngine == [store |-> S!NewMemStore, vIds |-> 1, eIds |-> 1]

AddVertexRec(id, v) == [op |-> "add_vertex", id |-> id, vertex |-> v]
UpdateVertexRec(id, v) == [op |-> "update_vertex", id |-> id, vertex |-> v]
DeleteVertexRec(id) == [op |-> "delete_vertex", id |-> id]
AddEdgeRec(id, e) == [op |-> "add_edge", id |-> id, edge |-> e]
DeleteEdgeRec(id) == [op |-> "delete_edge", id |-> id]

(***************************************************************************)
(* The effect of a logged change: CreateVertex and PutVertexWithID end in  *)
(* the same assignments, and so do CreateEdge and PutEdgeWithID.           *)
(***************************************************************************)
AddVertex(g, id, v) ==
    LET next == Restore(g.vIds, id + 1)
    IN  [g EXCEPT !.store = S!SetNextIDs(S!AddVertex(g.store, id, v), next, g.eIds),
                  !.vIds = next]

AddEdge(g, id, e) ==
    LET next == Restore(g.eIds, id + 1)
    IN  [g EXCEPT !.store = S!SetNextIDs(S!AddEdge(g.store, id, e), g.vIds, next),
                  !.eIds = next]

UpdateVertex(g, id, v) == [g EXCEPT !.store = S!UpdateVertex(g.store, id, v)]

DeleteVertex(g, id) ==
    LET bare == S!DeleteEdges(g.store, S!EdgesOf(g.store, id, "BOTH"))
    IN  [g EXCEPT !.store = S!DeleteVertex(bare, id)]

DeleteEdge(g, id) == [g EXCEPT !.store = S!DeleteEdge(g.store, id)]

Apply(g, rec) ==
    CASE rec.op = "add_vertex"    -> AddVertex(g, rec.id, rec.vertex)
      [] rec.op = "update_vertex" -> UpdateVertex(g, rec.id, rec.vertex)
      [] rec.op = "delete_vertex" -> DeleteVertex(g, rec.id)
      [] rec.op = "add_edge"      -> AddEdge(g, rec.id, rec.edge)
      [] rec.op = "delete_edge"   -> DeleteEdge(g, rec.id)

(***************************************************************************)
(* The log file: complete lines, and a fragment without a newline after    *)
(* them.  The fragment may be a record that lacks only its newline.  The   *)
(* file is opened with O_APPEND and never trimmed, so a record written     *)
(* after a fragment shares its line, which then parses as nothing and may  *)
(* be too long for the buffer although its parts are not.  The sequence    *)
(* numbers decide nothing on replay and are left out.                      *)
(***************************************************************************)
EmptyLog == [lines |-> <<>>, tail |-> None]
Bad == [op |-> "bad"]
Partial == [op |-> "partial"]
Overlong == [op |-> "overlong"] \* no record, and too long

(* The damaged line is what becomes of a record that meets a fragment. *)
AppendLine(log, rec, damaged) ==
    IF log.tail = None
    THEN [log EXCEPT !.lines = Append(@, rec)]
    ELSE [lines |-> Append(log.lines, damaged), tail |-> None]

DamagedLines(log) == IF log.tail = Overlong THEN {Overlong} ELSE {Bad, Overlong}

(* A write cut short; another fragment after a fragment is no record. *)
AppendFragment(log, fragment) ==
    [log EXCEPT !.tail = CASE @ = None -> fragment
                           [] @ # None /\ Overlong \in {@, fragment} -> Overlong
                           [] OTHER -> Partial]

ScannedLines(log) ==
    IF log.tail \in {None, Partial} THEN log.lines ELSE Append(log.lines, log.tail)

(***************************************************************************)
(* Replay.  Values come back through float64: beyond ExactInt an odd       *)
(* integer lies between two neighbours and goes to the one with the even   *)
(* mantissa.  The model's values stay below 2 * ExactInt.                  *)
(***************************************************************************)
SurvivesFloat(n) == n =< ExactInt \/ n % 2 = 0

\* Mutant: they come back through float32.
ThroughFloat32(n) == IF n % 2 = 1 /\ n > ExactInt \div 2 THEN n + 1 ELSE n

ThroughFloat(n) ==
    CASE SurvivesFloat(n)               -> n
      [] ~SurvivesFloat(n) /\ n % 4 = 1 -> n - 1
      [] ~SurvivesFloat(n) /\ n % 4 = 3 -> n + 1

(* A vertex or an edge. *)
FromJSON(x) ==
    [x EXCEPT !.props = [k \in DOMAIN x.props |-> ThroughFloat(x.props[k])]]

PropsOf(line) ==
    CASE line.op \in {"add_vertex", "update_vertex"} -> line.vertex.props
      [] line.op = "add_edge" -> line.edge.props
      [] OTHER -> <<>>

TooLong(line) ==
    line = Overlong \/ \E k \in DOMAIN PropsOf(line) : PropsOf(line)[k] \in LongValues

(* Every old property is patched to null, then the logged ones are set. *)
ReplayPatch(old, v) ==
    [k \in DOMAIN old.props \cup DOMAIN v.props |->
        IF k \in DOMAIN v.props THEN v.props[k] ELSE Nil]

\* Mutant: replay merges the logged properties into the old ones.
ReplayedByMerge(g, v, id) ==
    LET old == g.store.vertices[id]
    IN  UpdateVertex(g, id, NewVertex(v.labels, PatchedProps(old, v.props)))

Replayed(g, v, id) ==
    LET old == g.store.vertices[id]
    IN  UpdateVertex(g, id, NewVertex(v.labels, PatchedProps(old, ReplayPatch(old, v))))

Going(g) == [status |-> "reading", g |-> g]
Failed(g) == [status |-> "failed", g |-> g]

\* Mutant: a vertex that is already there is an error.
ReplayRecordOnce(g, rec) ==
    IF rec.op = "add_vertex" /\ S!HasVertex(g.store, rec.id) THEN Failed(g)
    ELSE Going(Apply(g, rec))

ReplayRecord(g, rec) ==
    LET hasV == S!HasVertex(g.store, rec.id)
        hasE == S!HasEdge(g.store, rec.id)
    IN  CASE rec.op = "add_vertex" ->
               Going(IF hasV THEN g ELSE AddVertex(g, rec.id, FromJSON(rec.vertex)))
          [] rec.op = "update_vertex" ->
               IF hasV THEN Going(Replayed(g, FromJSON(rec.vertex), rec.id)) ELSE Failed(g)
          [] rec.op = "delete_vertex" ->
               Going(IF hasV THEN DeleteVertex(g, rec.id) ELSE g)
          [] rec.op = "add_edge" ->
               IF hasE THEN Going(g)
               ELSE IF S!CanAddEdge(g.store, rec.id, rec.edge)
                    THEN Going(AddEdge(g, rec.id, FromJSON(rec.edge)))
                    ELSE Failed(g)
          [] rec.op = "delete_edge" ->
               Going(IF hasE THEN DeleteEdge(g, rec.id) ELSE g)

\* Mutant: a line that does not parse is an error.
ReplayLineStrict(acc, line) ==
    IF acc.status # "reading" THEN acc
    ELSE IF line = Bad \/ TooLong(line) THEN Failed(acc.g) ELSE ReplayRecord(acc.g, line)

ReplayLine(acc, line) ==
    CASE acc.status # "reading" -> acc
      [] acc.status = "reading" /\ line = Bad -> [acc EXCEPT !.status = "stopped"]
      [] acc.status = "reading" /\ line # Bad ->
           IF TooLong(line) THEN Failed(acc.g) ELSE ReplayRecord(acc.g, line)

(* Line after line; where it stands after the first i of them. *)
ReplayInto(g, log) ==
    LET lines == ScannedLines(log)
        after[i \in 0..Len(lines)] ==
            IF i = 0 THEN Going(g) ELSE ReplayLine(after[i - 1], lines[i])
    IN  after[Len(lines)]

(***************************************************************************)
(* The snapshot file: two halves, each the half of a snapshot or a hole.   *)
(* It decodes when both halves belong to one snapshot.                     *)
(***************************************************************************)
Hole == [hole |-> TRUE]
NewFile == [head |-> Hole, rest |-> Hole]
Whole(file) == file.head = file.rest /\ file.head # Hole

\* Mutant: the allocators start after the elements the snapshot holds.
LoadIntoFromIds(snap) ==
    [store |-> S!Reset(snap), vIds |-> S!NextAfter(DOMAIN snap.vertices, 1),
     eIds |-> S!NextAfter(DOMAIN snap.edges, 1)]

LoadInto(snap) ==
    [store |-> S!Reset(snap),
     vIds |-> NewIDAllocator(snap.nextV), eIds |-> NewIDAllocator(snap.nextE)]

(* main.go before SetWAL: the snapshot if there is one, then the log.  Any *)
(* error but a missing snapshot ends the program.                          *)
Refused == [ok |-> FALSE, g |-> NewEngine]

RecoverOnto(base, log) ==
    LET end == ReplayInto(base, log) IN [ok |-> end.status # "failed", g |-> end.g]

RecoverFrom(file, log) ==
    IF Whole(file) /\ S!CanReset(file.head) THEN RecoverOnto(LoadInto(file.head), log)
    ELSE Refused
=============================================================================
