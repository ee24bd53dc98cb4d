# A formal model of GoGraphDB

GoGraphDB is an in-memory property graph with an HTTP interface, a write-ahead
log, snapshots, secondary indexes and a small query language. This directory
holds TLA+ modules translated from its Go source, TLC configurations that check
them on small instances, and TLAPS proofs, for every instance, of the main
properties of the engine, the files and recovery, the indexes, the read requests
and the locks. Paths below are relative to the repository (`src/` in
`PROJECT.json`); `PROJECT.json` maps every definition to the lines it models.

## 1. The system

| Part | State | Operations | Talks to |
| --- | --- | --- | --- |
| Graph engine (`internal/graph/graph.go`) | store, two allocators, listeners, the log | eight mutators, `Snapshot`, `Replace`, `SetWAL`, readers; a mutator holds `g.mu` from its first check to the last listener call | calls the store, the log, the listeners |
| Allocators (`graph/id.go`) | next id | `Next`, `Peek`, `Restore` | engine |
| Elements, values (`graph/vertex.go`, `edge.go`, `property.go`) | none | validation, normalisation, comparison | everyone |
| Store (`storage/memstore.go`) | two element maps, two adjacency maps, next ids | add, get, update, delete, `EdgesOf`, `Reset` | engine |
| Log (`storage/wal.go`) | file, sequence number | `Log` (append + fsync), `Replay`, `Truncate` | called under `g.mu`, truncated without it |
| Snapshots (`storage/persistence.go`) | `snapshot.gdb(.tmp)`, `meta.json` | `Save`, `Load`, `LoadInto`, exports | called by the ticker, requests, `main` |
| Life cycle (`cmd/gographdb/main.go`) | phase of the program | recovery, ticker, signal handler | all of the above |
| Index manager (`index/`) | label, property, range and edge-label index, one lock each | callbacks, `Rebuild`, lookups, `Audit` | listener of the engine; read by queries |
| Range index (`index/btree_index.go`) | a sorted slice for each property name | `Add`, `Remove`, `Range`, `Ordered` | index manager |
| Queries (`query/`) | none | parse, `MATCH`, `PATH`, `SHORTEST`, `CREATE`, `REBUILD` | engine, indexes, traversal |
| Traversal (`traverse/`) | none | BFS, DFS, paths, Dijkstra | many separate engine reads |
| Analytics, API, configuration, web page | none | reports, request decoding, flags | engine and indexes |

What makes it hard:

* a save captures the graph under `g.mu`, writes it without any lock and then
  truncates the log, while writers go on; three callers may save at once;
* a crash, a failed write or a failed fsync between any two of these steps, and
  a recovery that replays records the snapshot may already contain;
* `POST /load` and the signal handler change what the log stands for;
* index updates are one critical section per entry, so rebuilds, lookups and
  audits fall in between; `Rebuild` reads the graph twice;
* searches, `MATCH` and the view of the graph make many separate reads, each a
  critical section of its own, while the graph changes between them;
* numbers live as int64, float64 and JSON in turn, and two indexes must agree on
  which of them are equal;
* long sequences of creations, cascading deletions, self-loops and reloads over
  two element maps, two adjacency maps and four id counters.

The list of hazards, each with its line, is in `PROJECT.json`.

## 2. The modules

    PropertyGraph          abstract multigraph with saved states
        ^ refined by
    GraphEngine  --INSTANCE-->  MemStore        EXTENDS Elements
        ^ GraphEngineProofs
    Durability  --EXTENDS-->  Recovery  --EXTENDS-->  Elements, INSTANCE MemStore
        ^ DurabilityProofs
    IndexManager --EXTENDS--> Elements, INSTANCE MemStore
        ^ IndexManagerProofs
    MCRangeIndex --EXTENDS--> RangeIndex --EXTENDS--> PropertyValues
                              ^ RangeIndexProofs
    MCReadRequests --EXTENDS--> ReadRequests --EXTENDS--> Traverse, MatchQuery, Analytics
        Traverse, MatchQuery, Analytics --EXTENDS--> GraphReads --INSTANCE--> PropertyGraph
        ^ ReadRequestsProofs (history, MATCH, the view) <--EXTENDS-- TraverseProofs (searches, reports)
    Locks
        ^ LocksProofs
    SequenceLemmas         lemmas on sequences and recursive functions for the proofs

**`MemStore`** has one operator per store method, from a store record to a store
record; `Can...` predicates name the condition under which a method does not
refuse. `DeleteEdges` is the cascade's loop taken at once: the removals touch
disjoint entries and the loop's order, that of a Go map, does not matter.

**`Elements`** holds vertices, edges and requests. Labels are a set (the code
removes duplicates and sorts), properties a partial map, and `Blank` among the
labels of a request stands for every input `NewVertex` turns down. An edge of the
engine and of the indexes has a label only, which stands for its properties too: no
call changes them. Where records are replayed it has both (`WithProps`).

**`GraphEngine`** has one action per engine method (`g.mu` makes a call atomic)
in three phases: `recovering` (no log, the `Put...` methods), `serving` (the log
may refuse), `closing` (the log detached by the signal handler). `reply` records
what the last call returned. `Snapshot` keeps what a save has read, and
`Replace` may install any of those: a load that has read its file can reach
`Replace` after later saves.

**`PropertyGraph`** is what the engine promises: an edge exists only between
existing vertices, deleting a vertex removes exactly its incident edges, an
update touches one vertex, a refused call nothing, a reload returns to a saved
state. `GraphEngine!Abstract` is the refinement mapping.

**`Recovery`** defines the log records, the effect of a record on the engine
when it is first made (`Apply`) and when it is replayed (`ReplayRecord`), the log
file (complete lines and a torn tail), the snapshot file (two halves, so that it
can be caught half written) and `RecoverFrom` and `RecoverOnto`, which are `main` up
to `SetWAL` with a snapshot and without one. The properties of vertices and edges come
back through float64 (`FromJSON`); a record of either with one of the `LongValues`, and a
line that is damaged and long (`Overlong`), is more than the scanner takes, and ends the
replay with an error.

**`Durability`** runs them: `Log` and `Store` are the two halves of a write under
`g.mu` (a crash or a `Truncate` can fall between them), `Capture` to `Truncate`
are the steps of one save per caller, `LoadRead`/`LoadReplace` a load,
`Signal`/`Stop` the orderly exit, `Crash`/`Restart` the others. `Faults` selects
failing system calls: `append`, `fsync`, `save` (anything before the rename),
`meta`, `open` (in `Truncate`). `os.Create` of an existing name truncates the
inode other descriptors still write to, which is why `files` is indexed by inode.
Files and crash are external to the repository: a process crash keeps what was
written; power loss that undoes unsynced writes or a rename is not modelled.

**`IndexManager`** changes the graph at the start of a write and then performs
its index updates one by one (`Notify`); nobody reads the graph meanwhile, which
stands for `g.mu`. Rebuilds are processes with a step per `Clear`, per read of
the graph and per entry; `Load` replaces the graph and goes on as a rebuild.
An audit is a process too: its snapshot, each lookup and each of the four counts is a
step of its own, and `met` and `gone` keep what else happened in between.

**`PropertyValues`** holds literals, types, `Compare`, `Key` and the trip of a
value through a log record. Places in a type are small integers; `ExactInt` and
`MaxInt` stand for 2^53 and 2^63-1, so that rounding to even and the conversion of
a float outside int64 (which Go leaves to the processor) fall into the bounds. A float
has a sign, for the sake of -0.0, which `Key` formats and `Compare` does not see.

**`RangeIndex`** is the sorted slice with its binary search and, beside it, the
equality index, for one property name, with rebuilds and restarts. Its values compare with
one another (`Fits`), a restriction that the code does not make.

**`GraphReads`** is one request among writers. The graph is that of
`PropertyGraph`, which the engine implements; its actions are the writes. `lived`
keeps every graph since the request came, so that an answer put together from many
reads can be judged: `Always` has the edges that stayed, `Ever` all there were.

**`Traverse`** turns the loops and recursions of `internal/traverse` into an agenda
(`search.agenda`) from which each step takes one item and makes at most one read:
the queue of BFS, the calls of DFS and `AllSimplePaths` still to be made, the heap
of Dijkstra (from which any nearest item may come), the visits of `HasCycle`. An
item of a path search carries the path that the code rebuilds from `previous`. `DFS` and
`HasCycle` are part of the package and of its tests; no handler or statement of the
program calls them. Weights are integers, so that a sum that overflows to infinity
(`path.go:87-88`) is outside the model.

**`MatchQuery`** is the executor's `MATCH`: the label lookup (possibly in the middle
of an update of the index; `stale` are vertices the index lists by mistake, which is what
`IndexRace` ends in, `gaps` those a rebuild has not yet put back), the reads of the candidates, the edges of each, the
other end of each edge in any order, `WHERE`, `RETURN` and `LIMIT`.

**`Analytics`** computes the reports of `internal/analytics` from one graph, in any
order of Go's maps. **`ReadRequests`** joins the three with the view of the graph.

**`Locks`** gives each goroutine the list of lock steps it has left: the handlers,
the ticker, `main` from its start to its exit. A `RWMutex` is Go's: a writer takes
the gate, then waits for the readers inside, and a reader waits at a taken gate.

## 3. The runs

| Run | Question | Bounds | States |
| --- | --- | --- | --- |
| `Engine` | Do the adjacency maps stay exact, does no cascade stop half way, are ids fresh between two loads, is every call a step of the multigraph? | 2 vertices, 2 edges, 1 snapshot, 1 key; labels only empty or invalid | 634 k |
| `DurabilityTicker` | Save and truncate among writers of vertices and edges, faults and crashes at every step; a value that survives a replay, one it rounds, one too long for it | 1 vertex, 1 edge, 3 values, 3 writes, 2 saves, 2 lives | 5.6 M |
| `DurabilityShutdown` | The exit among requests, a periodic save, a load, faults, torn appends | 1 vertex, 1 value, 2 writes, 1 save, 1 load, 2 lives | 1.4 M |
| `DurabilityWindow` | (violation) `RecoveryExact` | 1 write, 1 save | small |
| `DurabilityOverlap` | (violation) `SnapshotWhole` with two callers | 1 write, 2 saves | small |
| `DurabilityRestart` | (violation) `RecoverySucceeds` | 3 writes, 2 saves | small |
| `IndexWriters` | Are the indexes exact after each write, and how far off during one? | 2 vertices, 1 edge, 2 labels, 2 values | 135 k |
| `IndexRebuild` | Two rebuilds or loads among writers, and what the report of an audit is worth | 1 vertex, 1 label | 275 k |
| `IndexRace` | (violation) `IndexExact` with a rebuild | 1 vertex | small |
| `RangeNumeric` | Are range queries, the order and lookups exact, and the same after a restart? | 3 ids, 12 literals | 6.7 k |
| `ReadRequests` | Are the answers of searches, `MATCH`, reports and the view bounded by what was there, and does every request end? | up to 3 vertices, 3 edges, 2 writes during the request | 743 k |
| `Locks` | Does nobody wait in a circle or for ever? | 2 requests at a time, ticker, `main` | 130 k |

*Why the bounds are enough.* Every integrity condition relates at most one edge
and its two endpoints, and the cascade must meet an edge it removes beside one it
keeps: two vertices and two edges (loops included) contain all cases. Labels
that stick are left to the proof of `Refinement`, which holds for any. Two vertex
ids are also what a reused identifier takes: delete one, create the next.
Losing data takes one save overlapping one write or one crash; three writes allow
create, update, delete of the same vertex across a capture, two lives a recovery
whose result is lived on with, and two saves a snapshot that the log is older
than. One vertex with an edge to itself is enough for these; torn lines, where the next
record shares a line, are in `DurabilityShutdown`. For
the index races one element that is created, changed and deleted among two
rebuilds meets every order of clear, read and enter, and an audit of it every order of
snapshot, lookups and counts among these. Edges, whose index is treated like that of the
labels, are in `IndexWriters`; among rebuilds and audits they are left to the proofs of
`Complete` and `AuditsAreBounded`. A request is wrong about the
graph through one write between two of its reads, or through two that undo each
other; `MCReadRequests` lists the graphs it meets: all of up to two edges over three
vertices (self-loops and parallel edges included), those between four chosen pairs
with up to three edges of two weights, where a detour can be the shortest way, and
for `MATCH` all labellings of two vertices. Two requests beside the ticker and `main`
are what a queue of a reader behind a writer behind a reader takes. The counters of the
configurations (`MaxVertexId`, `MaxEdgeId`, `MaxSnapshots`, `MaxWrites`,
`MaxSaves`, `MaxLoads`, `MaxLives`) are bounds of the model and appear in guards
only. `CHECK_DEADLOCK FALSE` stands in the durability runs, where the program ends
(exits, refuses to start, or has used up its bounds), in `ReadRequests`, which ends
with its request, and in `IndexWriters`, whose two identifiers can be used up;
everywhere else TLC checks for deadlock.

*Properties.* `Integrity` is `DESIGN.md:230-231` made exact, with what snapshots
need to restore fresh ids. `StoreNeverRefuses`: a change whose record is in the
log is never refused by the store. `Lossless` says that the list of ways to lose
data kept in `exposed` is complete (section 5). `RecoveredIdsFresh`: identifiers
survive recovery, deleted ones included, even if values come back rounded and
failed calls come back to life. `RecoverySucceeds`: the program starts from what it
left on disk; the code does not keep that, and `RefusedForStaleRecords` says when
exactly not: if the log holds a record or a damaged line too long for the scanner, or is
older than a snapshot and holds a change of a vertex that a later record deletes.
`SnapshotWhole`: the file behind `snapshot.gdb` is always one complete snapshot, which two overlapping saves can break, and nothing else
can: `WholeWithoutOverlap`. `LookupsKeepUp` bounds what a lookup in the middle of a
write can see; `NothingMissing` says that races between rebuilds leave entries too
many, never too few. `AuditTells` says what a report is worth although it is put together
from reads at different times: an entry it calls missing has been taken out since by an
update of that very element, unless a rebuild was under way, and if nothing changed it is
healthy exactly if the indexes are those of the graph.
`FreshIds`: no identifier an element has had since the last load is given again before the next.
`LookupExact` and `RangeExact` judge both indexes by `Compare` on the values the
vertices hold, the two zeros of a float apart, and `ReplayKeepsAnswers` says that a
restart, although it may change an integer, changes no answer, timestamps and the end of int64 apart.

`LevelsBounded`, `DepthFirstBounded`, `PathsBounded`, `ShortestBounded` and
`CycleBounded` put each answer between two reference answers, over the edges that
stayed and over all there were; on a graph nobody changes the two coincide, so the
same properties say that the algorithms are right. `RowsExisted`, `RowsComplete` and
`UndirectedOnce` do the same for `MATCH`, against a definition by sets of triples.
`FailsForCause` lists the only reasons for a refusal. `NoCyclicWait` quantifies over
sets of goroutines none of which can go on without another of the set.

*Fairness.* `ShutdownEnds` assumes that the signal handler's own steps and the
exit are not postponed for ever, and nothing of requests, the ticker or crashes.
Each step is a system call or a lock of a mutex that is free between requests;
`server.Shutdown` has a limit of five seconds (`main.go:78`). `RebuildsEnd`
assumes weak fairness of the writer that holds `g.mu` and of the rebuild's own
steps, and strong fairness of its reads of the graph: `g.mu` is a `sync.RWMutex`,
which lets a waiting reader in before the next writer. Weak fairness would not be
enough, since writers make the lock unavailable again and again. `QueryEnds`
assumes that a handler which can go on does (its reads need `g.mu` only for an
instant of the model) and, as a premise of its own, that the graph stays as it is from some
time on. Nothing bounds the depth of an unweighted `SHORTEST` (`path.go:39-48`): writers
that keep adding to the path ahead of it keep it going, although in the run, where a
request meets a fixed number of writes, they stop by themselves. `AllFinish` assumes
strong fairness of each goroutine's steps: `sync.Mutex` hands itself to the longest waiter after a millisecond, and `Unlock` of
a `RWMutex` lets in the readers that wait before another writer comes.

## 4. The proofs

| Module | Theorem | States |
| --- | --- | --- |
| `GraphEngineProofs` | `TypeCorrect` | `Spec => []TypeOK` |
| | `IntegrityHolds` | `Spec => []Integrity` |
| | `LoggedMeansStored` | `Spec => []StoreNeverRefuses` |
| | `Refinement` | `Spec => ImplementsPropertyGraph` |
| | `NoReuseBetweenLoads` | `Spec => FreshIds`, an action property |
| `DurabilityProofs` | `TypeCorrect` | `Spec => []TypeOK` |
| | `WholeSnapshot` | `Spec => []WholeWithoutOverlap` |
| | `OneSaverWhole` | `Spec => []SnapshotWhole`, if there is at most one caller of `Save` |
| | `FreshAfterRestart` | `Spec => []RecoveredIdsFresh` |
| | `NothingLost` | `Spec => []Lossless` |
| | `RefusedForStaleOnly` | `Spec => []RefusedForStaleRecords` |
| `IndexManagerProofs` | `TypeCorrect` | `Spec => []TypeOK` |
| | `Complete` | `Spec => []NothingMissing` |
| | `ExactWithoutRebuilds` | `Spec => []IndexExact`, if nobody rebuilds |
| | `LookupsFollow` | `Spec => []LookupsKeepUp` |
| | `AuditsAreBounded` | `Spec => []AuditTells` |
| `RangeIndexProofs` | `TypeCorrect` | `Spec => []TypeOK` |
| | `RangesExact` | `Spec => []RangeExact` |
| | `LookupsExact` | `Spec => []LookupExact` |
| | `OrderExact` | `Spec => []OrderedExact` |
| | `RestartKeepsAnswers` | `Spec => ReplayKeepsAnswers`, an action property |
| `ReadRequestsProofs` | `ViewIsBounded` | `Spec => []ViewBounded` |
| | `RowsHaveExisted` | `Spec => []RowsExisted` |
| | `RowsAreComplete` | `Spec => []RowsComplete` |
| | `EdgesShownOnce` | `Spec => []UndirectedOnce` |
| `TraverseProofs` | `QueriesFailForCause` | `Spec => []FailsForCause` |
| | `LevelsAreBounded` | `Spec => []LevelsBounded` |
| | `DepthFirstIsBounded` | `Spec => []DepthFirstBounded` |
| | `PathsAreBounded` | `Spec => []PathsBounded` |
| | `ShortestIsBounded` | `Spec => []ShortestBounded` |
| | `CyclesAreBounded` | `Spec => []CycleBounded` |
| | `ReportsAreExact` | `Spec => []ReportExact` |
| `LocksProofs` | `NoDeadlock` | `Spec => []NoCyclicWait` |

They hold for every value of the constants that meets the named assumptions, which TLC
evaluates in the runs: the empty string is not a label (`BlankAssumption`); bounds are
natural numbers (`BoundsAssumption`); labels and keys of a request are finite
(`FiniteAssumption`), and so are the callers of `Save` (`SaversAssumption`) and the ids of a graph
(`IdsAssumption`); a literal denotes a value of its type (`LiteralsAssumption`); 2^53 and
2^63-1 stand to one another as they do (`PrecisionAssumption`, which keeps what the proofs
need: `ExactInt` is even and `MaxInt` is `2 * ExactInt - 1`); `main` and the ticker serve no
requests (`GoroutinesAssumption`); the failing calls are among those modelled
(`FaultsAssumption`); `None` is nothing else (`NoneAssumption`); a stored value is
never the null that a patch removes a property with (`NilAssumption`); identifiers are numbers
(`IdsAreNumbers`), a request starts on a graph (`StartsWithGraph`), a search, a
statement and a report are as their handlers and the parser leave them (`SearchesParsed`,
`StatementsParsed`, `ReportsParsed`: the server refuses a limit outside 1..100) and a weight is an integer or unusable (`WeightsAreNumbers`). The two theorems
with a further condition state it: with two savers, or with a rebuild, the property is
false, as `DurabilityOverlap` and `IndexRace` show.

**Engine.** `IInv` joins `TypeOK`, `Integrity` and
`StoreNeverRefuses`. None is inductive alone: that a cascade is not refused needs
the adjacency sets to be exact; that they stay exact through a cascade needs
every id in them to belong to an edge; that an addition is not refused needs the
counters above every id, which after a `Replace` is a fact about the snapshot and
therefore had to be kept in `Integrity` for the snapshots taken. Lemmas about
`MemStore` say of each operation which domains it leaves, that the adjacency
stays exact and the endpoints exist; each action's step then cites those it
needs. The refinement goes action by action to a step or a stutter of
`PropertyGraph`, under `IInv`: the cascade needs exactness again, to identify the
edges the store removes with the incident edges. `NoReuseBetweenLoads` adds to the
invariant that every id held since the last load (`spentV`, `spentE`) is below the
allocator: a load sets the two to what its snapshot holds, which `Integrity` keeps below
the snapshot's counters, and from then on the allocators only rise.

**Files and recovery.** `DurInv` has three parts. `Typed` gives the shape of everything
on disk and in memory. `OneSaver` says, as long as no two saves have overlapped, that the
temporary name belongs to the save that writes, that what it has written so far is its
snapshot, and that the two names are two files: `SnapshotWhole` alone says nothing of the
file the next `Rename` will publish. `IdsFresh` says of *every* snapshot that might become
the one a start reads, that on disk and those of the saves under way, that with the log of
now its counters reach past the highest ids given (`Covered`); so it does not matter before
which step the program dies. A replay never lowers a counter, and if it fails at no record it
passes every id the log creates, whatever its length (`ReplayInto` is a recursive function).
That the log holds no line too long to be read belongs to `IdsFresh`, as long as nothing
like it has been recorded in `exposed`.

**No data lost.** `Trace` says, as long as `exposed` is empty, that the log replayed onto *every*
snapshot a start may come to read, that on disk and those of the saves under way, ends in the
graph of now (`Regains`), or meets a record of a vertex that a later record deletes (`Stale`). A new record
keeps that: the replay stands at the graph it was checked against (`ReplayEffect`, where
the patch that turns the old properties into the logged ones is undone by JSON's nulls,
`PatchRebuilds`). So does a crash, which adds a record or a fragment, and a restart, which moves
the graph to what the replay gives. The hard step is the capture of a snapshot: the whole log
is then to be replayed onto the graph it *led to*, which shows the records' effects already. For that the invariant keeps what the
log `Told` of the graph: the last record of a vertex says what it is, a deleted one does not
come back, an edge no record takes away is there, and whatever a record needs is there or is deleted later.
`ReplayOntoItself` follows a replay through the stale graph (`SoFar`): vertices the remaining
lines will touch and edges they will cut may differ, nothing else may, and at the end nothing is left to differ.
A store must be `Exact` on the way, its adjacency the projection of its edges, since a
deleted vertex takes along what the adjacency lists. `Truncate` starts over, with a snapshot that is the
graph. `LogSuffices`, for programs that never completed a save, says the same of the empty
graph even with a damaged line in the log, where the replay stops for good.

**Index manager.** `Covered`: an entry of the graph is in the index and no pending update
takes it out, or a pending update of the writer or of a rebuild puts it in, or some rebuild
has yet to read the graph. `NothingMissing`, which speaks of quiet moments only, is what is
left when nothing is pending. Without rebuilds `Exact` strengthens it to equality. Both
need that an update of a vertex takes entries out before it puts others in (`PutsLast`).
For an audit the invariant keeps what it has found so far against what has happened since its
snapshot: an entry that is missing when looked up was covered at the snapshot, unless a rebuild
was under way, so an update has taken it out since; and as long as nothing has changed, the
entries missing are those the index lacks and the counts those of the index. That a healthy
count then leaves no entry too many is where finite sets come in.

**Range index.** `IndInv`: the values held compare, the slice is strictly sorted and lists
exactly what the vertices carry, and the equality index has exactly the keys of their values.
`PositionSplits` says that the binary search, on a sorted slice of any length, returns the
first position from which on the values are not smaller. `Compare`
orders the values of a kind as their floats, and `Key` tells apart exactly what it tells
apart (`Compares`), but for the sign of a zero. Range queries, order and lookups then follow from the invariant, and
`RestartKeepsAnswers` since `Float` is idempotent: a value that went through float64 keeps
its key and its place.
The proof found a slip in the model: `Add` and `Remove` were `CASE`s whose guards overlapped, which
TLC takes in order but TLA+ leaves open. They are `IF`s now, in the order of the code.

**Locks.** A program is a list of steps; `Trip(mode, s, c, t)` says that the list `c` leads
from what is held in `s` to what is held in `t` and takes every lock further down the order
than all those held. The order is: while `main` starts alone, log, then graph; from then on
graph, then log; and the locks of the store and of the indexes last. Trips join, so those of
the programs come from those of their parts. The invariant says that what each goroutine has
left is a trip from what `gate` and `readers` say it holds to nothing held. Whoever waits
then waits for one who, if waiting, waits further down (`Rank`), so no circle closes. That
the two orders never meet needs one more part: while `main` starts nobody else has steps
left, and the log is attached only at the end of the start (the `att` of a standing).

**Read requests.** What a request may show is judged by `lived`, the graphs since it came.
`Moves` says how a write changes the two bounds: `Ever` only grows and `Always` only shrinks,
so a statement "at least what `Always` says, at most what `Ever` says" that held before a
write holds after it, and each invariant needs an argument only at the request's own reads.
`History` keeps that every graph of `lived` is one and that the present one is among them.
For `MATCH`, `SoundSearch` says of each pending triple that its parts were read from graphs
of `lived` and that its candidate had the label or is one of the `stale`, `DistinctSearch` that no edge is pending, shown or marked twice, and
`CompleteSearch` that a match that lasts is shown, pending, or still ahead: its first vertex
among the candidates left, or its edge among those of the candidate at hand.

**Searches.** One invariant for each kind, in two halves. The lower half is about the frontier:
what is reachable by edges of `Always` is found or reachable through an item of the agenda,
by no longer a way than the reference allows. The upper half gives each item and each
answer a walk over edges of `Ever`. `Levels`: BFS's queue is sorted by depth and spans two
levels. `Deep`: an item of the recursion is reached by a walk as long as its depth, and what has been
finished is closed under lasting edges, except through the agenda. `Paths`: every simple lasting path has a prefix
that the agenda still carries, or is in the list, exactly once. `Colours`: the grey vertices are
those of the current call chain and a lasting cycle keeps a vertex that is not black. `Waves` and
`Heap` are the two of `SHORTEST`: a level is never entered by a longer way than a lasting
one, and Dijkstra's distances of settled vertices are no larger than the weight of any
lasting path, which is where weights that are not negative matter, and why a negative one
must be refused when its edge is met.

**Reports.** A report takes the graph in at one step, so its invariant is short and the work is
in what that step computes. `Class(id)` is all that edges join `id` to. It is closed under
edges (`ClassFacts`: `AllSteps` steps reach all that can be reached) and, as edges join both ways,
the class of each of its members (`ClassesShared`); so a flood from an unseen vertex adds its class
and nothing else (`FloodedFacts`), and after the first `k` vertices of any order the floods
are as many as the classes of those `k` (`ComponentsCounted`). The order of the top is total, so
the list `TopDegrees` chooses exists (`OrderedListing`), and who is cut off comes later in it.

**Induction.** The provers here cannot instantiate the library's induction theorems, which take an
operator. `SequenceLemmas!NatsWithin` states induction with a *set* instead (a set of naturals
that holds 0 and the successor of each of its members holds all naturals) and is proved from the
well-foundedness of the naturals; with it and
`Iterates`, on functions that go step by step, the proofs go through replays, rebuilds, the
binary search, flattened lists, lists of lock steps, floods and walks of any length.

Only model-checked:

* the liveness properties (`ShutdownEnds`, `RebuildsEnd`, `QueryEnds`, `AllFinish`): fairness and
  `ENABLED` are out of the provers' reach;
* `RecoveryExact` and `RecoverySucceeds`, and `SnapshotWhole` and `IndexExact` in general,
  which are false.

No proved module reaches a `RECURSIVE` operator.

## 5. Where the code and its documents disagree

`Durability!exposed` lists what has happened that may cost data. With none of it,
recovery gives back exactly the graph as it was (`Lossless`). Each entry is
needed: TLC finds a lost or altered graph for every one of them.

| Entry | What happens | Document |
| --- | --- | --- |
| `window` | a record logged between capture and `Truncate` is dropped (`main.go:51-53`); run `DurabilityWindow` | `DESIGN.md:234` |
| `overlap` | two saves share `snapshot.gdb.tmp` (`persistence.go:28`), and a half written file gets the final name; run `DurabilityOverlap` | `DESIGN.md:440` |
| `torn` | the torn tail stays in the file, and the next record shares its line (`wal.go:18`) | `DESIGN.md:441` |
| `ghost` | an append whose fsync failed is refused and replayed (`wal.go:35-36`) | `DESIGN.md:429` |
| `load` | a load leaves a log that undoes it at the next start (`server.go:205`) | `DESIGN.md:234` |
| `rounded` | an `INT` beyond 2^53 of a vertex or an edge comes back as its neighbour (`property.go:52`) | `DESIGN.md:215` |
| `long` | a record of a vertex or an edge beyond 4 MiB is written and cannot be read, nor can a torn one and the next on one line; the scanner's error ends the start (`wal.go:45`, `51`, `main.go:37`). A 2 MiB request can make one, since `<`, `>` and `&` take six bytes in JSON | `DESIGN.md:125` |
| `shutdown` | requests are answered after `SetWAL(nil)` and after the final capture (`main.go:72-80`) | `README.md:18` |

Others the models show:

* a crash between the rename of a snapshot and `Truncate`, or a `POST /save`,
  leaves records older than the snapshot; replaying an update of a vertex deleted
  since then, or an edge of one, fails (`wal.go:83`, `wal.go:97`) and the program
  does not start; run `DurabilityRestart`, against `DESIGN.md:125`;
* a reload takes the allocators back (`graph.go:166`): identifiers given since the
  snapshot are given again, against `DESIGN.md:224` and `233`.
  `FreshIds` therefore speaks of the time between two loads;
* `Rebuild` enters vertices that have been deleted since it read them
  (`index_manager.go:42`), run `IndexRace`, against `DESIGN.md:232`; an update
  takes out entries it puts back later (`index_manager.go:15`), and a `MATCH` by
  label that comes in between shows no row for that vertex, although it has the
  label before and after. `RowsComplete` speaks of vertices that are left alone, and
  among those not of the `gaps` of a rebuild, which empties the index first;
* `MATCH` takes the label index at its word (`executor.go:50-56`): an entry left behind by a
  rebuild shows a vertex under a label it does not have, against
  `DESIGN.md:343`. `RowsExisted` allows for the vertices the index lists by mistake;
* an audit reads the graph once and the indexes after that, entry by entry
  (`index_manager.go:78`): among writers it may report problems where there are none, or
  none where there are some, so that its answer is to be trusted when nothing changes
  meanwhile. `AuditTells` says that much, and `DESIGN.md:599-600` makes no such condition;
* -0.0 equals 0 for `Compare` and has a key of its own (`property.go:88`): a lookup of one
  misses the other, against `DESIGN.md:287`. `LookupExact` says that neither finds the other;
* with numbers and strings under one property name the binary search of the range
  index is not monotonic (`btree_index.go:12`), and entries stay behind or are not found,
  against `DESIGN.md:220`; `RangeExact` is stated for values that compare (`Fits`);
* an undirected `MATCH` marks an edge as seen when it first comes across it, before
  the label, the other end and `WHERE` are looked at (`executor.go:78-81`). An edge
  that fits the pattern only from its other end is not shown, on a quiet graph and
  against `DESIGN.md:336` and `345`: with `(a)-[r]-(b:P)` and an edge from 1 (a `P`)
  to 2 (no `P`), candidate 1 uses the edge up. Only if nothing is asked of the two ends
  none is missed: `UndirectedOnce`;
* `LIMIT 0` shows one row (`executor.go:63`, `96`), against
  `DESIGN.md:119`; `RowsExisted` speaks of limits above 0. An unknown variable in `RETURN`
  is noticed only when there is a row (`executor.go:92`), against `DESIGN.md:117`, which is
  part of what `FailsForCause` says;
* `DFS` with a depth limit misses vertices within the limit which it first meets on a
  longer way (`dfs.go:14`); `DepthFirstBounded` is complete only where nothing is cut, and documents the cut
  rather than catching it;
* `HasCycle` leaves a vertex grey when its read fails (`dfs.go:41`) and may then take
  an edge to it for a cycle that never existed; `CycleBounded` excepts deletions;
* the distances of Dijkstra come from one list of the vertices (`path.go:68`): a
  vertex created later is never entered, and a negative weight is noticed only when
  its edge is reached (`path.go:85`);
* a `TIMESTAMP` (nanoseconds, beyond 2^53) comes back from the log rounded, and
  `Compare` tells the two apart; the largest `INT` may come back as the smallest
  (`property.go:52`), against `DESIGN.md:215`. `ReplayKeepsAnswers` excepts both.

## 6. Not modelled

Power loss; the bytes of the gob, JSON and CRC encodings; sequence numbers (they
decide nothing at replay); the wrap of 64-bit identifiers. The parser is regular
expressions and text positions without state: a model would be another parser, and
the statements it produces are the inputs of `MatchQuery` and `Traverse`. The
configuration and the web page have no behaviour of their own. PageRank is floating
point arithmetic; `Schema` groups names. `VertexIDs` of the index manager has no
caller but the tests. A reload in the middle of a query is left out of
`ReadRequests`: it may replace every vertex and edge at once, and then nothing lasts
that an answer could be held against. `return paths, walk(from, 0)` (`path.go:28`,
`dfs.go:30`) reads a variable that the call beside it changes; Go does not fix the
order, its compiler makes the call first, and so do the models.

## 7. Plan

Done: the engine, the store, recovery and durability, the index manager, both property
indexes with their values, the read requests and the locks, and the proofs of section 4.
Every safety and action property of a passing run has a proof; what is left is listed at the
end of section 4 and out of the provers' reach.

Properties that share a state space share a run, so a new question joins the run
that can answer it.
