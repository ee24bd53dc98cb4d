----------------------------- MODULE Durability -----------------------------
(***************************************************************************)
(* The write-ahead log, the snapshot file and the processes that touch     *)
(* them in cmd/gographdb: writers (one at a time, under g.mu), any number  *)
(* of Persistence.Save calls (the ticker, POST /save, the final save of    *)
(* the signal handler), a POST /load, a crash at any step, and the         *)
(* recovery main performs before it serves again.                          *)
(*                                                                         *)
(* The disk keeps what was written to it: a process crash is modelled, the *)
(* loss of unsynced pages or of a rename at a power failure is not.        *)
(***************************************************************************)
EXTENDS Recovery

CONSTANTS
    Savers,     \* callers of Save: "ticker", "final", any other name is a POST /save
    Faults,     \* failing system calls: subset of {"append", "fsync", "save", "meta", "open"}
    MaxVertexId, MaxEdgeId,                \* bounds of the model: identifiers,
    MaxWrites, MaxSaves, MaxLoads, MaxLives \* calls and starts of the program

VertexIds == 1..MaxVertexId
EdgeIds == 1..MaxEdgeId

(* What storage.WAL may be asked to append. *)
Records ==
    [op : {"add_vertex", "update_vertex"}, id : VertexIds, vertex : Vertices]
    \cup [op : {"delete_vertex"}, id : VertexIds]
    \cup [op : {"add_edge"}, id : EdgeIds,
          edge : [from : VertexIds, to : VertexIds, label : EdgeLabels, props : PropertyMaps]]
    \cup [op : {"delete_edge"}, id : EdgeIds]

ASSUME FaultsAssumption == Faults \subseteq {"append", "fsync", "save", "meta", "open"}
ASSUME BoundsAssumption == MaxVertexId \in Nat /\ MaxEdgeId \in Nat
ASSUME SaversAssumption == IsFiniteSet(Savers)
ASSUME NoneAssumption == None \notin Nat /\ None \notin Records \cup {Partial, Overlong}

VARIABLES
    phase,   \* "serving", "closing", "stopped", "crashed" or "refused" (log.Fatalf)
    g,       \* the engine; after a crash, what it was
    pending, \* the record the log holds and the store does not yet
    log,     \* the file wal.log
    walOpen, \* w.file can be written
    files,   \* the snapshot files by inode
    dir,     \* the names snapshot.gdb.tmp and snapshot.gdb
    saver,   \* where each Save call stands
    loader,  \* the snapshot a Load has decoded and not yet installed
    high,    \* history: the highest ids given to stored elements
    exposed, \* history: what has happened that may cost data
    spent    \* how much of each bound is used

disk == <<log, files, dir>>
vars == <<phase, g, pending, log, walOpen, files, dir, saver, loader, high, exposed, spent>>

(* Each Save holds at most one file open, and the directory names two. *)
Inodes == 1..(Cardinality(Savers) + 2)
Bounds == [writes |-> MaxWrites, saves |-> MaxSaves, loads |-> MaxLoads, lives |-> MaxLives]

Spend(what) == spent[what] < Bounds[what] /\ spent' = [spent EXCEPT ![what] = @ + 1]

Up == phase \in {"serving", "closing"}
Idle == [pc |-> "idle", snap |-> None, inode |-> None]
Content(e) == <<e.store.vertices, e.store.edges>>

Init ==
    /\ phase = "serving"
    /\ g = NewEngine
    /\ pending = None
    /\ log = EmptyLog /\ walOpen = TRUE
    /\ files = [i \in Inodes |-> NewFile]
    /\ dir = [tmp |-> None, snap |-> None]
    /\ saver = [s \in Savers |-> Idle]
    /\ loader = None
    /\ high = [v |-> 0, e |-> 0]
    /\ exposed = {}
    /\ spent = [writes |-> 0, saves |-> 0, loads |-> 0, lives |-> 1]
-----------------------------------------------------------------------------
(***************************************************************************)
(* Writers.  A request that passes the engine's checks produces one        *)
(* record; a creation has taken its identifier by then.                    *)
(***************************************************************************)
Requests ==
    {AddVertexRec(g.vIds, v) : v \in IF g.vIds \in VertexIds THEN Vertices ELSE {}}
    \cup {UpdateVertexRec(id, v) : id \in DOMAIN g.store.vertices, v \in Vertices}
    \cup {DeleteVertexRec(id) : id \in DOMAIN g.store.vertices}
    \cup {AddEdgeRec(g.eIds, e) :
             e \in IF g.eIds \in EdgeIds
                   THEN {WithProps(NewEdge(from, to, label), props) :
                            from, to \in DOMAIN g.store.vertices, label \in EdgeLabels,
                            props \in PropertyMaps}
                   ELSE {}}
    \cup {DeleteEdgeRec(id) : id \in DOMAIN g.store.edges}

TakeId(rec) ==
    CASE rec.op = "add_vertex" -> [g EXCEPT !.vIds = @ + 1]
      [] rec.op = "add_edge"   -> [g EXCEPT !.eIds = @ + 1]
      [] OTHER                 -> g

Mark(rec) ==
    high' = CASE rec.op = "add_vertex" -> [high EXCEPT !.v = rec.id]
              [] rec.op = "add_edge"   -> [high EXCEPT !.e = rec.id]
              [] OTHER                 -> high

(* Reasons for which a record that is in the log may not come back as it was. *)
Hidden(rec) ==
    {r \in {"torn", "long", "rounded"} :
        CASE r = "torn"    -> log.tail # None
          [] r = "long"    -> TooLong(rec)
          [] r = "rounded" -> \E k \in DOMAIN PropsOf(rec) : ~SurvivesFloat(PropsOf(rec)[k])}

(* A fragment written after a record that lacks its newline hides that record. *)
Spoiled == IF log.tail \in {None, Partial, Overlong} THEN {} ELSE {"torn"}

(* The bytes the log ends in are too long to be read over. *)
Outgrown(file) ==
    IF file.tail = Overlong \/ (file.lines # <<>> /\ Last(file.lines) = Overlong)
    THEN {"long"} ELSE {}

LogSteady == UNCHANGED <<phase, walOpen, files, dir, saver, loader>>

(* w.Log appends and syncs the record; the writer still holds g.mu. *)
Log(rec) ==
    /\ phase = "serving" /\ pending = None /\ walOpen
    /\ Spend("writes")
    /\ g' = TakeId(rec)
    /\ \E damaged \in DamagedLines(log) : log' = AppendLine(log, rec, damaged)
    /\ pending' = rec
    /\ exposed' = exposed \cup Hidden(rec) \cup Outgrown(log')
    /\ UNCHANGED high /\ LogSteady

(* The append fails with nothing, a part, or all but the newline on disk,  *)
(* or the fsync fails after it: the caller is told the call failed.        *)
LogFails(rec) ==
    /\ phase = "serving" /\ pending = None
    /\ Spend("writes")
    /\ g' = TakeId(rec)
    /\ \/ /\ "append" \in Faults \/ ~walOpen
          /\ UNCHANGED <<log, exposed>>
       \/ /\ "append" \in Faults /\ walOpen
          /\ \E fragment \in {Partial, Overlong, rec} :
                /\ log' = AppendFragment(log, fragment)
                /\ exposed' = exposed \cup Spoiled \cup Outgrown(log')
                                \cup IF fragment = rec THEN {"ghost"} ELSE {}
       \/ /\ "fsync" \in Faults /\ walOpen
          /\ \E damaged \in DamagedLines(log) : log' = AppendLine(log, rec, damaged)
          /\ exposed' = exposed \cup {"ghost"} \cup Hidden(rec) \cup Outgrown(log')
    /\ UNCHANGED <<pending, high>> /\ LogSteady

(* The store takes the change and the writer releases g.mu. *)
Store ==
    /\ Up /\ pending # None
    /\ g' = Apply(g, pending)
    /\ Mark(pending)
    /\ pending' = None
    /\ UNCHANGED <<log, exposed, spent>> /\ LogSteady

(* After SetWAL(nil) the server still answers, and nothing is logged. *)
WriteUnlogged(rec) ==
    /\ phase = "closing" /\ pending = None
    /\ Spend("writes")
    /\ g' = Apply(TakeId(rec), rec)
    /\ Mark(rec)
    /\ exposed' = exposed \cup {"shutdown"}
    /\ UNCHANGED <<pending, log>> /\ LogSteady
-----------------------------------------------------------------------------
(***************************************************************************)
(* Save.  The file is written in two halves; os.Create of a name that      *)
(* exists empties the file other descriptors may be writing to.            *)
(***************************************************************************)
SaveSteady == UNCHANGED <<phase, g, pending, loader, high>>
Step(s, from, to) == saver[s].pc = from /\ saver' = [saver EXCEPT ![s].pc = to]
Finish(s) == saver' = [saver EXCEPT ![s] = IF s = "final" THEN [Idle EXCEPT !.pc = "done"] ELSE Idle]
Truncates(s) == s \in {"ticker", "final"}

(* g.Snapshot, under g.mu. *)
Capture(s) ==
    /\ Up /\ pending = None
    /\ s = "final" => phase = "closing"
    /\ saver[s].pc = "idle"
    /\ IF s = "final" THEN UNCHANGED spent ELSE Spend("saves")
    /\ saver' = [saver EXCEPT ![s] = [@ EXCEPT !.pc = "create", !.snap = S!SnapshotOf(g.store)]]
    /\ exposed' = exposed \cup
         IF \E t \in Savers : saver[t].pc \notin {"idle", "done"} THEN {"overlap"} ELSE {}
    /\ UNCHANGED <<disk, walOpen>> /\ SaveSteady

InUse == {dir.tmp, dir.snap} \cup {saver[t].inode : t \in Savers}

\* Mutant: the snapshot is written in place.
CreateInPlace(s) ==
    /\ Up /\ saver[s].pc = "create"
    /\ LET i == CHOOSE j \in Inodes : j \notin InUse
       IN  /\ files' = [files EXCEPT ![i] = NewFile]
           /\ dir' = [tmp |-> i, snap |-> i]
           /\ saver' = [saver EXCEPT ![s] = [@ EXCEPT !.pc = "head", !.inode = i]]
    /\ UNCHANGED <<log, walOpen, exposed, spent>> /\ SaveSteady

(* os.Create(tmp) *)
Create(s) ==
    /\ Up /\ saver[s].pc = "create"
    /\ LET i == IF dir.tmp # None THEN dir.tmp ELSE CHOOSE j \in Inodes : j \notin InUse
       IN  /\ files' = [files EXCEPT ![i] = NewFile]
           /\ dir' = [dir EXCEPT !.tmp = i]
           /\ saver' = [saver EXCEPT ![s] = [@ EXCEPT !.pc = "head", !.inode = i]]
    /\ UNCHANGED <<log, walOpen, exposed, spent>> /\ SaveSteady

WriteHead(s) ==
    /\ Up /\ Step(s, "head", "rest")
    /\ files' = [files EXCEPT ![saver[s].inode].head = saver[s].snap]
    /\ UNCHANGED <<log, dir, walOpen, exposed, spent>> /\ SaveSteady

(* The last write, Sync and Close. *)
WriteRest(s) ==
    /\ Up /\ Step(s, "rest", "rename")
    /\ files' = [files EXCEPT ![saver[s].inode].rest = saver[s].snap]
    /\ UNCHANGED <<log, dir, walOpen, exposed, spent>> /\ SaveSteady

\* Mutant: the error of a save is dropped and the log truncated.
SaveFailsTruncating(s) ==
    /\ Up /\ saver[s].pc \in {"head", "rest"}
    /\ "save" \in Faults
    /\ dir' = [dir EXCEPT !.tmp = None]
    /\ saver' = [saver EXCEPT ![s].pc = "truncate"]
    /\ UNCHANGED <<log, files, walOpen, exposed, spent>> /\ SaveSteady

(* os.Create fails, or an encode, flush, sync or close error, after which  *)
(* the name is removed.                                                    *)
SaveFails(s) ==
    /\ Up /\ "save" \in Faults
    /\ \/ saver[s].pc = "create" /\ UNCHANGED dir
       \/ saver[s].pc \in {"head", "rest"} /\ dir' = [dir EXCEPT !.tmp = None]
    /\ Finish(s)
    /\ UNCHANGED <<log, files, walOpen, exposed, spent>> /\ SaveSteady

Rename(s) ==
    /\ Up
    /\ \/ /\ dir.tmp # None
          /\ Step(s, "rename", "meta")
          /\ dir' = [tmp |-> None, snap |-> dir.tmp]
       \/ /\ dir.tmp = None /\ saver[s].pc = "rename"
          /\ Finish(s)
          /\ UNCHANGED dir
    /\ UNCHANGED <<log, files, walOpen, exposed, spent>> /\ SaveSteady

(* meta.json is written last; an error there is an error of Save. *)
WriteMeta(s) ==
    /\ Up /\ saver[s].pc = "meta"
    /\ \/ Truncates(s) /\ Step(s, "meta", "truncate")
       \/ (~Truncates(s) \/ "meta" \in Faults) /\ Finish(s)
    /\ UNCHANGED <<disk, walOpen, exposed, spent>> /\ SaveSteady

(* Truncate takes w.mu only, so a writer may be between Log and Store; it  *)
(* drops whatever the log holds, the newer records included.  When it      *)
(* cannot reopen the file, the log keeps a closed descriptor.              *)
Truncate(s) ==
    /\ Up /\ saver[s].pc = "truncate"
    /\ Finish(s)
    /\ \/ /\ log' = EmptyLog /\ walOpen' = TRUE
          /\ exposed' = exposed \cup
               IF pending = None /\ saver[s].snap = S!SnapshotOf(g.store) THEN {} ELSE {"window"}
       \/ /\ "open" \in Faults
          /\ walOpen' = FALSE
          /\ UNCHANGED <<log, exposed>>
    /\ UNCHANGED <<files, dir, spent>> /\ SaveSteady
-----------------------------------------------------------------------------
(* POST /load: the file is decoded first, then installed under g.mu. *)
LoadRead ==
    /\ Up /\ loader = None
    /\ dir.snap # None /\ Whole(files[dir.snap])
    /\ Spend("loads")
    /\ loader' = files[dir.snap].head
    /\ UNCHANGED <<phase, g, pending, disk, walOpen, saver, high, exposed>>

LoadReplace ==
    /\ Up /\ loader # None /\ pending = None
    /\ g' = IF S!CanReset(loader) THEN LoadInto(loader) ELSE g
    /\ exposed' = exposed \cup {"load"}
    /\ loader' = None
    /\ UNCHANGED <<phase, pending, disk, walOpen, saver, high, spent>>

(* The signal handler: SetWAL(nil), the final save, then the exit, which   *)
(* Shutdown delays for five seconds at most whatever is still running.     *)
Signal ==
    /\ phase = "serving" /\ pending = None /\ "final" \in Savers
    /\ phase' = "closing"
    /\ UNCHANGED <<g, pending, disk, walOpen, saver, loader, high, exposed, spent>>

Down(why) ==
    /\ phase' = why
    /\ saver' = [s \in Savers |-> Idle]
    /\ loader' = None /\ walOpen' = FALSE
    /\ UNCHANGED <<g, files, dir, high, spent>>

\* Mutant: the exit waits for whatever is still running, without a limit.
StopAfterAll ==
    /\ phase = "closing" /\ pending = None
    /\ \A s \in Savers : saver[s].pc = IF s = "final" THEN "done" ELSE "idle"
    /\ Down("stopped")
    /\ UNCHANGED <<pending, log, exposed>>

Stop ==
    /\ phase = "closing" /\ pending = None /\ saver["final"].pc = "done"
    /\ Down("stopped")
    /\ UNCHANGED <<pending, log, exposed>>

(* A crash leaves the log as it is or cuts a last append short.  When that *)
(* append lacks only its newline the record comes back on replay: the call *)
(* was not answered, so it may count as done.                              *)
Crash ==
    /\ Up /\ spent.lives < MaxLives
    /\ Down("crashed")
    /\ \/ UNCHANGED <<pending, log, exposed>>
       \/ /\ phase = "serving" /\ pending = None /\ walOpen
          /\ \E fragment \in {Partial, Overlong} : log' = AppendFragment(log, fragment)
          /\ exposed' = exposed \cup Spoiled \cup Outgrown(log')
          /\ UNCHANGED pending
       \/ /\ phase = "serving" /\ pending = None /\ walOpen /\ log.tail = None
          /\ \E rec \in {r \in Requests : Hidden(r) = {}} :
                log' = AppendFragment(log, rec) /\ pending' = rec
          /\ UNCHANGED exposed

Recovered ==
    IF dir.snap = None THEN RecoverOnto(NewEngine, log) ELSE RecoverFrom(files[dir.snap], log)

Restart ==
    /\ phase \in {"crashed", "stopped"}
    /\ Spend("lives")
    /\ IF Recovered.ok
       THEN phase' = "serving" /\ walOpen' = TRUE /\ g' = Recovered.g
       ELSE phase' = "refused" /\ UNCHANGED <<walOpen, g>>
    /\ pending' = IF Recovered.ok THEN None ELSE pending
    /\ IF Recovered.ok /\ pending # None THEN Mark(pending) ELSE UNCHANGED high
    /\ UNCHANGED <<disk, saver, loader, exposed>>

SaveStep(s) ==
    Create(s) \/ WriteHead(s) \/ WriteRest(s) \/ SaveFails(s)
    \/ Rename(s) \/ WriteMeta(s) \/ Truncate(s)

Next ==
    \/ \E rec \in Requests : Log(rec) \/ LogFails(rec) \/ WriteUnlogged(rec)
    \/ Store
    \/ \E s \in Savers : Capture(s) \/ SaveStep(s)
    \/ LoadRead \/ LoadReplace
    \/ Signal \/ Stop \/ Crash \/ Restart

Spec == Init /\ [][Next]_vars
-----------------------------------------------------------------------------
(***************************************************************************)
(* Fairness, for a program with a final save: the signal handler runs on.  *)
(* Nothing is assumed of requests, of the ticker or of crashes, and g.mu   *)
(* is free between two requests whenever Capture waits for it.             *)
(***************************************************************************)
Fairness == WF_vars(Capture("final") \/ SaveStep("final")) /\ WF_vars(Stop)

FairSpec == Spec /\ Fairness
-----------------------------------------------------------------------------
(* What the next start should find: the engine as it was, with the change  *)
(* whose record was already in the log.                                    *)
Durable == IF pending = None THEN g ELSE Apply(g, pending)

(* Every variable has its type. *)
TypeOK ==
    /\ phase \in {"serving", "closing", "stopped", "crashed", "refused"}
    /\ g.vIds \in 1..(MaxVertexId + 1) /\ g.eIds \in 1..(MaxEdgeId + 1)
    /\ DOMAIN g.store.vertices \subseteq VertexIds /\ DOMAIN g.store.edges \subseteq EdgeIds
    /\ pending = None \/ pending.id \in VertexIds \cup EdgeIds
    /\ walOpen \in BOOLEAN
    /\ {dir.tmp, dir.snap} \subseteq Inodes \cup {None}
    /\ \A s \in Savers : saver[s].inode \in Inodes \cup {None}
    /\ exposed \subseteq {"torn", "long", "rounded", "ghost", "window", "overlap", "load", "shutdown"}

(* DESIGN.md:234: replaying the log over the snapshot gives the graph as   *)
(* it was before the crash, whenever the crash comes.                      *)
RecoveryExact ==
    phase # "refused" => Recovered.ok /\ Content(Recovered.g) = Content(Durable)

(* The list of ways to lose data is complete: as long as none of them has  *)
(* happened, a recovery that succeeds is exact, whatever calls failed, at  *)
(* whatever step of a save the program died and however often it did.      *)
Lossless ==
    exposed = {} /\ Recovered.ok => Content(Recovered.g) = Content(Durable)

(* DESIGN.md:224-225: identifiers of stored elements, deleted ones too,    *)
(* are not handed out again after a restart.  Neither a value that comes   *)
(* back rounded nor the record of a call that failed changes that.         *)
RecoveredIdsFresh ==
    exposed \subseteq {"rounded", "ghost"} /\ Recovered.ok =>
        Recovered.g.vIds > high.v /\ Recovered.g.eIds > high.e

(* DESIGN.md:440: at any moment the file under the name snapshot.gdb is    *)
(* one complete snapshot.                                                  *)
SnapshotWhole == dir.snap # None => Whole(files[dir.snap])

(* The same whenever no Save began while another was going on: no failing  *)
(* call, no crash and no file left behind by either makes it less true.    *)
WholeWithoutOverlap == "overlap" \notin exposed => SnapshotWhole

(* DESIGN.md:125, 441: a start reads the snapshot and then the records of  *)
(* the log up to a damaged tail, so it succeeds with whatever the program  *)
(* and its crashes left on disk, as long as no needed record was lost.     *)
RecoverySucceeds ==
    phase # "refused" /\ exposed \subseteq {"torn"} => Recovered.ok

NeedsVertex(line, id) ==
    \/ line.op = "update_vertex" /\ line.id = id
    \/ line.op = "add_edge" /\ id \in {line.edge.from, line.edge.to}

(* wal.go:45, 83, 97: as long as the log holds no record and no damaged    *)
(* line that is too long to be read, it never keeps the program from       *)
(* starting without a snapshot; and with an older snapshot only where it   *)
(* changes a vertex, or ties an edge to one, which a later record deletes. *)
RefusedForStaleRecords ==
    phase # "refused" /\ exposed \subseteq {"torn"} /\ ~Recovered.ok =>
        /\ dir.snap # None
        /\ exposed = {} =>
              LET lines == ScannedLines(log)
              IN  \E i, j \in DOMAIN lines :
                     /\ i < j /\ lines[j].op = "delete_vertex"
                     /\ NeedsVertex(lines[i], lines[j].id)

(* A signal ends the program, even when the final save fails at any of its *)
(* steps and requests or other saves go on meanwhile.                      *)
ShutdownEnds == phase = "closing" ~> phase \in {"stopped", "crashed"}
=============================================================================
