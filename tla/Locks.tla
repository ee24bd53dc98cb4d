------------------------------- MODULE Locks --------------------------------
(***************************************************************************)
(* Who takes which lock in which order: g.mu of the graph, w.mu of the     *)
(* log, and below them the locks of the store and of the indexes, which    *)
(* are let go before another is taken; "index" stands for all four of      *)
(* them.  The code of a goroutine is the list of lock steps it has left.   *)
(* An RWMutex is Go's: one writer at a time passes its gate and then waits *)
(* for the readers inside, and a reader does not get past a taken gate.    *)
(***************************************************************************)
EXTENDS Sequences

CONSTANTS Requests, \* goroutines that serve requests, each one after another
          None

(* main and the ticker serve no requests, and None is no goroutine. *)
ASSUME GoroutinesAssumption ==
    {"main", "ticker"} \cap Requests = {} /\ None \notin Requests \cup {"main", "ticker"}

VARIABLES
    code,     \* the steps each goroutine has left
    gate,     \* for each lock the writer that holds it or is next, or None
    readers,  \* for each lock the readers inside
    attached, \* Graph.wal # nil
    phase

vars == <<code, gate, readers, attached, phase>>

Goroutines == Requests \cup {"main", "ticker"}
LockNames == {"g", "w", "store", "index"}

Step(do, lock) == <<[do |-> do, lock |-> lock]>>
Holding(lock, body) == Step("Lock", lock) \o body \o Step("Unlock", lock)
Sharing(lock, body) == Step("RLock", lock) \o body \o Step("RUnlock", lock)

(* Graph.log takes w.mu if there is a log. *)
Log == Step("Log", "w")

UseStore == Holding("store", <<>>)
UseIndex == Holding("index", <<>>)
Lookup == Sharing("index", <<>>)

Mutator == Holding("g", Sharing("store", <<>>) \o Log \o UseStore \o UseIndex)
Refused == Holding("g", Sharing("store", <<>>))
RefusedByLog == Holding("g", Sharing("store", <<>>) \o Log)

Read == Sharing("g", Sharing("store", <<>>))
Rebuild == UseIndex \o Read \o UseIndex \o Read \o UseIndex
Replace == Holding("g", UseStore)
Truncate == Holding("w", <<>>)
SetWAL(do) == Holding("g", Step(do, "g"))

Handlers ==
    {Mutator, Refused, RefusedByLog, Read, Lookup \o Read \o Read, Rebuild, Replace \o Rebuild}
Save == Read \o Truncate

\* Mutant: the log is attached before it is replayed.
StartAttached ==
    Replace \o Rebuild \o SetWAL("Attach") \o Holding("w", Read \o Mutator) \o Rebuild

(* main: LoadInto, Rebuild, Replay, which holds w.mu over every record it  *)
(* applies, Rebuild again, and only then SetWAL.                           *)
Start == Replace \o Rebuild \o Holding("w", Read \o Mutator) \o Rebuild \o SetWAL("Attach")

\* Mutant: the final save keeps the log locked.
StopHoldsLog == SetWAL("Detach") \o Holding("w", Save)

(* The signal handler: SetWAL(nil), the final save, Truncate. *)
Stop == SetWAL("Detach") \o Save
-----------------------------------------------------------------------------
Init ==
    /\ code = [t \in Goroutines |-> IF t = "main" THEN Start ELSE <<>>]
    /\ gate = [l \in LockNames |-> None] /\ readers = [l \in LockNames |-> {}]
    /\ attached = FALSE /\ phase = "starting"

Idle(t) == code[t] = <<>>
Do(t) == Head(code[t]).do
On(t) == Head(code[t]).lock
At(t, dos) == ~Idle(t) /\ Do(t) \in dos

Becomes(t, steps) == code' = [code EXCEPT ![t] = steps] /\ UNCHANGED <<attached, phase>>
Goes(t) == Becomes(t, Tail(code[t]))

(* wal.Log locks and unlocks w.mu; g.log calls it only if there is a log. *)
LogOrSkip(t) ==
    /\ At(t, {"Log"})
    /\ Becomes(t, (IF attached THEN Holding(On(t), <<>>) ELSE <<>>) \o Tail(code[t]))
    /\ UNCHANGED <<gate, readers>>

Lock(t) ==
    /\ At(t, {"Lock"}) /\ gate[On(t)] = None
    /\ gate' = [gate EXCEPT ![On(t)] = t]
    /\ Becomes(t, Step("Enter", On(t)) \o Tail(code[t])) /\ UNCHANGED readers

Enter(t) ==
    /\ At(t, {"Enter"}) /\ readers[On(t)] = {}
    /\ Goes(t) /\ UNCHANGED <<gate, readers>>

Unlock(t) ==
    /\ At(t, {"Unlock"})
    /\ gate' = [gate EXCEPT ![On(t)] = None]
    /\ Goes(t) /\ UNCHANGED readers

RLock(t) ==
    /\ At(t, {"RLock"}) /\ gate[On(t)] = None
    /\ readers' = [readers EXCEPT ![On(t)] = @ \cup {t}]
    /\ Goes(t) /\ UNCHANGED gate

RUnlock(t) ==
    /\ At(t, {"RUnlock"})
    /\ readers' = [readers EXCEPT ![On(t)] = @ \ {t}]
    /\ Goes(t) /\ UNCHANGED gate

Assign(t) ==
    /\ At(t, {"Attach", "Detach"})
    /\ attached' = (Do(t) = "Attach")
    /\ code' = [code EXCEPT ![t] = Tail(@)] /\ UNCHANGED <<gate, readers, phase>>

Run(t) ==
    \/ LogOrSkip(t) \/ Lock(t) \/ Enter(t) \/ Unlock(t) \/ RLock(t) \/ RUnlock(t) \/ Assign(t)

(* The server and the ticker start when main has come so far. *)
Serve ==
    /\ phase = "starting" /\ Idle("main") /\ phase' = "serving"
    /\ UNCHANGED <<code, gate, readers, attached>>

Arrive(t) ==
    /\ phase # "starting" /\ Idle(t)
    /\ \E handler \in Handlers : Becomes(t, handler)
    /\ UNCHANGED <<gate, readers>>

Tick ==
    /\ phase = "serving" /\ Idle("ticker") /\ Becomes("ticker", Save)
    /\ UNCHANGED <<gate, readers>>

Signal ==
    /\ phase = "serving" /\ phase' = "closing"
    /\ code' = [code EXCEPT !["main"] = Stop]
    /\ UNCHANGED <<gate, readers, attached>>

Next ==
    \/ \E t \in Goroutines : Run(t)
    \/ \E t \in Requests : Arrive(t)
    \/ Serve \/ Tick \/ Signal

Spec == Init /\ [][Next]_vars

(* A goroutine that waits for a mutex again and again finds it free gets   *)
(* it: sync.Mutex hands itself to the longest waiter after a millisecond,  *)
(* and Unlock of an RWMutex lets the waiting readers in first.             *)
FairSpec == Spec /\ WF_vars(Serve) /\ \A t \in Goroutines : SF_vars(Run(t))
-----------------------------------------------------------------------------
(* Those t cannot go on without. *)
WaitsFor(t) ==
    CASE At(t, {"Lock", "RLock"}) -> {gate[On(t)]} \ {None}
      [] At(t, {"Enter"}) -> readers[On(t)]
      [] OTHER -> {}

(* wal.go:29, 39, 54, graph.go:40-47: whatever is served, saved, rebuilt,  *)
(* started and stopped at the same time, no goroutines ever wait for one   *)
(* another in a circle, or one for itself.                                 *)
NoCyclicWait ==
    \A circle \in (SUBSET Goroutines) \ {{}} : \E t \in circle : WaitsFor(t) \cap circle = {}

(* Nobody waits for ever: the start comes to an end, and so does every     *)
(* request, save and stop.                                                 *)
AllFinish == \A t \in Goroutines : []<>Idle(t)
=============================================================================
