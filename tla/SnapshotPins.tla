---------------------------- MODULE SnapshotPins ----------------------------
(***************************************************************************)
(* The SnapshotPin store of one tenant (internal/coordination/snapshot):   *)
(* SnapshotPin nodes and PINS edges in the graph, the LRU cache in front   *)
(* of them, and the sweeper that deletes expired pins.                     *)
(*                                                                         *)
(* ActivePinsForTable is split where other goroutines can run: the cache   *)
(* lookup and the capture of "now", the graph query, and the cache fill.   *)
(* A cache hit returns the entry as it is and changes nothing, so it is no *)
(* action.                                                                 *)
(* UpsertSnapshotPin is split into the lock with the node MERGE, the edge   *)
(* MERGE with the commit, and the invalidation that follows it; the sweep  *)
(* is split between the capture of "now" and its transaction.  Time is a   *)
(* clock in the seconds of an RFC3339 timestamp.                           *)
(***************************************************************************)
EXTENDS Naturals, FiniteSets

CONSTANTS
    PinNames,    \* pin_name values
    Tables,      \* tables of the tenant
    Snapshots,   \* at_snapshot_id values
    Readers,     \* goroutines in ActivePinsForTable
    Writers,     \* goroutines in UpsertSnapshotPin
    CacheSize,   \* capacity of the LRU
    MaxTime      \* bound: last value of the clock

ASSUME TablesAssumption == Tables # {}
ASSUME CacheSizeAssumption == CacheSize \in Nat \ {0}
ASSUME MaxTimeAssumption == MaxTime \in Nat

Time == 0 .. MaxTime
Pin  == [name : PinNames, snap : Snapshots, expiry : Time]

\* No index makes pin_name unique, so a node is told apart by the table it was
\* created for as well: the advisory lock of that table serialises its creation.
Node == [name : PinNames, home : Tables, snap : Snapshots, expiry : Time]
NoPin == [name |-> "", snap |-> "", expiry |-> 0]

\* Initial value of a local that holds no table yet.
SomeTable == CHOOSE t \in Tables : TRUE

VARIABLES
    clock,     \* time.Now(), in seconds
    known,     \* tables that have a Table node
    nodes,     \* SnapshotPin nodes
    edges,     \* PINS edges, << name and home of the pin, table >>
    cached,    \* keys present in the LRU
    entry,     \* value of each key
    reader,    \* local state of each reader
    writer,    \* local state of each writer
    sweeper,   \* local state of the sweeper
    behind     \* history: keys whose entry no pending invalidation repairs, and why

vars == << clock, known, nodes, edges, cached, entry, reader, writer,
           sweeper, behind >>

WriterState == [pc : {"idle", "merge", "invalidate"}, tab : Tables,
                pin : Pin \cup {NoPin}, found : BOOLEAN]
NoUpsert(t) == [pc |-> "idle", tab |-> t, pin |-> NoPin, found |-> FALSE]

ReaderState == [pc : {"idle", "query", "add"}, tab : Tables, now : Time,
                rows : SUBSET Pin, overtaken : BOOLEAN]
Reasons == {"overtaken", "moved", "unreported"}

PinOf(n) == [name |-> n.name, snap |-> n.snap, expiry |-> n.expiry]

\* The rows the query of ActivePinsForTable returns.
ActiveRows(t, now) ==
    {PinOf(n) : n \in {x \in nodes : << x.name, x.home, t >> \in edges /\ x.expiry > now}}

Unexpired(pins, now) == {p \in pins : p.expiry > now}

Init ==
    /\ clock = 0
    /\ known \in SUBSET Tables
    /\ nodes = {}
    /\ edges = {}
    /\ cached = {}
    /\ entry = [t \in Tables |-> {}]
    /\ reader = [r \in Readers |-> [pc |-> "idle", tab |-> SomeTable, now |-> 0,
                                    rows |-> {}, overtaken |-> FALSE]]
    /\ writer = [w \in Writers |-> NoUpsert(SomeTable)]
    /\ sweeper = [pc |-> "idle", now |-> 0]
    /\ behind = {}

----------------------------------------------------------------------------
(* ActivePinsForTable *)

\* A miss captures "now" before the connection is acquired.
CacheMiss(r, t) ==
    /\ reader[r].pc = "idle"
    /\ t \notin cached
    /\ reader' = [reader EXCEPT ![r] =
           [pc |-> "query", tab |-> t, now |-> clock, rows |-> {}, overtaken |-> FALSE]]
    /\ UNCHANGED << clock, known, nodes, edges, cached, entry, writer,
                    sweeper, behind >>

\* The graph query; on an error the call returns without filling the cache.
QueryPins(r) ==
    /\ reader[r].pc = "query"
    /\ \/ reader' = [reader EXCEPT ![r].pc = "add",
                                   ![r].rows = ActiveRows(reader[r].tab, reader[r].now)]
       \/ reader' = [reader EXCEPT ![r].pc = "idle"]
    /\ UNCHANGED << clock, known, nodes, edges, cached, entry, writer,
                    sweeper, behind >>

\* Keys of the LRU after an Add: at capacity another key makes room.
KeysAfterAdd(t) ==
    IF Cardinality(cached \cup {t}) <= CacheSize
    THEN {cached \cup {t}}
    ELSE {(cached \ {v}) \cup {t} : v \in cached \ {t}}

Repair(t) == {b \in behind : b[1] # t}

FillCache(r) ==
    LET t == reader[r].tab IN
    /\ reader[r].pc = "add"
    /\ cached' \in KeysAfterAdd(t)
    /\ entry' = [entry EXCEPT ![t] = reader[r].rows]
    /\ behind' = Repair(t) \cup (IF reader[r].overtaken THEN {<< t, "overtaken" >>} ELSE {})
    /\ reader' = [reader EXCEPT ![r].pc = "idle"]
    /\ UNCHANGED << clock, known, nodes, edges, writer, sweeper >>

----------------------------------------------------------------------------
(* UpsertSnapshotPin *)

Merging(w) == writer[w].pc = "merge"

\* Mutant: the advisory lock is not taken.
MergeWithoutLock(w, pin, t) ==
    /\ writer[w].pc = "idle"
    /\ writer' = [writer EXCEPT ![w] = [pc |-> "merge", tab |-> t, pin |-> pin,
           found |-> \E n \in nodes : n.name = pin.name]]
    /\ UNCHANGED << clock, known, nodes, edges, cached, entry, reader,
                    sweeper, behind >>

\* The transaction takes the advisory lock of the table and runs the MERGE of
\* the node, which sees the committed nodes and waits for the row lock of one
\* that another transaction updates.
MergePinNode(w, pin, t) ==
    LET found == \E n \in nodes : n.name = pin.name IN
    /\ writer[w].pc = "idle"
    /\ \A x \in Writers : Merging(x) =>
          /\ writer[x].tab # t
          /\ ~ (found /\ writer[x].found /\ writer[x].pin.name = pin.name)
    /\ writer' = [writer EXCEPT ![w] =
           [pc |-> "merge", tab |-> t, pin |-> pin, found |-> found]]
    /\ UNCHANGED << clock, known, nodes, edges, cached, entry, reader,
                    sweeper, behind >>

\* Mutant: the edge is drawn from the table to the pin.
EdgesReversed(w) ==
    edges \cup (IF writer[w].tab \in known
                THEN {<< writer[w].tab, writer[w].tab, writer[w].pin.name >>} ELSE {})

\* SET updates the nodes that were found; without any, one is created.
NodesAfterMerge(w) ==
    LET pin == writer[w].pin IN
    IF writer[w].found
    THEN {IF n.name = pin.name THEN [n EXCEPT !.snap = pin.snap, !.expiry = pin.expiry]
                               ELSE n : n \in nodes}
    ELSE nodes \cup {[name |-> pin.name, home |-> writer[w].tab,
                     snap |-> pin.snap, expiry |-> pin.expiry]}

\* The edge is merged if the Table node exists.  An edge to an earlier table of
\* the same pin stays.
EdgesAfterMerge(w) ==
    edges \cup (IF writer[w].tab \in known
                THEN {<< n.name, n.home, writer[w].tab >> :
                         n \in {x \in NodesAfterMerge(w) : x.name = writer[w].pin.name}}
                ELSE {})

\* The tables whose active pins the commit changes.
Repinned(w) ==
    {u \in Tables : \E h \in Tables : << writer[w].pin.name, h, u >> \in EdgesAfterMerge(w)}

\* Mutant: the invalidation is forgotten.
UpsertWithoutInvalidate(w) ==
    /\ Merging(w)
    /\ nodes' = NodesAfterMerge(w)
    /\ edges' = EdgesAfterMerge(w)
    /\ reader' = [r \in Readers |->
           IF reader[r].pc = "add" /\ reader[r].tab \in Repinned(w)
           THEN [reader[r] EXCEPT !.overtaken = TRUE] ELSE reader[r]]
    /\ behind' = behind \cup ((Repinned(w) \ {writer[w].tab}) \X {"moved"})
    /\ writer' = [writer EXCEPT ![w] = NoUpsert(@.tab)]
    /\ UNCHANGED << clock, known, cached, entry, sweeper >>

\* The transaction commits and reports it (the invalidation follows), or
\* commits and reports an error (the session reset failed: no invalidation).
UpsertSnapshotPin(w) ==
    /\ Merging(w)
    /\ nodes' = NodesAfterMerge(w)
    /\ edges' = EdgesAfterMerge(w)
    /\ reader' = [r \in Readers |->
           IF reader[r].pc = "add" /\ reader[r].tab \in Repinned(w)
           THEN [reader[r] EXCEPT !.overtaken = TRUE] ELSE reader[r]]
    /\ \/ /\ writer' = [writer EXCEPT ![w] = [NoUpsert(@.tab) EXCEPT !.pc = "invalidate"]]
          /\ behind' = behind \cup ((Repinned(w) \ {writer[w].tab}) \X {"moved"})
       \/ /\ writer' = [writer EXCEPT ![w] = NoUpsert(@.tab)]
          /\ behind' = behind \cup (Repinned(w) \X {"unreported"})
    /\ UNCHANGED << clock, known, cached, entry, sweeper >>

\* The transaction rolls back.
UpsertFail(w) ==
    /\ Merging(w)
    /\ writer' = [writer EXCEPT ![w] = NoUpsert(@.tab)]
    /\ UNCHANGED << clock, known, nodes, edges, cached, entry, reader,
                    sweeper, behind >>

Invalidate(w) ==
    /\ writer[w].pc = "invalidate"
    /\ cached' = cached \ {writer[w].tab}
    /\ behind' = Repair(writer[w].tab)
    /\ writer' = [writer EXCEPT ![w].pc = "idle"]
    /\ UNCHANGED << clock, known, nodes, edges, entry, reader, sweeper >>

----------------------------------------------------------------------------
(* Sweeper *)

\* sweepTenant captures "now" before its transaction begins.
SweepStart ==
    /\ sweeper.pc = "idle"
    /\ sweeper' = [pc |-> "delete", now |-> clock]
    /\ UNCHANGED << clock, known, nodes, edges, cached, entry, reader,
                    writer, behind >>

\* Mutant: the comparison with "now" is turned around.
SweepDeletesUnexpired ==
    /\ sweeper.pc = "delete"
    /\ nodes' = {p \in nodes : p.expiry < sweeper.now}
    /\ edges' = {e \in edges : \A p \in nodes \ nodes' : << p.name, p.home >> # << e[1], e[2] >>}
    /\ sweeper' = [sweeper EXCEPT !.pc = "idle"]
    /\ UNCHANGED << clock, known, cached, entry, reader, writer, behind >>

\* DETACH DELETE of the expired nodes, which waits for the row locks of pending
\* updates.  The LRU is not told.
SweepDelete ==
    /\ sweeper.pc = "delete"
    /\ nodes' = {p \in nodes : ~ (p.expiry < sweeper.now)}
    /\ \A w \in Writers : Merging(w) /\ writer[w].found =>
          \A p \in nodes \ nodes' : p.name # writer[w].pin.name
    /\ edges' = {e \in edges : \A p \in nodes \ nodes' : << p.name, p.home >> # << e[1], e[2] >>}
    /\ sweeper' = [sweeper EXCEPT !.pc = "idle"]
    /\ UNCHANGED << clock, known, cached, entry, reader, writer, behind >>

\* The tenant list or the transaction fails: the next cycle tries again.
SweepFail ==
    /\ sweeper.pc = "delete"
    /\ sweeper' = [sweeper EXCEPT !.pc = "idle"]
    /\ UNCHANGED << clock, known, nodes, edges, cached, entry, reader,
                    writer, behind >>

----------------------------------------------------------------------------
(* Environment *)

Tick ==
    /\ clock < MaxTime
    /\ clock' = clock + 1
    /\ UNCHANGED << known, nodes, edges, cached, entry, reader, writer,
                    sweeper, behind >>

\* The ingest pipeline merges the Table node.
RegisterTable(t) ==
    /\ t \notin known
    /\ known' = known \cup {t}
    /\ UNCHANGED << clock, nodes, edges, cached, entry, reader, writer,
                    sweeper, behind >>

Next ==
    \/ \E r \in Readers :
          \/ \E t \in Tables : CacheMiss(r, t)
          \/ QueryPins(r)
          \/ FillCache(r)
    \/ \E w \in Writers :
          \/ \E pin \in Pin, t \in Tables : MergePinNode(w, pin, t)
          \/ UpsertSnapshotPin(w)
          \/ UpsertFail(w)
          \/ Invalidate(w)
    \/ SweepStart \/ SweepDelete \/ SweepFail
    \/ Tick
    \/ \E t \in Tables : RegisterTable(t)

Spec == Init /\ [][Next]_vars

----------------------------------------------------------------------------
(* Properties *)

\* Every variable has its type; pins, cache keys and the locals of
\* ActivePinsForTable keep the shapes of pin.go.
TypeOK ==
    /\ clock \in Time
    /\ known \subseteq Tables
    /\ nodes \subseteq Node
    /\ edges \subseteq PinNames \X Tables \X Tables
    /\ cached \subseteq Tables
    /\ entry \in [Tables -> SUBSET Pin]
    /\ reader \in [Readers -> ReaderState]
    /\ writer \in [Writers -> WriterState]
    /\ sweeper \in [pc : {"idle", "delete"}, now : Time]
    /\ behind \subseteq Tables \X Reasons

Behind(t) == \E b \in behind : b[1] = t
Invalidating(t) == \E w \in Writers : writer[w].pc = "invalidate" /\ writer[w].tab = t

\* Coherence of the LRU: up to expired pins, an entry lists exactly the active
\* pins of its table, unless an invalidation of it is on its way or the key is
\* behind, that is: the fill was overtaken by an upsert, the upsert moved a pin
\* here from another table's point of view, or the upsert reported an error
\* after its commit.  Sweeps, ticks and evictions never break it.
CacheCoherence ==
    \A t \in cached :
        ~ Behind(t) /\ ~ Invalidating(t) =>
            Unexpired(entry[t], clock) = ActiveRows(t, clock)

\* The advisory lock does its work: no two SnapshotPin nodes of one name are
\* created for one table, and no PINS edge outlives its node, whatever upserts
\* and sweeps interleave (pg_advisory_xact_lock, MERGE, DETACH DELETE).
GraphWellFormed ==
    /\ TypeOK
    /\ \A p, q \in nodes : p.name = q.name /\ p.home = q.home => p = q
    /\ \A e \in edges : \E p \in nodes : p.name = e[1] /\ p.home = e[2]

\* The sweeper deletes no pin that is still in force, not even one renewed
\* between the capture of "now" and the delete.
UnexpiredPinsSurvive ==
    [][\A p \in nodes : p.expiry > clock =>
          \E q \in nodes' : q.name = p.name /\ q.home = p.home]_vars
=============================================================================
