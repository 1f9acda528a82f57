------------------------- MODULE SnapshotPinsProofs -------------------------
(***************************************************************************)
(* Safety of the SnapshotPin store for any number of pin names, tables,    *)
(* readers and writers, any capacity of the LRU and any run of the clock.  *)
(***************************************************************************)
EXTENDS SnapshotPins, TLAPS

----------------------------------------------------------------------------
(* The inductive invariant *)

\* The advisory lock of a table has one holder at a time.
LocksOK ==
    \A w, x \in Writers :
        Merging(w) /\ Merging(x) /\ writer[w].tab = writer[x].tab => w = x

\* A transaction that is about to create a node will be the first to create one
\* of that name for its table.
FreshOK ==
    \A w \in Writers :
        Merging(w) /\ ~ writer[w].found =>
            \A n \in nodes : ~ (n.name = writer[w].pin.name /\ n.home = writer[w].tab)

PinOK == \A w \in Writers : Merging(w) => writer[w].pin \in Pin

\* What a reader and the sweeper take for "now" has passed.
ClockOK == sweeper.now <= clock /\ \A r \in Readers : reader[r].now <= clock

GraphInv == GraphWellFormed /\ LocksOK /\ FreshOK /\ PinOK /\ ClockOK

\* The rows a query for t finds at time now in nodes N with edges E.
Rows(N, E, t, now) ==
    {PinOf(n) : n \in {x \in N : << x.name, x.home, t >> \in E /\ x.expiry > now}}

\* The pins S are the active ones of t, up to expired ones.
Fits(S, N, E, t, now) == Unexpired(S, now) = Rows(N, E, t, now)

\* The rows of a reader fit unless an upsert has overtaken it.
ReadOK ==
    \A r \in Readers :
        reader[r].pc = "add" /\ ~ reader[r].overtaken =>
            Fits(reader[r].rows, nodes, edges, reader[r].tab, clock)

Coherent ==
    \A t \in cached :
        ~ Behind(t) /\ ~ Invalidating(t) => Fits(entry[t], nodes, edges, t, clock)

CacheInv == ReadOK /\ Coherent

----------------------------------------------------------------------------
(* The operators of the model *)

\* The clock counts in natural numbers.
LEMMA TimeShape == Time \subseteq Nat /\ 0 \in Time
BY MaxTimeAssumption DEF Time

\* The fields of a node, which tell it apart, and the pin it holds.
LEMMA NodeShape ==
    /\ \A n \in Node : /\ n.name \in PinNames /\ n.home \in Tables
                       /\ n.snap \in Snapshots /\ n.expiry \in Time
                       /\ PinOf(n) \in Pin /\ PinOf(n).expiry = n.expiry
    /\ \A p, q \in Node : p.name = q.name /\ p.home = q.home /\ p.snap = q.snap
                          /\ p.expiry = q.expiry => p = q
BY DEF Node, Pin, PinOf

\* The rows of a query are pins.
LEMMA RowsShape ==
    ASSUME TypeOK, NEW t, NEW now
    PROVE  ActiveRows(t, now) \subseteq Pin
<1>1. nodes \subseteq Node
  BY DEF TypeOK
<1> QED
  BY <1>1, NodeShape DEF ActiveRows

\* What the MERGE of the node does: it keeps the name and home of every node,
\* leaves the nodes of other names alone, and creates at most one.
LEMMA MergeShape ==
    ASSUME GraphInv, NEW w \in Writers, Merging(w)
    PROVE  /\ NodesAfterMerge(w) \subseteq Node
           /\ \A n \in nodes : \E q \in NodesAfterMerge(w) : q.name = n.name /\ q.home = n.home
           /\ \A q \in NodesAfterMerge(w) :
                 \/ \E n \in nodes : n.name = q.name /\ n.home = q.home
                 \/ ~ writer[w].found /\ q.name = writer[w].pin.name /\ q.home = writer[w].tab
           /\ \A x : x.name # writer[w].pin.name => (x \in NodesAfterMerge(w) <=> x \in nodes)
           /\ \A p, q \in NodesAfterMerge(w) : p.name = q.name /\ p.home = q.home => p = q
<1> DEFINE pin == writer[w].pin
           set(n) == [n EXCEPT !.snap = pin.snap, !.expiry = pin.expiry]
           new == [name |-> pin.name, home |-> writer[w].tab, snap |-> pin.snap, expiry |-> pin.expiry]
           N == NodesAfterMerge(w)
<1>1. /\ nodes \subseteq Node /\ pin \in Pin /\ writer[w].tab \in Tables
      /\ \A p, q \in nodes : p.name = q.name /\ p.home = q.home => p = q
      /\ ~ writer[w].found =>
            \A n \in nodes : ~ (n.name = pin.name /\ n.home = writer[w].tab)
  BY DEF GraphInv, GraphWellFormed, TypeOK, PinOK, FreshOK, WriterState
<1>2. \A n \in Node : /\ set(n) \in Node /\ set(n).name = n.name /\ set(n).home = n.home
                      /\ set(n).snap = pin.snap /\ set(n).expiry = pin.expiry
  BY <1>1 DEF Node, Pin
<1>3. new \in Node /\ new.name = pin.name /\ new.home = writer[w].tab
  BY <1>1 DEF Node, Pin
<1>4. CASE writer[w].found
  <2>1. N = {IF n.name = pin.name THEN set(n) ELSE n : n \in nodes}
    BY <1>4 DEF NodesAfterMerge
  <2> HIDE DEF set, N
  <2>2. N \subseteq Node
    BY <1>1, <1>2, <2>1
  <2>3. \A n \in nodes : \E q \in N : q.name = n.name /\ q.home = n.home
    <3> SUFFICES ASSUME NEW n \in nodes PROVE \E q \in N : q.name = n.name /\ q.home = n.home
      OBVIOUS
    <3>1. (IF n.name = pin.name THEN set(n) ELSE n) \in N
      BY <2>1
    <3> QED
      BY <1>1, <1>2, <3>1
  <2>4. \A q \in N : \E n \in nodes :
            /\ n.name = q.name /\ n.home = q.home
            /\ q = IF n.name = pin.name THEN set(n) ELSE n
    BY <1>1, <1>2, <2>1
  <2>5. \A x : x.name # pin.name => (x \in N <=> x \in nodes)
    <3>1. ASSUME NEW x, x.name # pin.name, x \in N PROVE x \in nodes
      BY <2>4, <3>1
    <3>2. ASSUME NEW x, x.name # pin.name, x \in nodes PROVE x \in N
      BY <2>1, <3>2
    <3> QED
      BY <3>1, <3>2
  <2>6. \A p, q \in N : p.name = q.name /\ p.home = q.home => p = q
    BY <1>1, <2>4
  <2> QED
    BY <2>2, <2>3, <2>4, <2>5, <2>6 DEF N
<1>5. CASE ~ writer[w].found
  <2>1. N = nodes \cup {new}
    BY <1>5 DEF NodesAfterMerge
  <2> HIDE DEF new, N
  <2> QED
    BY <1>1, <1>3, <1>5, <2>1 DEF N
<1> QED
  BY <1>4, <1>5

\* The edges of the commit: the old ones stay, and a new one belongs to a node of
\* the pin's name and leads to the table of the upsert.
LEMMA EdgeShape ==
    ASSUME GraphInv, NEW w \in Writers, Merging(w)
    PROVE  /\ edges \subseteq EdgesAfterMerge(w)
           /\ EdgesAfterMerge(w) \subseteq PinNames \X Tables \X Tables
           /\ \A e \in EdgesAfterMerge(w) \ edges :
                 /\ e[1] = writer[w].pin.name /\ e[3] = writer[w].tab
                 /\ \E n \in NodesAfterMerge(w) : n.name = e[1] /\ n.home = e[2]
<1> DEFINE N == {x \in NodesAfterMerge(w) : x.name = writer[w].pin.name}
           t == writer[w].tab
           new == IF t \in known THEN {<< n.name, n.home, t >> : n \in N} ELSE {}
<1>1. EdgesAfterMerge(w) = edges \cup new
  BY DEF EdgesAfterMerge
<1>2. N \subseteq Node
  BY MergeShape
<1>3. edges \subseteq PinNames \X Tables \X Tables /\ t \in Tables
  BY DEF GraphInv, GraphWellFormed, TypeOK, WriterState
<1>4. ASSUME NEW e \in new
      PROVE  /\ e \in PinNames \X Tables \X Tables
             /\ e[1] = writer[w].pin.name /\ e[3] = t
             /\ \E n \in NodesAfterMerge(w) : n.name = e[1] /\ n.home = e[2]
  <2>1. PICK n \in N : e = << n.name, n.home, t >>
    OBVIOUS
  <2>2. e[1] = n.name /\ e[2] = n.home /\ e[3] = t
    BY <2>1
  <2>3. n.name \in PinNames /\ n.home \in Tables
    BY <1>2, NodeShape
  <2> QED
    BY <1>3, <2>1, <2>2, <2>3
<1> HIDE DEF new
<1> QED
  BY <1>1, <1>3, <1>4

----------------------------------------------------------------------------
(* The graph *)

\* Nothing is stored, cached or under way yet.
LEMMA GraphInit == Init => GraphInv
<1> SUFFICES ASSUME Init PROVE GraphInv
  OBVIOUS
<1> USE DEF Init
<1>1. SomeTable \in Tables
  BY TablesAssumption DEF SomeTable
<1>2. TypeOK
  <2>1. writer \in [Writers -> WriterState]
    BY <1>1 DEF NoUpsert, WriterState
  <2>2. reader \in [Readers -> ReaderState]
    BY <1>1, TimeShape DEF ReaderState
  <2> QED
    BY <2>1, <2>2, TimeShape DEF TypeOK
<1>3. \A w \in Writers : ~ Merging(w)
  BY DEF Merging, NoUpsert
<1>4. ClockOK
  BY DEF ClockOK
<1> QED
  BY <1>2, <1>3, <1>4 DEF GraphInv, GraphWellFormed, LocksOK, FreshOK, PinOK

\* A step that leaves the graph alone, and takes no lock.
LEMMA GraphFrame ==
    ASSUME GraphInv, TypeOK', ClockOK', UNCHANGED << nodes, edges >>,
           \A w \in Writers : Merging(w)' => writer'[w] = writer[w]
    PROVE  GraphInv'
<1>1. \A w \in Writers : Merging(w)' => Merging(w)
  BY DEF Merging
<1>2. GraphWellFormed'
  BY DEF GraphInv, GraphWellFormed
<1>3. LocksOK' /\ FreshOK' /\ PinOK'
  BY <1>1 DEF GraphInv, LocksOK, FreshOK, PinOK
<1> QED
  BY <1>2, <1>3 DEF GraphInv

\* The steps of a reader.
LEMMA ReaderGraph ==
    ASSUME GraphInv, NEW r \in Readers,
           (\E t \in Tables : CacheMiss(r, t)) \/ QueryPins(r) \/ FillCache(r)
    PROVE  GraphInv'
<1>1. TypeOK /\ reader \in [Readers -> ReaderState] /\ reader[r] \in ReaderState
      /\ clock \in Time /\ clock \in Nat /\ \A q \in Readers : reader[q].now <= clock
  BY TimeShape DEF GraphInv, GraphWellFormed, TypeOK, ClockOK
<1>2. UNCHANGED << clock, known, nodes, edges, writer, sweeper >>
  BY DEF CacheMiss, QueryPins, FillCache
<1>3. ASSUME reader' \in [Readers -> ReaderState], cached' \subseteq Tables,
             entry' \in [Tables -> SUBSET Pin], behind' \subseteq Tables \X Reasons,
             \A q \in Readers : reader'[q].now <= clock
      PROVE  GraphInv'
  <2>1. TypeOK'
    BY <1>1, <1>2, <1>3 DEF TypeOK
  <2>2. ClockOK'
    BY <1>2, <1>3 DEF GraphInv, ClockOK
  <2> QED
    BY <1>2, <2>1, <2>2, GraphFrame DEF Merging
<1>4. ASSUME NEW t \in Tables, CacheMiss(r, t) PROVE GraphInv'
  <2> DEFINE z == [pc |-> "query", tab |-> t, now |-> clock, rows |-> {}, overtaken |-> FALSE]
  <2>1. z \in ReaderState /\ z.now = clock
    BY <1>1 DEF ReaderState
  <2>2. reader' = [reader EXCEPT ![r] = z] /\ UNCHANGED << cached, entry, behind >>
    BY <1>4 DEF CacheMiss
  <2> HIDE DEF z
  <2> QED
    BY <1>1, <1>3, <2>1, <2>2 DEF TypeOK
<1>5. CASE QueryPins(r)
  <2>1. PICK rows \in SUBSET Pin : rows = ActiveRows(reader[r].tab, reader[r].now)
    BY <1>1, RowsShape
  <2> DEFINE y == [reader[r] EXCEPT !.pc = "add", !.rows = rows]
             z == [reader[r] EXCEPT !.pc = "idle"]
  <2>2. y \in ReaderState /\ z \in ReaderState /\ y.now = reader[r].now /\ z.now = reader[r].now
    BY <1>1 DEF ReaderState
  <2>3. /\ reader' = [reader EXCEPT ![r] = y] \/ reader' = [reader EXCEPT ![r] = z]
        /\ UNCHANGED << cached, entry, behind >>
    BY <1>5, <2>1 DEF QueryPins
  <2> HIDE DEF y, z
  <2> QED
    BY <1>1, <1>3, <2>2, <2>3 DEF TypeOK
<1>6. CASE FillCache(r)
  <2> DEFINE z == [reader[r] EXCEPT !.pc = "idle"]
  <2>1. z \in ReaderState /\ z.now = reader[r].now
        /\ reader[r].tab \in Tables /\ reader[r].rows \subseteq Pin
    BY <1>1 DEF ReaderState
  <2>2. reader' = [reader EXCEPT ![r] = z]
    BY <1>6 DEF FillCache
  <2> HIDE DEF z
  <2>3. cached' \subseteq Tables
    BY <1>1, <1>6, <2>1 DEF FillCache, KeysAfterAdd, TypeOK
  <2>4. entry' \in [Tables -> SUBSET Pin]
    BY <1>1, <1>6, <2>1 DEF FillCache, TypeOK
  <2>5. behind' \subseteq Tables \X Reasons
    <3>1. << reader[r].tab, "overtaken" >> \in Tables \X Reasons
      BY <2>1 DEF Reasons
    <3> QED
      BY <1>1, <1>6, <3>1 DEF FillCache, Repair, TypeOK
  <2> QED
    BY <1>1, <1>3, <2>1, <2>2, <2>3, <2>4, <2>5
<1> QED
  BY <1>4, <1>5, <1>6

\* The values a writer's locals take.
LEMMA WriterShape ==
    ASSUME NEW t \in Tables
    PROVE  /\ NoUpsert(t) \in WriterState /\ NoUpsert(t).pc = "idle" /\ NoUpsert(t).tab = t
           /\ [NoUpsert(t) EXCEPT !.pc = "invalidate"] \in WriterState
           /\ [NoUpsert(t) EXCEPT !.pc = "invalidate"].pc = "invalidate"
           /\ [NoUpsert(t) EXCEPT !.pc = "invalidate"].tab = t
BY DEF NoUpsert, WriterState

\* The advisory lock and the MERGE of the node.
LEMMA MergePinNodeGraph ==
    ASSUME GraphInv, NEW w \in Writers, NEW pin \in Pin, NEW t \in Tables, MergePinNode(w, pin, t)
    PROVE  GraphInv'
<1>1. PICK found \in BOOLEAN : found = (\E n \in nodes : n.name = pin.name)
  OBVIOUS
<1> DEFINE z == [pc |-> "merge", tab |-> t, pin |-> pin, found |-> found]
<1>2. z \in WriterState /\ z.pc = "merge" /\ z.tab = t /\ z.pin = pin /\ z.found = found
  BY DEF WriterState
<1>3. /\ writer' = [writer EXCEPT ![w] = z]
      /\ UNCHANGED << clock, known, nodes, edges, cached, entry, reader, sweeper, behind >>
      /\ \A x \in Writers : Merging(x) => writer[x].tab # t
      /\ writer[w].pc = "idle"
  BY <1>1 DEF MergePinNode
<1> HIDE DEF z
<1>4. TypeOK /\ writer \in [Writers -> WriterState]
  BY DEF GraphInv, GraphWellFormed, TypeOK
<1>5. writer'[w] = z /\ \A x \in Writers \ {w} : writer'[x] = writer[x]
  BY <1>3, <1>4
<1>6. TypeOK'
  BY <1>2, <1>3, <1>4 DEF TypeOK
<1>7. GraphWellFormed'
  BY <1>3, <1>6 DEF GraphInv, GraphWellFormed
<1>8. LocksOK'
  BY <1>2, <1>3, <1>5 DEF GraphInv, LocksOK, Merging
<1>9. FreshOK'
  <2>1. ~ z.found => \A n \in nodes : n.name # z.pin.name
    BY <1>1, <1>2
  <2>2. ASSUME NEW x \in Writers, writer'[x].pc = "merge", ~ writer'[x].found, NEW n \in nodes'
        PROVE  ~ (n.name = writer'[x].pin.name /\ n.home = writer'[x].tab)
    <3>1. CASE x = w
      BY <1>3, <1>5, <2>1, <2>2, <3>1
    <3>2. CASE x # w
      BY <1>3, <1>5, <2>2, <3>2 DEF GraphInv, FreshOK, Merging
    <3> QED
      BY <3>1, <3>2
  <2> QED
    BY <2>2 DEF FreshOK, Merging
<1>10. PinOK'
  BY <1>2, <1>5 DEF GraphInv, PinOK, Merging
<1>11. ClockOK'
  BY <1>3 DEF GraphInv, ClockOK
<1> QED
  BY <1>7, <1>8, <1>9, <1>10, <1>11 DEF GraphInv

\* The commit of an upsert, whether or not it is reported.
LEMMA UpsertGraph ==
    ASSUME GraphInv, NEW w \in Writers, UpsertSnapshotPin(w)
    PROVE  GraphInv'
<1>1. /\ Merging(w) /\ nodes' = NodesAfterMerge(w) /\ edges' = EdgesAfterMerge(w)
      /\ UNCHANGED << clock, known, cached, entry, sweeper >>
      /\ TypeOK /\ writer \in [Writers -> WriterState] /\ reader \in [Readers -> ReaderState]
      /\ writer[w].tab \in Tables
  BY DEF UpsertSnapshotPin, GraphInv, GraphWellFormed, TypeOK, WriterState
<1>2. PICK z \in WriterState : writer' = [writer EXCEPT ![w] = z] /\ z.pc # "merge"
  BY <1>1, WriterShape DEF UpsertSnapshotPin
<1>3. \A x \in Writers : Merging(x)' => x # w /\ Merging(x) /\ writer'[x] = writer[x]
  BY <1>1, <1>2 DEF Merging
<1>4. writer' \in [Writers -> WriterState]
  BY <1>1, <1>2
<1>5. \A q \in Readers : reader'[q] \in ReaderState /\ reader'[q].now = reader[q].now
  <2> SUFFICES ASSUME NEW q \in Readers
               PROVE  reader'[q] \in ReaderState /\ reader'[q].now = reader[q].now
    OBVIOUS
  <2>1. reader'[q] = [reader[q] EXCEPT !.overtaken = TRUE] \/ reader'[q] = reader[q]
    BY DEF UpsertSnapshotPin
  <2>2. reader[q] \in ReaderState
    BY <1>1
  <2> QED
    BY <2>1, <2>2 DEF ReaderState
<1>6. reader' \in [Readers -> ReaderState]
  <2>1. reader' = [q \in Readers |-> reader'[q]]
    BY DEF UpsertSnapshotPin
  <2> QED
    BY <1>5, <2>1
<1>7. behind' \subseteq Tables \X Reasons
  <2>1. Repinned(w) \subseteq Tables
    BY DEF Repinned
  <2>2. /\ (Repinned(w) \ {writer[w].tab}) \X {"moved"} \subseteq Tables \X Reasons
        /\ Repinned(w) \X {"unreported"} \subseteq Tables \X Reasons
    BY <2>1 DEF Reasons
  <2> QED
    BY <1>1, <2>2 DEF UpsertSnapshotPin, TypeOK
<1>8. /\ nodes' \subseteq Node
      /\ \A p, q \in nodes' : p.name = q.name /\ p.home = q.home => p = q
      /\ \A n \in nodes : \E q \in nodes' : q.name = n.name /\ q.home = n.home
      /\ \A q \in nodes' :
            \/ \E n \in nodes : n.name = q.name /\ n.home = q.home
            \/ q.home = writer[w].tab
  BY <1>1, MergeShape
<1>9. /\ edges' \subseteq PinNames \X Tables \X Tables
      /\ \A e \in edges' : \E p \in nodes' : p.name = e[1] /\ p.home = e[2]
  <2>1. \A e \in edges : \E p \in nodes : p.name = e[1] /\ p.home = e[2]
    BY DEF GraphInv, GraphWellFormed
  <2>2. \A e \in edges' \ edges : \E p \in nodes' : p.name = e[1] /\ p.home = e[2]
    BY <1>1, EdgeShape
  <2> QED
    BY <1>1, <1>8, <2>1, <2>2, EdgeShape
<1>10. TypeOK'
  BY <1>1, <1>4, <1>6, <1>7, <1>8, <1>9 DEF TypeOK
<1>11. GraphWellFormed'
  BY <1>8, <1>9, <1>10 DEF GraphWellFormed
<1>12. FreshOK'
  <2>1. ASSUME NEW x \in Writers, Merging(x)', ~ writer'[x].found, NEW q \in nodes',
               q.name = writer'[x].pin.name, q.home = writer'[x].tab
        PROVE  FALSE
    <3>1. x # w /\ Merging(x) /\ writer'[x] = writer[x]
      BY <1>3, <2>1
    <3>2. q.home # writer[w].tab
      BY <1>1, <2>1, <3>1 DEF GraphInv, LocksOK
    <3>3. PICK n \in nodes : n.name = q.name /\ n.home = q.home
      BY <1>8, <3>2
    <3> QED
      BY <2>1, <3>1, <3>3 DEF GraphInv, FreshOK
  <2> QED
    BY <2>1 DEF FreshOK
<1>13. LocksOK' /\ PinOK'
  BY <1>3 DEF GraphInv, LocksOK, PinOK
<1>14. ClockOK'
  BY <1>1, <1>5 DEF GraphInv, ClockOK
<1> QED
  BY <1>11, <1>12, <1>13, <1>14 DEF GraphInv

\* The other ends of an upsert: the rollback and the invalidation.
LEMMA UpsertEndGraph ==
    ASSUME GraphInv, NEW w \in Writers, UpsertFail(w) \/ Invalidate(w)
    PROVE  GraphInv'
<1>1. /\ TypeOK /\ writer \in [Writers -> WriterState] /\ writer[w] \in WriterState
      /\ writer[w].tab \in Tables
      /\ UNCHANGED << clock, known, nodes, edges, entry, reader, sweeper >>
  BY DEF UpsertFail, Invalidate, GraphInv, GraphWellFormed, TypeOK, WriterState
<1>2. PICK z \in WriterState : writer' = [writer EXCEPT ![w] = z] /\ z.pc = "idle"
  <2>1. CASE UpsertFail(w)
    BY <1>1, <2>1, WriterShape DEF UpsertFail
  <2>2. CASE Invalidate(w)
    <3> DEFINE z == [writer[w] EXCEPT !.pc = "idle"]
    <3>1. z \in WriterState /\ z.pc = "idle"
      BY <1>1 DEF WriterState
    <3>2. writer' = [writer EXCEPT ![w] = z]
      BY <2>2 DEF Invalidate
    <3> QED
      BY <3>1, <3>2
  <2> QED
    BY <2>1, <2>2
<1>3. cached' \subseteq Tables /\ behind' \subseteq Tables \X Reasons
  BY <1>1 DEF UpsertFail, Invalidate, TypeOK, Repair
<1>4. TypeOK'
  BY <1>1, <1>2, <1>3 DEF TypeOK
<1>5. \A x \in Writers : Merging(x)' => writer'[x] = writer[x]
  BY <1>1, <1>2 DEF Merging
<1>6. ClockOK'
  BY <1>1 DEF GraphInv, ClockOK
<1> QED
  BY <1>1, <1>4, <1>5, <1>6, GraphFrame

\* DETACH DELETE removes the edges of the nodes it deletes.
LEMMA SweepGraph ==
    ASSUME GraphInv, SweepDelete
    PROVE  GraphInv'
<1>1. /\ nodes' = {p \in nodes : ~ (p.expiry < sweeper.now)}
      /\ edges' = {e \in edges : \A p \in nodes \ nodes' : << p.name, p.home >> # << e[1], e[2] >>}
      /\ UNCHANGED << clock, known, cached, entry, reader, writer, behind >>
      /\ sweeper' = [sweeper EXCEPT !.pc = "idle"]
      /\ TypeOK
  BY DEF SweepDelete, GraphInv, GraphWellFormed
<1>2. sweeper' \in [pc : {"idle", "delete"}, now : Time] /\ sweeper'.now = sweeper.now
  BY <1>1 DEF TypeOK
<1>3. TypeOK'
  BY <1>1, <1>2 DEF TypeOK
<1>4. \A e \in edges' : \E p \in nodes' : p.name = e[1] /\ p.home = e[2]
  BY <1>1 DEF GraphInv, GraphWellFormed
<1>5. GraphWellFormed'
  BY <1>1, <1>3, <1>4 DEF GraphInv, GraphWellFormed
<1>6. LocksOK' /\ FreshOK' /\ PinOK'
  BY <1>1 DEF GraphInv, LocksOK, FreshOK, PinOK, Merging
<1>7. ClockOK'
  BY <1>1, <1>2 DEF GraphInv, ClockOK
<1> QED
  BY <1>5, <1>6, <1>7 DEF GraphInv

\* The other steps of the sweeper, and the environment.
LEMMA OtherGraph ==
    ASSUME GraphInv,
           SweepStart \/ SweepFail \/ Tick \/ (\E t \in Tables : RegisterTable(t)) \/ UNCHANGED vars
    PROVE  GraphInv'
<1>1. /\ UNCHANGED << nodes, edges, cached, entry, reader, writer, behind >>
      /\ TypeOK /\ clock \in Nat /\ MaxTime \in Nat /\ sweeper.now \in Nat
      /\ \A r \in Readers : reader[r].now \in Nat
  BY TimeShape, MaxTimeAssumption
  DEF SweepStart, SweepFail, Tick, RegisterTable, vars, GraphInv, GraphWellFormed, TypeOK, ReaderState
<1>2. /\ clock' \in Time /\ clock <= clock'
      /\ known' \subseteq Tables
      /\ sweeper' \in [pc : {"idle", "delete"}, now : Time]
      /\ sweeper'.now \in {sweeper.now, clock}
  <2>1. CASE SweepStart
    BY <1>1, <2>1 DEF SweepStart, TypeOK
  <2>2. CASE SweepFail
    BY <1>1, <2>2 DEF SweepFail, TypeOK
  <2>3. CASE Tick
    BY <1>1, <2>3 DEF Tick, TypeOK, Time
  <2>4. CASE \E t \in Tables : RegisterTable(t)
    BY <1>1, <2>4 DEF RegisterTable, TypeOK
  <2>5. CASE UNCHANGED vars
    BY <1>1, <2>5 DEF vars, TypeOK
  <2> QED
    BY <2>1, <2>2, <2>3, <2>4, <2>5
<1>3. TypeOK'
  BY <1>1, <1>2 DEF TypeOK
<1>4. ClockOK'
  <2>1. clock' \in Nat
    BY <1>2, TimeShape
  <2> QED
    BY <1>1, <1>2, <2>1 DEF GraphInv, ClockOK
<1> QED
  BY <1>1, <1>3, <1>4, GraphFrame DEF Merging

\* Every step keeps the graph's part of the invariant.
LEMMA GraphNext == GraphInv /\ [Next]_vars => GraphInv'
BY ReaderGraph, MergePinNodeGraph, UpsertGraph, UpsertEndGraph, SweepGraph, OtherGraph DEF Next

----------------------------------------------------------------------------
(* The rows of a query *)

\* Membership in the rows of a query.
LEMMA RowsMember ==
    ASSUME NEW N \in SUBSET Node, NEW E, NEW t, NEW now
    PROVE  \A p : p \in Rows(N, E, t, now) <=>
               \E n \in N : p = PinOf(n) /\ << n.name, n.home, t >> \in E /\ n.expiry > now
BY DEF Rows

\* Rows that fit at one time fit at any later time.
LEMMA FitsLater ==
    ASSUME NEW N \in SUBSET Node, NEW E, NEW t, NEW S \in SUBSET Pin,
           NEW c \in Nat, NEW d \in Nat, c <= d, Fits(S, N, E, t, c)
    PROVE  Fits(S, N, E, t, d)
<1>1. \A p \in Pin : p.expiry \in Nat
  BY TimeShape DEF Pin
<1>2. \A n \in N : PinOf(n) \in Pin /\ PinOf(n).expiry = n.expiry /\ n.expiry \in Nat
  BY NodeShape, TimeShape
<1>3. ASSUME NEW p \in Unexpired(S, d) PROVE p \in Rows(N, E, t, d)
  <2>1. p \in S /\ p.expiry > d /\ p.expiry > c
    BY <1>1 DEF Unexpired
  <2>2. p \in Rows(N, E, t, c)
    BY <2>1 DEF Fits, Unexpired
  <2>3. PICK n \in N : p = PinOf(n) /\ << n.name, n.home, t >> \in E /\ n.expiry > c
    BY <2>2, RowsMember
  <2> QED
    BY <1>2, <2>1, <2>3, RowsMember
<1>4. ASSUME NEW p \in Rows(N, E, t, d) PROVE p \in Unexpired(S, d)
  <2>1. PICK n \in N : p = PinOf(n) /\ << n.name, n.home, t >> \in E /\ n.expiry > d
    BY RowsMember
  <2>2. n.expiry > c /\ p.expiry > d
    BY <1>2, <2>1
  <2>3. p \in Rows(N, E, t, c)
    BY <2>1, <2>2, RowsMember
  <2>4. p \in S
    BY <2>3 DEF Fits, Unexpired
  <2> QED
    BY <2>2, <2>4 DEF Unexpired
<1> QED
  BY <1>3, <1>4 DEF Fits

\* Rows taken with an earlier "now" fit.
LEMMA QueryFits ==
    ASSUME NEW N \in SUBSET Node, NEW E, NEW t, NEW now \in Nat, NEW c \in Nat, now <= c
    PROVE  Fits(Rows(N, E, t, now), N, E, t, c)
<1> DEFINE S == Rows(N, E, t, now)
<1>1. \A n \in N : PinOf(n) \in Pin /\ PinOf(n).expiry = n.expiry /\ n.expiry \in Nat
  BY NodeShape, TimeShape
<1>2. S \subseteq Pin /\ \A p \in S : p.expiry > now
  <2> SUFFICES ASSUME NEW p \in Rows(N, E, t, now) PROVE p \in Pin /\ p.expiry > now
    OBVIOUS
  <2>1. \E n \in N : p = PinOf(n) /\ << n.name, n.home, t >> \in E /\ n.expiry > now
    BY RowsMember
  <2> QED
    BY <1>1, <2>1
<1>3. Fits(S, N, E, t, now)
  BY <1>2 DEF Fits, Unexpired
<1> QED
  BY <1>2, <1>3, FitsLater

\* The sweep takes away no row of the present: what it deletes has expired, and no
\* other node has the edges that go with it.
LEMMA SweepRows ==
    ASSUME GraphInv, SweepDelete, NEW t
    PROVE  Rows(nodes', edges', t, clock) = Rows(nodes, edges, t, clock)
<1>1. /\ nodes' = {p \in nodes : ~ (p.expiry < sweeper.now)}
      /\ edges' = {e \in edges : \A p \in nodes \ nodes' : << p.name, p.home >> # << e[1], e[2] >>}
      /\ nodes \subseteq Node /\ nodes' \subseteq nodes
      /\ clock \in Nat /\ sweeper.now \in Nat /\ sweeper.now <= clock
      /\ \A p, q \in nodes : p.name = q.name /\ p.home = q.home => p = q
  BY TimeShape DEF SweepDelete, GraphInv, GraphWellFormed, TypeOK, ClockOK
<1>2. \A n \in nodes : n.expiry \in Nat
  BY <1>1, NodeShape, TimeShape
<1>3. ASSUME NEW n \in nodes, n.expiry > clock
      PROVE  n \in nodes' /\ (<< n.name, n.home, t >> \in edges' <=> << n.name, n.home, t >> \in edges)
  <2>1. n \in nodes'
    BY <1>1, <1>2, <1>3
  <2>2. << n.name, n.home, t >>[1] = n.name /\ << n.name, n.home, t >>[2] = n.home
    OBVIOUS
  <2>3. \A p \in nodes \ nodes' : << p.name, p.home >> # << n.name, n.home >>
    BY <1>1, <2>1
  <2> QED
    BY <1>1, <2>1, <2>2, <2>3
<1>4. {x \in nodes' : << x.name, x.home, t >> \in edges' /\ x.expiry > clock}
        = {x \in nodes : << x.name, x.home, t >> \in edges /\ x.expiry > clock}
  BY <1>1, <1>3
<1> QED
  BY <1>4 DEF Rows

\* A commit changes the rows of the tables it repins only.
LEMMA MergeRows ==
    ASSUME GraphInv, NEW w \in Writers, Merging(w), NEW u \in Tables, u \notin Repinned(w), NEW c
    PROVE  Rows(NodesAfterMerge(w), EdgesAfterMerge(w), u, c) = Rows(nodes, edges, u, c)
<1> DEFINE N == NodesAfterMerge(w)
           E == EdgesAfterMerge(w)
           name == writer[w].pin.name
<1>1. /\ N \subseteq Node /\ nodes \subseteq Node /\ edges \subseteq E
      /\ \A x : x.name # name => (x \in N <=> x \in nodes)
  BY MergeShape, EdgeShape DEF GraphInv, GraphWellFormed, TypeOK
<1>2. \A h \in Tables : << name, h, u >> \notin E
  BY DEF Repinned
<1>3. \A e \in E \ edges : e[1] = name
  BY EdgeShape
<1> HIDE DEF N, E, name
<1>4. ASSUME NEW x \in N \cup nodes
      PROVE  /\ << x.name, x.home, u >> \in E => x.name # name
             /\ << x.name, x.home, u >> \in E <=> << x.name, x.home, u >> \in edges
  <2>1. x.home \in Tables
    BY <1>1, NodeShape
  <2>2. << x.name, x.home, u >>[1] = x.name
    OBVIOUS
  <2>3. << x.name, x.home, u >> \in E => x.name # name
    BY <1>2, <2>1
  <2>4. << x.name, x.home, u >> \in E => << x.name, x.home, u >> \in edges
    BY <1>3, <2>2, <2>3
  <2> QED
    BY <1>1, <2>3, <2>4
<1>5. {x \in N : << x.name, x.home, u >> \in E /\ x.expiry > c}
        = {x \in nodes : << x.name, x.home, u >> \in edges /\ x.expiry > c}
  BY <1>1, <1>4
<1> QED
  BY <1>5 DEF Rows, N, E

----------------------------------------------------------------------------
(* The cache *)

\* Initially no key is cached and no reader has rows.
LEMMA CacheInit == Init => CacheInv
<1> SUFFICES ASSUME Init PROVE CacheInv
  OBVIOUS
<1>1. cached = {} /\ \A r \in Readers : reader[r].pc = "idle"
  BY DEF Init
<1> QED
  BY <1>1 DEF CacheInv, ReadOK, Coherent

\* A step under which no rows cease to fit, and no fill, commit or invalidation.
LEMMA CacheFrame ==
    ASSUME CacheInv,
           \A t \in Tables, S \in SUBSET Pin :
               Fits(S, nodes, edges, t, clock) => Fits(S, nodes', edges', t, clock'),
           TypeOK, UNCHANGED << cached, entry, behind >>,
           \A r \in Readers : reader'[r].pc = "add" => reader'[r] = reader[r],
           \A w \in Writers : /\ writer[w].pc = "invalidate" => writer'[w] = writer[w]
                              /\ writer'[w].pc = "invalidate" => writer'[w] = writer[w]
    PROVE  CacheInv'
<1>1. \A t : Invalidating(t)' <=> Invalidating(t)
  BY DEF Invalidating
<1>2. \A t : Behind(t)' <=> Behind(t)
  BY DEF Behind
<1>3. cached \subseteq Tables /\ \A t \in Tables : entry[t] \in SUBSET Pin
  BY DEF TypeOK
<1>4. \A r \in Readers : reader[r].tab \in Tables /\ reader[r].rows \in SUBSET Pin
  BY DEF TypeOK, ReaderState
<1>5. ReadOK'
  BY <1>4 DEF CacheInv, ReadOK
<1>6. Coherent'
  BY <1>1, <1>2, <1>3 DEF CacheInv, Coherent
<1> QED
  BY <1>5, <1>6 DEF CacheInv

\* The steps that neither touch the cache nor commit an upsert.
LEMMA QuietCache ==
    ASSUME GraphInv, CacheInv,
           \/ \E r \in Readers, t \in Tables : CacheMiss(r, t)
           \/ \E w \in Writers, pin \in Pin, t \in Tables : MergePinNode(w, pin, t)
           \/ \E w \in Writers : UpsertFail(w)
           \/ SweepStart \/ SweepDelete \/ SweepFail \/ Tick
           \/ \E t \in Tables : RegisterTable(t)
           \/ UNCHANGED vars
    PROVE  CacheInv'
<1>1. /\ TypeOK /\ nodes \in SUBSET Node /\ clock \in Nat
      /\ reader \in [Readers -> ReaderState] /\ writer \in [Writers -> WriterState]
      /\ \A w \in Writers : writer[w].tab \in Tables
  BY TimeShape DEF GraphInv, GraphWellFormed, TypeOK, WriterState
<1>2. UNCHANGED << cached, entry, behind >>
  BY DEF CacheMiss, MergePinNode, UpsertFail, SweepStart, SweepDelete, SweepFail, Tick,
         RegisterTable, vars
<1>3. \A t \in Tables, S \in SUBSET Pin :
          Fits(S, nodes, edges, t, clock) => Fits(S, nodes', edges', t, clock')
  <2>1. CASE UNCHANGED << nodes, edges, clock >>
    BY <2>1
  <2>2. CASE SweepDelete
    <3>1. \A t : Rows(nodes', edges', t, clock) = Rows(nodes, edges, t, clock)
      BY <2>2, SweepRows
    <3>2. clock' = clock
      BY <2>2 DEF SweepDelete
    <3> QED
      BY <3>1, <3>2 DEF Fits
  <2>3. CASE Tick
    <3>1. clock' \in Nat /\ clock <= clock' /\ UNCHANGED << nodes, edges >>
      BY <1>1, <2>3 DEF Tick
    <3> QED
      BY <1>1, <3>1, FitsLater
  <2> QED
    BY <2>1, <2>2, <2>3
    DEF CacheMiss, MergePinNode, UpsertFail, SweepStart, SweepFail, RegisterTable, vars
<1>4. \A r \in Readers : reader'[r].pc = "add" => reader'[r] = reader[r]
  <2>1. CASE UNCHANGED reader
    BY <2>1
  <2>2. ASSUME NEW r \in Readers, NEW t \in Tables, CacheMiss(r, t) 
        PROVE  \A q \in Readers : reader'[q].pc = "add" => reader'[q] = reader[q]
    <3>1. PICK z : z.pc = "query" /\ reader' = [reader EXCEPT ![r] = z]
      BY <2>2 DEF CacheMiss
    <3> QED
      BY <1>1, <3>1
  <2> QED
    BY <2>1, <2>2
    DEF MergePinNode, UpsertFail, SweepStart, SweepDelete, SweepFail, Tick, RegisterTable, vars
<1>5. \A w \in Writers : /\ writer[w].pc = "invalidate" => writer'[w] = writer[w]
                         /\ writer'[w].pc = "invalidate" => writer'[w] = writer[w]
  <2>1. CASE UNCHANGED writer
    BY <2>1
  <2>2. ASSUME NEW w \in Writers, NEW z, writer' = [writer EXCEPT ![w] = z],
               writer[w].pc # "invalidate", z.pc # "invalidate"
        PROVE  \A x \in Writers : /\ writer[x].pc = "invalidate" => writer'[x] = writer[x]
                                  /\ writer'[x].pc = "invalidate" => writer'[x] = writer[x]
    BY <1>1, <2>2
  <2>3. ASSUME NEW w \in Writers, NEW pin \in Pin, NEW t \in Tables, MergePinNode(w, pin, t)
        PROVE  \A x \in Writers : /\ writer[x].pc = "invalidate" => writer'[x] = writer[x]
                                  /\ writer'[x].pc = "invalidate" => writer'[x] = writer[x]
    <3>1. PICK found : found = (\E n \in nodes : n.name = pin.name)
      OBVIOUS
    <3> DEFINE z == [pc |-> "merge", tab |-> t, pin |-> pin, found |-> found]
    <3>2. writer' = [writer EXCEPT ![w] = z] /\ writer[w].pc = "idle"
      BY <2>3, <3>1 DEF MergePinNode
    <3>3. z.pc = "merge"
      OBVIOUS
    <3> HIDE DEF z
    <3> QED
      BY <2>2, <3>2, <3>3
  <2>4. ASSUME NEW w \in Writers, UpsertFail(w)
        PROVE  \A x \in Writers : /\ writer[x].pc = "invalidate" => writer'[x] = writer[x]
                                  /\ writer'[x].pc = "invalidate" => writer'[x] = writer[x]
    <3>1. /\ writer' = [writer EXCEPT ![w] = NoUpsert(writer[w].tab)]
          /\ NoUpsert(writer[w].tab).pc = "idle" /\ writer[w].pc = "merge"
      BY <1>1, <2>4, WriterShape DEF UpsertFail, Merging
    <3> QED
      BY <2>2, <3>1
  <2> QED
    BY <2>1, <2>3, <2>4
    DEF CacheMiss, SweepStart, SweepDelete, SweepFail, Tick, RegisterTable, vars
<1> QED
  BY <1>1, <1>2, <1>3, <1>4, <1>5, CacheFrame

\* The query: its rows fit, though "now" was captured before it.
LEMMA QueryCache ==
    ASSUME GraphInv, CacheInv, NEW r \in Readers, QueryPins(r)
    PROVE  CacheInv'
<1> DEFINE t == reader[r].tab
<1>1. /\ TypeOK /\ nodes \in SUBSET Node /\ clock \in Nat
      /\ reader \in [Readers -> ReaderState] /\ reader[r] \in ReaderState
      /\ reader[r].now \in Nat /\ reader[r].now <= clock
      /\ UNCHANGED << clock, nodes, edges, cached, entry, writer, behind >>
  BY TimeShape DEF GraphInv, GraphWellFormed, TypeOK, ReaderState, ClockOK, QueryPins
<1>2. PICK rows : rows = Rows(nodes, edges, t, reader[r].now)
  OBVIOUS
<1>3. rows = ActiveRows(t, reader[r].now)
  BY <1>2 DEF ActiveRows, Rows
<1>4. Fits(rows, nodes, edges, t, clock)
  BY <1>1, <1>2, QueryFits
<1> DEFINE y == [reader[r] EXCEPT !.pc = "add", !.rows = rows]
           z == [reader[r] EXCEPT !.pc = "idle"]
<1>5. y.rows = rows /\ y.tab = t /\ z.pc = "idle"
  BY <1>1 DEF ReaderState
<1>6. reader' = [reader EXCEPT ![r] = y] \/ reader' = [reader EXCEPT ![r] = z]
  BY <1>3 DEF QueryPins
<1> HIDE DEF y, z
<1>7. ReadOK'
  <2>1. ASSUME NEW q \in Readers, reader'[q].pc = "add", ~ reader'[q].overtaken
        PROVE  Fits(reader'[q].rows, nodes, edges, reader'[q].tab, clock)
    <3>1. CASE q = r
      <4>1. reader'[q] = y
        BY <1>1, <1>5, <1>6, <2>1, <3>1
      <4> QED
        BY <1>4, <1>5, <4>1
    <3>2. CASE q # r
      <4>1. reader'[q] = reader[q]
        BY <1>1, <1>6, <3>2
      <4> QED
        BY <2>1, <4>1 DEF CacheInv, ReadOK
    <3> QED
      BY <3>1, <3>2
  <2> QED
    BY <1>1, <2>1 DEF ReadOK
<1>8. Coherent'
  BY <1>1 DEF CacheInv, Coherent, Behind, Invalidating
<1> QED
  BY <1>7, <1>8 DEF CacheInv

\* The fill: a reader that was not overtaken repairs its key, and an eviction
\* takes keys away only.
LEMMA FillCacheInv ==
    ASSUME GraphInv, CacheInv, NEW r \in Readers, FillCache(r)
    PROVE  CacheInv'
<1> DEFINE t == reader[r].tab
           z == [reader[r] EXCEPT !.pc = "idle"]
<1>1. /\ TypeOK /\ reader \in [Readers -> ReaderState] /\ reader[r] \in ReaderState
      /\ reader[r].pc = "add" /\ t \in Tables /\ entry \in [Tables -> SUBSET Pin]
      /\ UNCHANGED << clock, nodes, edges, writer >>
      /\ reader' = [reader EXCEPT ![r] = z]
      /\ entry' = [entry EXCEPT ![t] = reader[r].rows]
      /\ behind' = Repair(t) \cup (IF reader[r].overtaken THEN {<< t, "overtaken" >>} ELSE {})
  BY DEF GraphInv, GraphWellFormed, TypeOK, ReaderState, FillCache
<1>2. z.pc = "idle"
  BY <1>1 DEF ReaderState
<1> HIDE DEF z
<1>3. cached' \subseteq cached \cup {t} /\ cached \subseteq Tables
  BY <1>1 DEF FillCache, KeysAfterAdd, TypeOK
<1>4. ReadOK'
  <2>1. \A q \in Readers : reader'[q].pc = "add" => reader'[q] = reader[q]
    BY <1>1, <1>2
  <2> QED
    BY <1>1, <2>1 DEF CacheInv, ReadOK
<1>5. \A u : Invalidating(u)' <=> Invalidating(u)
  BY <1>1 DEF Invalidating
<1>6. ASSUME NEW u \in cached', ~ Behind(u)', ~ Invalidating(u)'
      PROVE  Fits(entry'[u], nodes, edges, u, clock)
  <2>1. CASE u = t
    <3>1. ~ reader[r].overtaken
      <4>1. << t, "overtaken" >>[1] = t
        OBVIOUS
      <4> QED
        BY <1>1, <1>6, <2>1, <4>1 DEF Behind
    <3>2. entry'[u] = reader[r].rows
      BY <1>1, <2>1
    <3> QED
      BY <1>1, <2>1, <3>1, <3>2 DEF CacheInv, ReadOK
  <2>2. CASE u # t
    <3>1. u \in cached /\ u \in Tables /\ entry'[u] = entry[u]
      BY <1>1, <1>3, <1>6, <2>2
    <3>2. ~ Behind(u)
      BY <1>1, <1>6, <2>2 DEF Behind, Repair
    <3> QED
      BY <1>5, <1>6, <3>1, <3>2 DEF CacheInv, Coherent
  <2> QED
    BY <2>1, <2>2
<1>7. Coherent'
  BY <1>1, <1>6 DEF Coherent
<1> QED
  BY <1>4, <1>7 DEF CacheInv

\* The commit: every table it repins is behind, is about to be invalidated, or is
\* being filled by a reader that knows it was overtaken.
LEMMA UpsertCache ==
    ASSUME GraphInv, CacheInv, NEW w \in Writers, UpsertSnapshotPin(w)
    PROVE  CacheInv'
<1>1. /\ TypeOK /\ reader \in [Readers -> ReaderState] /\ writer \in [Writers -> WriterState]
      /\ writer[w].tab \in Tables /\ Merging(w) /\ writer[w].pc = "merge"
      /\ nodes' = NodesAfterMerge(w) /\ edges' = EdgesAfterMerge(w)
      /\ UNCHANGED << clock, cached, entry >> /\ cached \subseteq Tables
  BY DEF GraphInv, GraphWellFormed, TypeOK, WriterState, UpsertSnapshotPin, Merging
<1>2. \A u \in Tables : \A S : u \notin Repinned(w) /\ Fits(S, nodes, edges, u, clock)
                                => Fits(S, nodes', edges', u, clock)
  BY <1>1, MergeRows DEF Fits
<1>3. ReadOK'
  <2>1. ASSUME NEW q \in Readers, reader'[q].pc = "add", ~ reader'[q].overtaken
        PROVE  Fits(reader'[q].rows, nodes', edges', reader'[q].tab, clock)
    <3>1. reader[q] \in ReaderState /\ reader[q].tab \in Tables
      BY <1>1 DEF ReaderState
    <3>2. reader'[q] = IF reader[q].pc = "add" /\ reader[q].tab \in Repinned(w)
                       THEN [reader[q] EXCEPT !.overtaken = TRUE] ELSE reader[q]
      BY DEF UpsertSnapshotPin
    <3>3. [reader[q] EXCEPT !.overtaken = TRUE].overtaken = TRUE
      BY <3>1 DEF ReaderState
    <3>4. reader'[q] = reader[q] /\ reader[q].tab \notin Repinned(w)
      BY <2>1, <3>2, <3>3
    <3> QED
      BY <1>2, <2>1, <3>1, <3>4 DEF CacheInv, ReadOK
  <2> QED
    BY <1>1, <2>1 DEF ReadOK
<1>4. \A u : Invalidating(u) => Invalidating(u)'
  <2>1. \A x \in Writers : x # w => writer'[x] = writer[x]
    BY <1>1 DEF UpsertSnapshotPin
  <2> QED
    BY <1>1, <2>1 DEF Invalidating
<1>5. behind \subseteq behind'
  BY DEF UpsertSnapshotPin
<1>6. ASSUME NEW u \in Repinned(w)
      PROVE  Behind(u)' \/ Invalidating(u)'
  <2>1. /\ << u, "moved" >>[1] = u
        /\ << u, "unreported" >>[1] = u
    OBVIOUS
  <2>2. CASE << u, "moved" >> \in behind' \/ << u, "unreported" >> \in behind'
    BY <2>1, <2>2 DEF Behind
  <2>3. CASE u = writer[w].tab /\ writer' = [writer EXCEPT ![w] = [NoUpsert(@.tab) EXCEPT !.pc = "invalidate"]]
    <3> DEFINE z == [NoUpsert(writer[w].tab) EXCEPT !.pc = "invalidate"]
    <3>1. z.pc = "invalidate" /\ z.tab = u
      BY <1>1, <2>3, WriterShape
    <3>2. writer'[w] = z
      BY <1>1, <2>3
    <3> HIDE DEF z
    <3> QED
      BY <3>1, <3>2 DEF Invalidating
  <2> QED
    BY <2>2, <2>3 DEF UpsertSnapshotPin
<1>7. ASSUME NEW u \in cached', ~ Behind(u)', ~ Invalidating(u)'
      PROVE  Fits(entry'[u], nodes', edges', u, clock)
  <2>1. u \notin Repinned(w) /\ u \in Tables /\ u \in cached
    BY <1>1, <1>6, <1>7
  <2>2. ~ Behind(u) /\ ~ Invalidating(u)
    BY <1>4, <1>5, <1>7 DEF Behind
  <2> QED
    BY <1>1, <1>2, <2>1, <2>2 DEF CacheInv, Coherent
<1>8. Coherent'
  BY <1>1, <1>7 DEF Coherent
<1> QED
  BY <1>3, <1>8 DEF CacheInv

\* The invalidation removes the key.
LEMMA InvalidateCache ==
    ASSUME GraphInv, CacheInv, NEW w \in Writers, Invalidate(w)
    PROVE  CacheInv'
<1>1. /\ TypeOK /\ writer \in [Writers -> WriterState]
      /\ cached' = cached \ {writer[w].tab} /\ behind' = Repair(writer[w].tab)
      /\ UNCHANGED << clock, nodes, edges, entry, reader >>
  BY DEF GraphInv, GraphWellFormed, TypeOK, Invalidate
<1>2. ReadOK'
  BY <1>1 DEF CacheInv, ReadOK
<1>3. ASSUME NEW u \in cached', ~ Behind(u)', ~ Invalidating(u)'
      PROVE  Fits(entry[u], nodes, edges, u, clock)
  <2>1. u \in cached /\ u # writer[w].tab
    BY <1>1
  <2>2. ~ Behind(u)
    BY <1>1, <1>3, <2>1 DEF Behind, Repair
  <2>3. ~ Invalidating(u)
    <3>1. \A x \in Writers : x # w => writer'[x] = writer[x]
      BY <1>1 DEF Invalidate
    <3> QED
      BY <1>3, <2>1, <3>1 DEF Invalidating
  <2> QED
    BY <2>1, <2>2, <2>3 DEF CacheInv, Coherent
<1>4. Coherent'
  BY <1>1, <1>3 DEF Coherent
<1> QED
  BY <1>2, <1>4 DEF CacheInv

\* Every step keeps the cache's part of the invariant.
LEMMA CacheNext == GraphInv /\ CacheInv /\ [Next]_vars => CacheInv'
BY QuietCache, QueryCache, FillCacheInv, UpsertCache, InvalidateCache DEF Next

----------------------------------------------------------------------------
(* The theorems *)

\* The inductive invariant holds in every reachable state of the store.
LEMMA SpecInv == Spec => [](GraphInv /\ CacheInv)
BY GraphInit, GraphNext, CacheInit, CacheNext, PTL DEF Spec

\* pg_advisory_xact_lock, MERGE and DETACH DELETE: at most one SnapshotPin node
\* per name and home, and no PINS edge without its node.
THEOREM GraphHolds == Spec => []GraphWellFormed
<1>1. GraphInv => GraphWellFormed
  BY DEF GraphInv
<1> QED
  BY <1>1, SpecInv, PTL

\* ActivePinsForTable behind its LRU: an entry that no upsert has left behind and
\* no invalidation is about to remove lists the active pins of its table.
THEOREM CacheHolds == Spec => []CacheCoherence
<1>1. CacheInv => CacheCoherence
  BY DEF CacheInv, Coherent, CacheCoherence, Fits, Rows, ActiveRows
<1> QED
  BY <1>1, SpecInv, PTL

\* sweepTenant and UpsertSnapshotPin: no step takes away a pin that is in force.
THEOREM PinsSurvive == Spec => UnexpiredPinsSurvive
<1>1. ASSUME GraphInv, Next, NEW p \in nodes, p.expiry > clock
      PROVE  \E q \in nodes' : q.name = p.name /\ q.home = p.home
  <2>1. CASE SweepDelete
    <3>1. /\ nodes \subseteq Node /\ clock \in Nat /\ sweeper.now \in Nat /\ sweeper.now <= clock
      BY <1>1, TimeShape DEF GraphInv, GraphWellFormed, TypeOK, ClockOK
    <3>2. p.expiry \in Nat
      BY <3>1, NodeShape, TimeShape
    <3>3. ~ (p.expiry < sweeper.now)
      BY <1>1, <3>1, <3>2
    <3> QED
      BY <2>1, <3>3 DEF SweepDelete
  <2>2. ASSUME NEW w \in Writers, UpsertSnapshotPin(w)
        PROVE  \E q \in nodes' : q.name = p.name /\ q.home = p.home
    BY <1>1, <2>2, MergeShape DEF UpsertSnapshotPin
  <2>3. CASE UNCHANGED nodes
    BY <2>3
  <2> QED
    BY <1>1, <2>1, <2>2, <2>3
    DEF Next, CacheMiss, QueryPins, FillCache, MergePinNode, UpsertFail, Invalidate,
        SweepStart, SweepFail, Tick, RegisterTable
<1>2. GraphInv /\ [Next]_vars =>
          [\A p \in nodes : p.expiry > clock =>
              \E q \in nodes' : q.name = p.name /\ q.home = p.home]_vars
  BY <1>1
<1> QED
  BY <1>2, SpecInv, PTL DEF Spec, UnexpiredPinsSurvive
=============================================================================
