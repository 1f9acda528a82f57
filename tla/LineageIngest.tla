--------------------------- MODULE LineageIngest ---------------------------
(***************************************************************************)
(* POST /v1/lineage (internal/lineage/http) and the LINEAGE_OF merge of    *)
(* one tenant (internal/ingest/lineage.go, cycle.go).                      *)
(*                                                                         *)
(* A handler stores the event in lineage_inbox and then merges one edge    *)
(* per (input, output) pair, each in a transaction of its own: advisory    *)
(* lock on the source, cycle check, MERGE, commit.  The statements are     *)
(* steps of their own and run READ COMMITTED, so other handlers commit     *)
(* between the check and the MERGE.  Producers post at least once, and     *)
(* one run posts several events (START, COMPLETE).                         *)
(*                                                                         *)
(* A dataset is its URI, an event its run and its two lists of datasets.   *)
(* A post that fails the checks before the inbox is answered 400, 405 or   *)
(* 500 and changes nothing, so it is no action.                            *)
(***************************************************************************)
EXTENDS Integers, Sequences, FiniteSets

CONSTANTS
    Datasets,       \* dataset URIs
    Runs,           \* (producer, run_id) pairs
    Events,         \* the RunEvents that can be posted
    Posts,          \* handler goroutines
    cycleMaxDepth,  \* hops of the cycle check
    crossProductCap \* largest inputs x outputs of an event

ASSUME EventsAssumption ==
    \A v \in Events : v.run \in Runs /\ {v.ins, v.outs} \subseteq Seq(Datasets)
ASSUME DepthAssumption == cycleMaxDepth \in Nat \ {0}
ASSUME CapAssumption == crossProductCap \in Nat

Pairs == Datasets \X Datasets

VARIABLES
    known,    \* datasets that have a node in the graph
    edges,    \* LINEAGE_OF edges, with the run that created each and a copy number
    inbox,    \* lineage_inbox: one event per run
    post,     \* local state of each handler
    unseen    \* history: << e, f >>: f was committed after the check of e's merge

vars == << known, edges, inbox, post, unseen >>

\* The two ends of every edge.
Graph == {<< e.src, e.tgt >> : e \in edges}

Size(v) == Len(v.ins) * Len(v.outs)

\* The pair the two nested loops are at.
Pair(h) == << post[h].event.ins[post[h].i], post[h].event.outs[post[h].j] >>

\* G leads from a to b in n hops.
Path(G, a, b, n) ==
    \E p \in [0 .. n -> Datasets] :
        /\ p[0] = a /\ p[n] = b
        /\ \A i \in 0 .. (n - 1) : << p[i], p[i + 1] >> \in G

Reaches(G, a, b) == \E n \in 1 .. cycleMaxDepth : Path(G, a, b, n)

NoEvent == [run |-> "", ins |-> << >>, outs |-> << >>]
NoStatus == 0

\* missed is history: edges committed since this transaction's cycle check.
\* absent: positions whose MATCH found no node for an end of the edge.
At(pc, v, i, j, absent, code) ==
    [pc |-> pc, event |-> v, i |-> i, j |-> j, create |-> FALSE,
     missed |-> {}, absent |-> absent, status |-> code]
Fresh(v) == At("inbox", v, 1, 1, {}, NoStatus)
Unused == At("idle", NoEvent, 1, 1, {}, NoStatus)

Init ==
    /\ known \in SUBSET Datasets
    /\ edges = {}
    /\ inbox = {}
    /\ post = [h \in Posts |-> Unused]
    /\ unseen = {}

----------------------------------------------------------------------------
(* The HTTP handler *)

\* h goes to pc and pair (i, j) outside a transaction.
Goto(h, pc, i, j, code) == At(pc, post[h].event, i, j, post[h].absent, code)

\* An answer ends the request; an open transaction is rolled back with it.
Answer(h, code) == post' = [post EXCEPT ![h] = Goto(h, "done", @.i, @.j, code)]
Unavailable == At("done", NoEvent, 1, 1, {}, 503)

\* The end of the loop body: the transaction of the next pair, or 202 after the
\* last one.
Advance(h) ==
    LET i == post[h].i
        j == post[h].j
    IN  IF j < Len(post[h].event.outs) THEN Goto(h, "lock", i, j + 1, NoStatus)
        ELSE IF i < Len(post[h].event.ins) THEN Goto(h, "lock", i + 1, 1, NoStatus)
        ELSE Goto(h, "done", i, j, 202)

\* An event passes the method, tenant, body, field, size and character checks.
Post(h, v) ==
    /\ post[h].pc \in {"idle", "done"}
    /\ Size(v) <= crossProductCap
    /\ post' = [post EXCEPT ![h] = Fresh(v)]
    /\ UNCHANGED << known, edges, inbox, unseen >>

\* Mutant: the key of the inbox takes in the event's type as well.
InboxAfterByType(v) == inbox \cup {v}

\* ON CONFLICT (producer, run_id) DO NOTHING.
InboxAfter(v) == IF \E x \in inbox : x.run = v.run THEN inbox ELSE inbox \cup {v}

\* Mutant: the insert is left to a worker that runs later.
PersistLater(h) ==
    /\ post[h].pc = "inbox"
    /\ Size(post[h].event) > 0
    /\ post' = [post EXCEPT ![h].pc = "lock"]
    /\ UNCHANGED << known, edges, inbox, unseen >>

\* persistInbox.  An event without inputs or outputs is answered at once; a
\* commit may be reported as an error, which is 503.
PersistInbox(h) ==
    /\ post[h].pc = "inbox"
    /\ inbox' = InboxAfter(post[h].event)
    /\ \/ /\ Size(post[h].event) = 0
          /\ Answer(h, 202)
       \/ /\ Size(post[h].event) > 0
          /\ post' = [post EXCEPT ![h] = Goto(h, "lock", 1, 1, NoStatus)]
       \/ post' = [post EXCEPT ![h] = Unavailable]
    /\ UNCHANGED << known, edges, unseen >>

----------------------------------------------------------------------------
(* MergeLineageEdge *)

\* The transaction of h holds the advisory lock of its source.
Holds(h, d) == post[h].pc \in {"check", "merge", "commit"} /\ Pair(h)[1] = d

RejectSelfEdge(h) ==
    /\ post[h].pc = "lock"
    /\ Pair(h)[1] = Pair(h)[2]
    /\ Answer(h, 422)
    /\ UNCHANGED << known, edges, inbox, unseen >>

\* Mutant: the check and the MERGE run without the advisory lock.
LockNothing(h) ==
    /\ post[h].pc = "lock"
    /\ Pair(h)[1] # Pair(h)[2]
    /\ post' = [post EXCEPT ![h].pc = "check"]
    /\ UNCHANGED << known, edges, inbox, unseen >>

\* pg_advisory_xact_lock(hashtext(srcURI)), held to the end of the transaction.
LockSource(h) ==
    /\ post[h].pc = "lock"
    /\ Pair(h)[1] # Pair(h)[2]
    /\ \A g \in Posts : ~ Holds(g, Pair(h)[1])
    /\ post' = [post EXCEPT ![h].pc = "check"]
    /\ UNCHANGED << known, edges, inbox, unseen >>

\* Mutant: the walk stops one hop short.
WouldCloseShallow(h) ==
    \E n \in 1 .. (cycleMaxDepth - 1) : Path(Graph, Pair(h)[2], Pair(h)[1], n)

\* cypherCycleCheck: target -[:LINEAGE_OF*1..5]-> source.
WouldClose(h) == Reaches(Graph, Pair(h)[2], Pair(h)[1])

validateNoCycleTx(h) ==
    /\ post[h].pc = "check"
    /\ \/ /\ WouldClose(h)
          /\ Answer(h, 422)
       \/ /\ ~ WouldClose(h)
          /\ post' = [post EXCEPT ![h].pc = "merge"]
    /\ UNCHANGED << known, edges, inbox, unseen >>

\* cypherMergeLineageEdge.  Without a node for each end it matches nothing and
\* succeeds.
MergeEdge(h) ==
    /\ post[h].pc = "merge"
    /\ LET there == {Pair(h)[1], Pair(h)[2]} \subseteq known IN
       post' = [post EXCEPT ![h] = [post[h] EXCEPT
           !.pc = "commit",
           !.create = there /\ Pair(h) \notin Graph,
           !.absent = @ \cup (IF there THEN {} ELSE {<< post[h].i, post[h].j >>})]]
    /\ UNCHANGED << known, edges, inbox, unseen >>

Copies(e) == Cardinality({x \in edges : << x.src, x.tgt >> = e})

\* What the commit of h does to the graph, and to the histories of handlers
\* that have checked and not committed.
Committed(h, mine) ==
    LET new == IF post[h].create THEN {Pair(h)} ELSE {} IN
    /\ edges' = edges \cup {[src |-> e[1], tgt |-> e[2], run |-> post[h].event.run,
                             copy |-> Copies(e) + 1] : e \in new}
    /\ unseen' = unseen \cup (new \X post[h].missed)
    /\ post' = [g \in Posts |->
                   IF g = h THEN mine
                   ELSE IF post[g].pc \in {"merge", "commit"}
                   THEN [post[g] EXCEPT !.missed = @ \cup new]
                   ELSE post[g]]
    /\ UNCHANGED << known, inbox >>

\* Mutant: a transaction that failed to commit is run again without end.
CommitRetried(h) ==
    /\ post[h].pc = "commit"
    /\ \/ Committed(h, Advance(h))
       \/ /\ post' = [post EXCEPT ![h] = Goto(h, "lock", @.i, @.j, NoStatus)]
          /\ UNCHANGED << known, edges, inbox, unseen >>

\* Mutant: a merge that fails does not end the loop.
CommitErrorIgnored(h) ==
    /\ post[h].pc = "commit"
    /\ \/ Committed(h, Advance(h))
       \/ /\ post' = [post EXCEPT ![h] = Advance(h)]
          /\ UNCHANGED << known, edges, inbox, unseen >>

\* The end of ExecuteInTenant: the commit, reported as such or as an error.
Commit(h) ==
    /\ post[h].pc = "commit"
    /\ \/ Committed(h, Advance(h))
       \/ Committed(h, Unavailable)

\* Any call fails, or the client goes away and the context ends: 503.
Fail(h) ==
    /\ post[h].pc \in {"inbox", "lock", "check", "merge", "commit"}
    /\ post' = [post EXCEPT ![h] = Unavailable]
    /\ UNCHANGED << known, edges, inbox, unseen >>

----------------------------------------------------------------------------
\* Environment: the node of a dataset is created.
RegisterDataset(d) ==
    /\ d \notin known
    /\ known' = known \cup {d}
    /\ UNCHANGED << edges, inbox, post, unseen >>

HandlerStep(h) ==
    \/ PersistInbox(h)
    \/ RejectSelfEdge(h)
    \/ LockSource(h)
    \/ validateNoCycleTx(h)
    \/ MergeEdge(h)
    \/ Commit(h)

Next ==
    \/ \E h \in Posts :
          \/ \E v \in Events : Post(h, v)
          \/ HandlerStep(h)
          \/ Fail(h)
    \/ \E d \in Datasets : RegisterDataset(d)

Spec == Init /\ [][Next]_vars

\* A handler runs on.  Only LockSource can be disabled by others, and Postgres
\* grants a lock in the order of the requests, so it is not passed over for ever.
Fairness == \A h \in Posts : SF_vars(HandlerStep(h))

FairSpec == Spec /\ Fairness

----------------------------------------------------------------------------
(* Properties *)

Merging == {"lock", "check", "merge", "commit"}
PostState == [pc : {"idle", "inbox", "done"} \cup Merging, event : Events \cup {NoEvent},
              i : Nat, j : Nat, create : BOOLEAN, missed : SUBSET Pairs,
              absent : SUBSET (Nat \X Nat), status : {NoStatus, 202, 422, 503}]

\* Every variable has its type, the loops stay inside the event's lists, and
\* lineage_inbox keeps UNIQUE (producer, run_id).
TypeOK ==
    /\ known \subseteq Datasets
    /\ edges \subseteq [src : Datasets, tgt : Datasets, run : Runs, copy : Nat \ {0}]
    /\ inbox \subseteq Events
    /\ \A x, y \in inbox : x.run = y.run => x = y
    /\ unseen \subseteq Pairs \X Pairs
    /\ post \in [Posts -> PostState]
    /\ \A h \in Posts : post[h].pc \in Merging =>
          post[h].i \in 1 .. Len(post[h].event.ins) /\ post[h].j \in 1 .. Len(post[h].event.outs)

\* p goes round n datasets of G and back to the first.
Cycle(G, n, p) ==
    /\ p[0] = p[n]
    /\ \A i, j \in 0 .. (n - 1) : p[i] = p[j] => i = j
    /\ \A i \in 0 .. (n - 1) : << p[i], p[i + 1] >> \in G

\* D-1.06: a cycle within the depth of the check can only be closed by a race.
\* In every cycle of at most cycleMaxDepth + 1 edges, one edge was merged by a
\* transaction whose check ran before another edge of the cycle was committed.
\* (cycle_sweep.go:11-17 names this race; the lock on the source does not
\* exclude it.)
CyclesNeedARace ==
    LET G == Graph IN
    \A n \in 1 .. (cycleMaxDepth + 1) : \A p \in [0 .. n -> Datasets] :
        Cycle(G, n, p) =>
            \E i, j \in 0 .. (n - 1) :
                << << p[i], p[i + 1] >>, << p[j], p[j + 1] >> >> \in unseen

\* What the advisory lock does give: concurrent merges of one edge, a retry
\* racing the first attempt included, leave a single LINEAGE_OF edge.
EdgesUnique ==
    \A e, f \in edges : e.src = f.src /\ e.tgt = f.tgt => e = f

\* Pitfall 5: whatever a handler merged can be traced to a stored event of the
\* run it names, though handlers fail between the inbox and the last edge.
EdgesHaveAnEvent == \A e \in edges : \E x \in inbox : x.run = e.run

\* 202 is given only when every edge of the event is in the graph, but for those
\* whose datasets had no node, and 422 only for an edge that would close a cycle.
AnswersAreTrue ==
    \A h \in Posts :
        /\ post[h].status = 202 =>
              \A i \in DOMAIN post[h].event.ins, j \in DOMAIN post[h].event.outs :
                  \/ << i, j >> \in post[h].absent
                  \/ << post[h].event.ins[i], post[h].event.outs[j] >> \in Graph
        /\ post[h].status = 422 =>
              Pair(h)[1] = Pair(h)[2] \/ Reaches(Graph, Pair(h)[2], Pair(h)[1])

\* Every event is answered, however many handlers queue for the same source.
EventAnswered ==
    \A h \in Posts : (post[h].pc = "inbox") ~> (post[h].pc = "done")
=============================================================================
