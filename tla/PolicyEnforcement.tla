-------------------------- MODULE PolicyEnforcement --------------------------
(***************************************************************************)
(* How an edited policy of one tenant reaches the queries it governs: the  *)
(* policy_changed trigger and the cross-engine compiler                    *)
(* (internal/policy/compiler), the CompiledPolicy nodes                    *)
(* (internal/policy/store/compiled.go) and the SQL proxy that splices      *)
(* their artifacts into queries (internal/sqlproxy).                       *)
(*                                                                         *)
(* Every server replica runs one trigger, which handles its notifications  *)
(* one at a time, and one proxy, whose requests run concurrently.  A       *)
(* compile is split where another replica can run: the load of the         *)
(* policy, the listing of engines, the compile with its probe, and the     *)
(* upsert.  A proxied query is split into the cache lookup, the load of    *)
(* the CompiledPolicy nodes and the cache fill with the splice.            *)
(*                                                                         *)
(* A policy's definition is a version number, an artifact the version it   *)
(* was compiled from, and a table's name stands for the table.             *)
(***************************************************************************)
EXTENDS Integers, Sequences, FiniteSets

CONSTANTS
    Policies,     \* policies of the tenant
    Tables,       \* tables of the tenant
    Engines,      \* (kind, version) pairs that can be registered
    Replicas,     \* server processes
    Requests,     \* proxied queries
    Governs,      \* the table each policy applies to
    KindOf,       \* the kind of each engine
    Filters,      \* the row-filter policies: the only ones that are probed
    Rejected,     \* << policy, engine, version >> the dialect rejects
    ProbedKinds,  \* engine kinds with a probe executor
    CacheSize,    \* capacity of each LRU
    MaxSource,    \* bound: versions of one policy
    MaxQueue      \* bound: notifications waiting at one replica

Kinds == {"trino", "spark", "dremio", "snowflake"}

\* The kinds the SQL proxy has an injector for.
Proxied == Kinds \ {"snowflake"}

ASSUME SomeAssumption == {} \notin {Policies, Tables, Engines, Replicas}
ASSUME GovernsAssumption == Governs \in [Policies -> Tables]
ASSUME KindOfAssumption == KindOf \in [Engines -> Kinds]
ASSUME FiltersAssumption == Filters \subseteq Policies
ASSUME ProbedAssumption == ProbedKinds \subseteq Kinds
ASSUME BoundsAssumption == {CacheSize, MaxSource, MaxQueue} \subseteq Nat \ {0}

VARIABLES
    source,     \* version of each policy's definition, 0 before it exists
    engines,    \* engines of public.engines, oldest first
    rows,       \* CompiledPolicy node of each policy and engine
    link,       \* is the replica's LISTEN connection up?
    queue,      \* notifications delivered to the replica and not yet handled
    job,        \* local state of the replica's notification handler
    artifacts,  \* the replica's ArtifactCache
    entries,    \* the replica's proxy cache
    request,    \* local state of each proxied query
    probed,     \* history: << policy, engine, version >> that passed the probe
    wasActive,  \* history: << policy, engine, body >> of nodes that were active
    since,      \* history: those the replica's proxy may still serve, see InvalidateTable
    missed      \* history: policies whose last edit some replica did not handle

vars == << source, engines, rows, link, queue, job, artifacts, entries, request,
           probed, wasActive, since, missed >>
compilation == << rows, link, queue, job, artifacts, probed, wasActive, missed >>
proxying    == << entries, since, request >>

Sources == 0 .. MaxSource
Statuses == {"none", "active", "probe_failed", "compile_failed", "divergent_suspended"}
Row == [status : Statuses, source : Sources, body : Sources]
NoRow == [status |-> "none", source |-> 0, body |-> 0]

Artifact == [pol : Policies, eng : Engines, source : Sources, body : Sources]
Entry == [tab : Tables, kind : Kinds, pol : Policies, eng : Engines, body : Sources]

SomePolicy == CHOOSE p \in Policies : TRUE
SomeEngine == CHOOSE e \in Engines : TRUE
SomeTable  == CHOOSE t \in Tables : TRUE
SomeReplica == CHOOSE r \in Replicas : TRUE

NoJob == [pc |-> "idle", pol |-> SomePolicy, source |-> 0, todo |-> << >>,
          status |-> "none", body |-> 0, hit |-> FALSE]
NoEntry == [tab |-> SomeTable, kind |-> "trino", pol |-> SomePolicy,
            eng |-> SomeEngine, body |-> 0]
NoQuery == [pc |-> "idle", at |-> SomeReplica, tab |-> SomeTable, kind |-> "trino",
            entry |-> NoEntry, status |-> 0]

Listed(s) == {s[i] : i \in DOMAIN s}

Init ==
    /\ source = [p \in Policies |-> 0]
    /\ engines = << >>
    /\ rows = [x \in Policies \X Engines |-> NoRow]
    /\ link = [r \in Replicas |-> FALSE]
    /\ queue = [r \in Replicas |-> << >>]
    /\ job = [r \in Replicas |-> NoJob]
    /\ artifacts = [r \in Replicas |-> {}]
    /\ entries = [r \in Replicas |-> {}]
    /\ request = [q \in Requests |-> NoQuery]
    /\ probed = {}
    /\ wasActive = {}
    /\ since = [r \in Replicas |-> {}]
    /\ missed = {}

\* Mutant: an LRU without a capacity.
AfterAddUnbounded(kept, new) == {kept \cup {new}}

\* What an LRU that holds kept under other keys may hold after an Add: at
\* capacity some other key is evicted.
AfterAdd(kept, new) ==
    IF Cardinality(kept) < CacheSize
    THEN {kept \cup {new}}
    ELSE {(kept \ {c}) \cup {new} : c \in kept}

----------------------------------------------------------------------------
(* The environment *)

\* An INSERT or UPDATE of a policies row: its trigger notifies every replica
\* that listens.
EditPolicy(p) ==
    /\ source[p] < MaxSource
    /\ \A r \in Replicas : Len(queue[r]) < MaxQueue
    /\ source' = [source EXCEPT ![p] = @ + 1]
    /\ queue' = [r \in Replicas |-> IF link[r] THEN Append(queue[r], p) ELSE queue[r]]
    /\ missed' = IF \A r \in Replicas : link[r] THEN missed \ {p} ELSE missed \cup {p}
    /\ UNCHANGED << engines, rows, link, job, artifacts, proxying, probed, wasActive >>

RegisterEngine(e) ==
    /\ e \notin Listed(engines)
    /\ engines' = Append(engines, e)
    /\ UNCHANGED << source, compilation, proxying >>

\* The enterprise verifier finds that the engine's results diverge.
Suspend(p, e) ==
    /\ rows[<< p, e >>].status = "active"
    /\ rows' = [rows EXCEPT ![<< p, e >>].status = "divergent_suspended"]
    /\ UNCHANGED << source, engines, link, queue, job, artifacts, proxying, probed,
                    wasActive, missed >>

\* The artifact b of p for e is active from now on, also for what was invalidated.
ActiveAgain(p, e, b) == since' = [r \in Replicas |-> since[r] \cup {<< p, e, b >>}]

\* The operator's write of divergence-clear.md.
ClearSuspension(p, e) ==
    /\ rows[<< p, e >>].status = "divergent_suspended"
    /\ rows' = [rows EXCEPT ![<< p, e >>].status = "active"]
    /\ ActiveAgain(p, e, rows[<< p, e >>].body)
    /\ UNCHANGED << source, engines, link, queue, job, artifacts, entries, request, probed,
                    wasActive, missed >>

----------------------------------------------------------------------------
(* The trigger: Trigger.Listen and listenOnce *)

\* Acquire and LISTEN.  The loop comes back here only after the handler returned.
Connect(r) ==
    /\ ~ link[r]
    /\ job[r].pc = "idle"
    /\ link' = [link EXCEPT ![r] = TRUE]
    /\ UNCHANGED << source, engines, rows, queue, job, artifacts, proxying, probed,
                    wasActive, missed >>

\* The connection breaks: what it had delivered is gone, the fallback poll is a
\* no-op, and a compile in progress goes on.
Disconnect(r) ==
    /\ link[r]
    /\ link' = [link EXCEPT ![r] = FALSE]
    /\ queue' = [queue EXCEPT ![r] = << >>]
    /\ missed' = missed \cup Listed(queue[r])
    /\ UNCHANGED << source, engines, rows, job, artifacts, proxying, probed, wasActive >>

\* handleNotification up to the load of the policy; a refused payload, an
\* unknown tenant or a failed load skips the notification.
HandleNotification(r) ==
    /\ job[r].pc = "idle"
    /\ queue[r] # << >>
    /\ queue' = [queue EXCEPT ![r] = Tail(@)]
    /\ \/ /\ job' = [job EXCEPT ![r] = [NoJob EXCEPT
                        !.pc = "list", !.pol = Head(queue[r]), !.source = source[Head(queue[r])]]]
          /\ UNCHANGED missed
       \/ /\ missed' = missed \cup {Head(queue[r])}
          /\ UNCHANGED job
    /\ UNCHANGED << source, engines, rows, link, artifacts, proxying, probed, wasActive >>

----------------------------------------------------------------------------
(* The compiler: Compiler.CompileAll *)

\* Mutant: an engine whose compile failed ends the loop.
NextEngineUnlessFailed(j) ==
    IF Len(j.todo) <= 1 \/ j.status = "compile_failed"
    THEN NoJob
    ELSE [NoJob EXCEPT !.pc = "compile", !.pol = j.pol, !.source = j.source,
                       !.todo = Tail(j.todo)]

\* Mutant: an engine whose compile failed is tried again at once.
NextEngineRetrying(j) ==
    IF j.status = "compile_failed"
    THEN [NoJob EXCEPT !.pc = "compile", !.pol = j.pol, !.source = j.source,
                       !.todo = j.todo]
    ELSE IF Len(j.todo) <= 1
    THEN NoJob
    ELSE [NoJob EXCEPT !.pc = "compile", !.pol = j.pol, !.source = j.source,
                       !.todo = Tail(j.todo)]

\* The handler's next state once the engine at the head of todo is done.
NextEngine(j) ==
    IF Len(j.todo) <= 1
    THEN NoJob
    ELSE [NoJob EXCEPT !.pc = "compile", !.pol = j.pol, !.source = j.source,
                       !.todo = Tail(j.todo)]

\* The engines are listed once, in the order of their registration.
ListEngines(r) ==
    /\ job[r].pc = "list"
    /\ \/ /\ job' = [job EXCEPT ![r] = IF engines = << >> THEN NoJob
                                       ELSE [@ EXCEPT !.pc = "compile", !.todo = engines]]
          /\ UNCHANGED missed
       \/ /\ job' = [job EXCEPT ![r] = NoJob]
          /\ missed' = missed \cup {job[r].pol}
    /\ UNCHANGED << source, engines, rows, link, queue, artifacts, proxying, probed, wasActive >>

SameArtifact(a, b) == << a.pol, a.eng, a.source >> = << b.pol, b.eng, b.source >>

\* Mutant: a cache key without the hash of the source.
CachedForEngine(r, p, e, s) == {a \in artifacts[r] : a.pol = p /\ a.eng = e}

Cached(r, p, e, s) == {a \in artifacts[r] : a.pol = p /\ a.eng = e /\ a.source = s}

NeedsProbe(p, e) == p \in Filters /\ KindOf[e] \in ProbedKinds

\* Mutant: a failed probe is logged and the artifact activated.
StatusWhateverTheProbe(ok) == "active"

\* The status a compiled artifact is stored with.
StatusAfterProbe(ok) == IF ok THEN "active" ELSE "probe_failed"

\* compileOne up to the upsert: the cache, or the compile and the probe.
CompileOne(r) ==
    /\ job[r].pc = "compile"
    /\ LET p == job[r].pol
           s == job[r].source
           e == Head(job[r].todo)
       IN \/ \E a \in Cached(r, p, e, s) :
                /\ job' = [job EXCEPT ![r].pc = "persist", ![r].status = "active",
                                      ![r].body = a.body, ![r].hit = TRUE]
                /\ UNCHANGED probed
          \/ /\ Cached(r, p, e, s) = {}
             /\ << p, e, s >> \in Rejected
             /\ job' = [job EXCEPT ![r].pc = "persist", ![r].status = "compile_failed"]
             /\ UNCHANGED probed
          \/ /\ Cached(r, p, e, s) = {}
             /\ << p, e, s >> \notin Rejected
             /\ \E ok \in IF NeedsProbe(p, e) THEN BOOLEAN ELSE {TRUE} :
                  /\ job' = [job EXCEPT ![r].pc = "persist", ![r].body = s,
                                        ![r].status = StatusAfterProbe(ok)]
                  /\ probed' = IF ok THEN probed \cup {<< p, e, s >>} ELSE probed
    /\ UNCHANGED << source, engines, rows, link, queue, artifacts, proxying, wasActive, missed >>

\* The upsert of compileOne.  It may fail, and it may report failure after its
\* commit; either way CompileAll goes on with the next engine.  Only a fresh
\* artifact that is active and known to be stored enters the cache.
Persist(r) ==
    /\ job[r].pc = "persist"
    /\ LET j == job[r]
           e == Head(j.todo)
           new == [pol |-> j.pol, eng |-> e, source |-> j.source, body |-> j.body]
       IN \E stored, reported \in BOOLEAN :
             /\ reported => stored
             /\ IF stored
                THEN /\ rows' = [rows EXCEPT ![<< j.pol, e >>] =
                                    [status |-> j.status, source |-> j.source, body |-> j.body]]
                     /\ IF j.status = "active"
                        THEN /\ wasActive' = wasActive \cup {<< j.pol, e, j.body >>}
                             /\ ActiveAgain(j.pol, e, j.body)
                        ELSE UNCHANGED << wasActive, since >>
                     /\ UNCHANGED missed
                ELSE /\ missed' = IF j.source = source[j.pol] THEN missed \cup {j.pol} ELSE missed
                     /\ UNCHANGED << rows, wasActive, since >>
             /\ IF reported /\ j.status = "active" /\ ~ j.hit
                THEN \E c \in AfterAdd({a \in artifacts[r] : ~ SameArtifact(a, new)}, new) :
                        artifacts' = [artifacts EXCEPT ![r] = c]
                ELSE UNCHANGED artifacts
             /\ job' = [job EXCEPT ![r] = NextEngine(j)]
    /\ UNCHANGED << source, engines, link, queue, entries, request, probed >>

----------------------------------------------------------------------------
(* The SQL proxy: handleInject and the dialects' InjectPolicy *)

\* CompiledPolicy nodes LoadCompiledForTable returns that the dialect looks at.
NodesFor(t, k) ==
    {x \in DOMAIN rows : Governs[x[1]] = t /\ KindOf[x[2]] = k /\ rows[x].status # "none"}
WithStatus(nodes, st) == {x \in nodes : rows[x].status = st}
Suspended(t, k) == WithStatus(NodesFor(t, k), "divergent_suspended") # {}

\* Trino and Spark look for a suspended node before they look for an active
\* one; Dremio takes the nodes in the order the query returned them.
LooksForSuspendedFirst(k) == k \in {"trino", "spark"}

\* Mutant: the status of a node is not looked at.
ServableIgnoringStatus(t, k) == NodesFor(t, k)

\* Nodes whose artifact may be taken, given the order of the loop.
Servable(t, k) ==
    IF LooksForSuspendedFirst(k) /\ Suspended(t, k)
    THEN {}
    ELSE WithStatus(NodesFor(t, k), "active")

Answered(q, st) == request' = [request EXCEPT ![q].pc = "done", ![q].status = st]

\* The request is refused before the injector runs, or its pin lookup fails.
RefuseQuery(q) ==
    /\ request[q].pc = "idle"
    /\ \E st \in {400, 413, 422, 500, 501, 503} : Answered(q, st)
    /\ UNCHANGED << source, engines, compilation, entries, since >>

\* The cache lookup: a hit is spliced, which the shape of the query may forbid.
Lookup(q, r, t, k) ==
    /\ request[q].pc = "idle"
    /\ LET hits == {c \in entries[r] : c.tab = t /\ c.kind = k}
           asked == [NoQuery EXCEPT !.pc = "load", !.at = r, !.tab = t, !.kind = k]
       IN \/ \E c \in hits, st \in {200, 422} :
                request' = [request EXCEPT ![q] =
                    [asked EXCEPT !.pc = "done", !.entry = c, !.status = st]]
          \/ /\ hits = {}
             /\ request' = [request EXCEPT ![q] = asked]
    /\ UNCHANGED << source, engines, compilation, entries, since >>

\* LoadCompiledForTable and the loop over its nodes.
LoadCompiled(q) ==
    /\ request[q].pc = "load"
    /\ LET t == request[q].tab
           k == request[q].kind
       IN \/ Answered(q, 503)
          \/ \E x \in Servable(t, k) :
                request' = [request EXCEPT ![q].pc = "fill",
                    ![q].entry = [tab |-> t, kind |-> k, pol |-> x[1], eng |-> x[2],
                                  body |-> rows[x].body]]
    /\ UNCHANGED << source, engines, compilation, entries, since >>

SameEntry(c, d) == c.tab = d.tab /\ c.kind = d.kind

\* The artifact is cached and then spliced.
FillAndSplice(q) ==
    /\ request[q].pc = "fill"
    /\ LET r == request[q].at
           new == request[q].entry
       IN  \E c \in AfterAdd({d \in entries[r] : ~ SameEntry(d, new)}, new) :
              entries' = [entries EXCEPT ![r] = c]
    /\ \E st \in {200, 422} : Answered(q, st)
    /\ UNCHANGED << source, engines, compilation, since >>

\* The artifact of an entry.
Body(c) == << c.pol, c.eng, c.body >>

\* Artifacts queries at r have loaded and are about to cache.
Loaded(r) == {Body(request[q].entry) : q \in {q \in Requests :
                 request[q].pc = "fill" /\ request[q].at = r}}

\* Artifacts of the active nodes.
ActiveNow == {<< x[1], x[2], rows[x].body >> : x \in WithStatus(DOMAIN rows, "active")}

\* Of the artifacts A, what r may serve for t once its entries for t are gone:
\* what is active, and what a query loaded before and caches afterwards.
Unexpired(A, r, t) ==
    {a \in A : Governs[a[1]] = t => a \in ActiveNow \cup Loaded(r)}

\* Mutant: only the entries of one engine kind go.
InvalidateTrino(r, t) ==
    /\ entries' = [entries EXCEPT ![r] = {c \in @ : c.tab # t \/ c.kind # "trino"}]
    /\ since' = [since EXCEPT ![r] = Unexpired(@, r, t)]
    /\ UNCHANGED << source, engines, compilation, request >>

\* Cache.Invalidate: the entries of a table go, whatever their engine.  Nothing
\* in the repository calls it yet; its caller is to be a change of the schema.
InvalidateTable(r, t) ==
    /\ entries' = [entries EXCEPT ![r] = {c \in @ : c.tab # t}]
    /\ since' = [since EXCEPT ![r] = Unexpired(@, r, t)]
    /\ UNCHANGED << source, engines, compilation, request >>

\* The client asks again.
NextQuery(q) ==
    /\ request[q].pc = "done"
    /\ request' = [request EXCEPT ![q] = NoQuery]
    /\ UNCHANGED << source, engines, compilation, entries, since >>

----------------------------------------------------------------------------
CompilerStep(r) ==
    \/ HandleNotification(r)
    \/ ListEngines(r)
    \/ CompileOne(r)
    \/ Persist(r)

Next ==
    \/ \E p \in Policies : EditPolicy(p)
    \/ \E e \in Engines : RegisterEngine(e)
    \/ \E p \in Policies, e \in Engines : Suspend(p, e)
    \/ \E p \in Policies, e \in Engines : ClearSuspension(p, e)
    \/ \E r \in Replicas : Connect(r)
    \/ \E r \in Replicas : Disconnect(r)
    \/ \E r \in Replicas : CompilerStep(r)
    \/ \E q \in Requests : RefuseQuery(q)
    \/ \E q \in Requests, r \in Replicas, t \in Tables, k \in Proxied : Lookup(q, r, t, k)
    \/ \E q \in Requests : LoadCompiled(q)
    \/ \E q \in Requests : FillAndSplice(q)
    \/ \E q \in Requests : NextQuery(q)
    \/ \E r \in Replicas, t \in Tables : InvalidateTable(r, t)

Spec == Init /\ [][Next]_vars

\* Every call a handler makes returns.
Fairness == \A r \in Replicas : WF_vars(CompilerStep(r))
FairSpec == Spec /\ Fairness

----------------------------------------------------------------------------
(* Properties *)

JobState == [pc : {"idle", "list", "compile", "persist"}, pol : Policies,
             source : Sources, todo : Seq(Engines), status : Statuses,
             body : Sources, hit : BOOLEAN]
Codes == {0, 200, 400, 413, 422, 500, 501, 503}
QueryState == [pc : {"idle", "load", "fill", "done"}, at : Replicas, tab : Tables,
               kind : Kinds, entry : Entry, status : Codes]

\* Every variable has its type, and no LRU holds more than its capacity.
TypeOK ==
    /\ source \in [Policies -> Sources]
    /\ engines \in Seq(Engines)
    /\ rows \in [Policies \X Engines -> Row]
    /\ link \in [Replicas -> BOOLEAN]
    /\ queue \in [Replicas -> Seq(Policies)]
    /\ job \in [Replicas -> JobState]
    /\ artifacts \in [Replicas -> SUBSET Artifact]
    /\ entries \in [Replicas -> SUBSET Entry]
    /\ \A r \in Replicas : Cardinality(artifacts[r]) <= CacheSize
    /\ \A r \in Replicas : Cardinality(entries[r]) <= CacheSize
    /\ request \in [Requests -> QueryState]
    /\ probed \subseteq Policies \X Engines \X Sources
    /\ wasActive \subseteq Policies \X Engines \X Sources
    /\ since \in [Replicas -> SUBSET (Policies \X Engines \X Sources)]
    /\ missed \subseteq Policies

\* A query that the proxy answers with 200 was rewritten with an artifact that
\* governs its table, was compiled for its engine's kind, and was active: no
\* failed compile and no failed probe is ever enforced, from the cache or from
\* the store, however compiles, suspensions and fills interleave.
ServedWasActive ==
    \A q \in Requests :
        request[q].pc = "done" /\ request[q].status = 200 =>
            LET c == request[q].entry
            IN  /\ Governs[c.pol] = request[q].tab
                /\ KindOf[c.eng] = request[q].kind
                /\ << c.pol, c.eng, c.body >> \in wasActive

\* How stale a served artifact may be: what a replica's cache holds, and so what
\* the next hit serves, and what a query is about to cache, was active at some
\* moment since that replica last invalidated the table, or was loaded by a query
\* that the invalidation overtook.  Invalidation is the one bound there is: the
\* cache has no lifetime, and neither an edit nor a suspension evicts anything.
CachedSince ==
    /\ \A r \in Replicas : \A c \in entries[r] : Body(c) \in since[r]
    /\ \A q \in Requests :
          request[q].pc = "fill" => Body(request[q].entry) \in since[request[q].at]

\* What the proxy serves was active, and since the last invalidation, while every
\* cache keeps within its capacity.
ServingSound == TypeOK /\ ServedWasActive /\ CachedSince

\* An active node holds the artifact of the version it names, and if the engine
\* can be probed some replica's probe of that very version passed: the cache,
\* which skips the probe, never activates a version that did not pass it.
ActiveIsSound ==
    \A x \in DOMAIN rows :
        rows[x].status = "active" =>
            /\ rows[x].body = rows[x].source
            /\ << x[1], x[2], rows[x].source >> \notin Rejected
            /\ << x[1], x[2], rows[x].source >> \in probed

Pending(p, r) == p \in Listed(queue[r]) \/ (job[r].pc # "idle" /\ job[r].pol = p)

\* Replicas compile the same edit concurrently and the last upsert wins.  Still,
\* once no replica has work left on a policy and none missed its last edit, no
\* node of it is left at an older version.
Converged ==
    \A p \in Policies :
        p \notin missed /\ (\A r \in Replicas : ~ Pending(p, r)) =>
            \A e \in Engines :
                rows[<< p, e >>].status # "none" => rows[<< p, e >>].source = source[p]

\* The trigger does not stall: a notification it holds is handled, though other
\* policies are edited and the connection breaks.
NotificationsHandled ==
    \A r \in Replicas, p \in Policies : Pending(p, r) ~> ~ Pending(p, r)
=============================================================================
