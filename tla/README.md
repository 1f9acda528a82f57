# Neksur in TLA+

This directory is a verification development for Neksur, a data contract plane
in front of Apache Iceberg catalogs. It holds TLA+ models of the parts of the
system in which concurrency, partial failure and ordering decide correctness,
TLC configurations that check them on small instances, and TLAPS proofs of the
most important results for every value of the constants. `PROJECT.json` is the
machine-readable index: components, runs, mutants, the map from definitions to
source lines, findings, hazards and theorems. Paths are relative to the root of
the repository (`src/` in `PROJECT.json`).

Contents: 1 inventory, 2 modules and code, 3 runs and bounds, 4 fairness,
5 proofs, 6 where code and documents disagree, 7 modelling decisions, 8 plan.

## 1. Inventory

### 1.1 The parts and how they interact

```
 engines ──commit──> L1 catalog gateway ──CommitTable──> Polaris/Nessie/Unity/Glue
                      │  │  │                                   │ webhook, S3 event
                      │  │  └─ audit + snapshot ingest ─> graph │ (poller: fallback)
                      │  └─ write coordinator (partition spec)  v
                      └─ policy store + CEL          L3 detection pipeline ─> detection_runs
 engines ──SQL──> SQL proxy ──> CompiledPolicy nodes <── policy compiler <── NOTIFY
                      └──────> snapshot pins (graph + LRU) <── sweeper
 engines ──> credential vending (LRU) ──> catalog     license, certificate ──> watchers
 operators ──> tenant lifecycle, Pool A -> Pool B migration, provisioning, migrations
```

| Component | State | Operations | What is hard |
|---|---|---|---|
| Iceberg REST gateway (`internal/gateway/iceberg`) | none between requests; per request the loaded metadata, policies and verdicts; durable audit rows | single-table commit, multi-table transaction, audit emission, forward, snapshot ingest | no lock between load, evaluation and forward; a transaction is a sequence of independent upstream commits; audit and ingest can fail after the forward |
| Write coordinator (`writecoordinator.go`) | active partition spec in an external store | pre-commit check for Trino and Dremio | the value it compares may be stale at the forward |
| Catalog adapters (`internal/iceberg`) | none | LoadTable, CommitTable, error classification | an upstream that applied the commit and whose answer is lost; conflict detection by text search |
| Policy store and CEL (`internal/policy/store`, `internal/policy/cel`) | policies bound to tables | load, compile, evaluate | fail-closed on every error |
| Snapshot pins (`internal/coordination/snapshot`) | `SnapshotPin` nodes, `PINS` edges, an LRU per process | upsert, lookup through the cache, sweep | fill racing invalidation, renewal racing the sweep, duplicate creation |
| Tenant lifecycle, Pool B migration (`internal/tenant`) | one row of `public.tenants`, two schemas, audit log | suspend, wind-down, delete, migrate, manual roll-back | sessions racing one another; abort after any step; commits admitted before a suspend |
| Policy compiler (`internal/policy/compiler`) | LISTEN connection, artifact cache, `CompiledPolicy` nodes | trigger, compile, probe, upsert | several replicas compile the same edit; lost notifications; last upsert wins |
| Engine registry, attribute store (`internal/policy/store`) | ordered engines, attributes | register, list | the list is read once per compile |
| SQL proxy (`internal/sqlproxy`) | cache of artifacts per table and engine kind | three dialects: lookup, load, fill, splice | staleness against a suspension |
| Detection dispatch (`internal/detect`, `cmd/neksur-server/regex_scanner.go`) | bounded channel, seen map, `detection_runs`, SQS messages | poll, webhook, S3 event, scan, emit, alert, restart | at-least-once delivery, duplicates over replicas, a full channel |
| Lineage ingest (`internal/ingest`, `internal/lineage`) | `lineage_inbox`, `LINEAGE_OF` edges, Snapshot and Column nodes | receive a run event, merge an edge under a cycle check, sweep cycles | check-then-merge of two edges under different locks; failure between the edges of one event; producers post again |
| Graph client (`internal/graph`) | pool, tenant search path | transaction in a tenant | a commit whose answer is lost |
| CEL facts (`gateway/iceberg/principal.go`, `handler.go`, `internal/policy/cel`, `policy/store/attribute.go`) | LRU of compiled programs; attributes in the graph and in `public.tenants` | extract the principal, project the inputs, compile or get, evaluate, resolve an attribute | ill-typed claims, a policy edited between two requests, three attribute layers read one after another while stores change and fail |
| SQL text (`policy/compiler/sql_grammar.go`, `policy/compiler/dialect`, `sqlproxy/dialect/splice.go`) | none; an artifact in the graph | parse a policy, emit it for an engine, splice a filter, a mask or a pin into a query | precedence, quoting and the place of the splice are decided by three hand-written scanners |
| Credential vending (`internal/credvend`) | LRU of STS credentials | look up the catalog row, look up, remove, issue, fill | an entry used by another request than the one that filled it, expiry racing use |
| KMS batch cache (`internal/crypto/kms`) | LRU of data keys, one mutex | look up, lock, look up again, generate, store | two callers of one batch, a removal that goes by key, an error under the lock |
| License and certificate watchers (`internal/license`, `internal/sqlproxy/cert_watcher.go`) | manifest or key pair in use, watches, files of the operator | boot, watch, read part by part, swap, ask for a feature | files replaced one after another while they are read, lost events, grace periods |
| Provisioning, migrations (`internal/tenant/provision.go`, `smoke.go`, `internal/migrate`, `cmd/migrate`, `cmd/neksur-cli`) | registry, schemas, roles and privileges, versions per tenant | create, bootstrap, apply files, apply graph, smoke test | sessions beside one another, a kill or a failure between any two statements, deadlock retries |
| Authentication, admin API, alerts, billing, observability, CLI | no state of their own, or counters | thin handlers, outbound I/O | nothing a model reaches; see 7 |

### 1.2 What makes each modelled component correct

* Gateway: nothing reaches the upstream unless every change of the request was
  allowed; a refusal leaves no trace; the audit trail claims no more than
  happened; a guarded commit lands on the metadata that was evaluated; every
  request ends, and is answered once if its texts can be written to the graph.
* Pins: a pin in force is never deleted; a cached entry lists the active pins of
  its table, except for three causes that are named; the graph keeps one node
  per name and creating table.
* Tenant: a flip to Pool B follows full row parity and loses nothing that
  preceded the suspend; state changes are audited; a tenant that is not deleted
  keeps the schema its traffic goes to, except for two causes that are named.
* Policies: an active node was compiled and probed from the version it names; the
  last edit wins; a spliced artifact was active for that table and engine, and at
  some moment since the cache was last invalidated for the table.
* Detection: at most one alert per metadata location; no S3 record lost with its
  message; no hit lost without a logged error; no delivery left waiting.
* Lineage: a short cycle comes from a race and from nothing else; an edge exists
  once and can be traced to a stored event; the answer tells what was merged.
* Provisioning: migrations move a tenant one whole file at a time, in order, never
  back (the abstract specification `SchemaUpgrade`); exit code 0 is true; an
  onboarded tenant's role reaches its tables; every command ends.
* CEL facts: a policy that demands a fact allows only if the fact held; facts the
  gateway hands over are seen; a caller's own attribute is not displaced.
* SQL text: a policy is parsed and emitted with the meaning its author wrote; a
  rewritten query whose condition is a predicate is the one that was asked with
  the policy conjoined or its columns masked.
* Vending and keys: credentials reach only the tenant they were issued for, with
  half of their life left; a batch has one data key unless the cache lost it.
* Watchers: what is in use belongs together and is within its grace; a finished
  rotation is picked up, and none is undone.

The hazards behind these properties are in `PROJECT.json`, each at its line.

## 2. Modules and code

Every module has the same layout: constants with named assumptions, variables,
`Init`, the actions grouped by the code that performs them, `Next`, `Spec`
(and `FairSpec`), then the properties. Definitions whose comment starts with
"Mutant:" are not part of the specification: they are plausible defects of the
definition that follows them, used to show that a property can fail. `MC*`
modules give values to the constants.

### CatalogGateway (`internal/gateway/iceberg`, `internal/iceberg`)

State: `catalog` (upstream metadata of each table, a version and a partition
spec), `bound` (policies of each table), `active` (active spec of each table),
and per request the decoded body, the call the handler is about to make (`pc`),
the index in the loop over table-changes (`pos`), what was loaded and the HTTP
status. `applied`, `audit` and `ingested` are the durable effects; `applied`
keeps the metadata each accepted change replaced. A text that goes into a graph
query passes `MustSanitizeCypherLiteral`, which panics on a character outside its
allowlist: a request says whether its subject is such a text (`sub`), and
`UnsafeLocations` are the tables whose metadata location is one.

| Action | Code |
|---|---|
| `Arrive`, `RefuseAtGate` | method, tenant, identifiers, principal and body checks of `ServeHTTP` in both handlers |
| `ResolveAdapter`, `LoadTable` | `resolveAdapter`, `LoadTable` |
| `WriteCoordinatorPreCommit` | the hook of `writecoordinator.go`, single-table only |
| `LoadPoliciesForTable`, `Evaluate`, `ApproveRef` | the policy fetch, the conjunction of verdicts, the step to the next table-change |
| `RejectDenied` | the REJECTED row, then 403, or 503 when the row is not reported durable; a panic of the row's text ends the request without an answer |
| `CommitTable` | the forward and the classification of its error (`ErrorStatuses`: 409 or 502, by a search of the error's text); the upstream may have applied a change whose answer is lost |
| `AuditApproved`, `IngestSnapshot` | the APPROVED row and the snapshot ingest, whose failures do not change the answer; a panic of `AuditApproved` leaves the commit in place and the request without an answer |
| `BypassCommit`, `ChangePolicy`, `ActivateSpec` | environment: other engines and administrators |

### SnapshotPins (`internal/coordination/snapshot`)

State: `nodes` and `edges` of the graph, the LRU (`cached`, `entry`), a clock in
seconds and the local state of readers, writers and the sweeper. A reader is
split into the lookup with the capture of "now", the query and the fill; an
upsert into the node MERGE under the advisory lock, the edge MERGE with the
commit, and the invalidation; the sweep into the capture of "now" and the
delete. `behind` is a history variable: tables whose cached entry no pending
invalidation will repair, with the cause (`overtaken`: a fill stored after the
invalidation; `moved`: an upsert that changed the pins of a table it did not
invalidate; `unreported`: a commit that took effect and returned an error).

### TenantLifecycle (`internal/tenant`)

State: `lifecycle_state`, `pool`, the newest lifecycle row of the audit log, the
pools that hold the schema, its rows, and what each operator session and each
commit request is doing. Every transaction and every external command
(`pg_dump`, `pg_restore`, the parity queries) is an action, and `Abort` can
follow each. `ManualResume`, `ManualDropPoolB`, `ManualDropPoolA`, `RollbackSuspend` and
`RollbackPool` are the steps of the runbook, each a statement of its own that may fall
anywhere among the other sessions' steps. `ByWorkOSOrgID` admits a commit,
`CommitAccepted` writes its rows, always to Pool A, and a suspend can fall between the
two. `causes` is a history of why a tenant that is not deleted may lack its Pool A
schema: `revived` (a migration took it back from deleted) and `retired` (the operator
dropped the schema after the retention).

### PolicyEnforcement (`internal/policy/compiler`, `internal/policy/store`, `internal/sqlproxy`)

Composes the compiler and the SQL proxy, which interact through the
`CompiledPolicy` nodes (`rows`). Per replica: the LISTEN connection (`link`), the
notifications it has received (`queue`), the handler (`job`: load, list engines,
then compile/probe and upsert engine by engine), the artifact cache and the
proxy's cache. A definition is a version number, an artifact is the version it
was compiled from. `missed` records edits that some replica did not handle.
`Suspend` and `ClearSuspension` are the divergence detector and the runbook.
`InvalidateTable` is the proxy's `Cache.Invalidate`, which may be called at any time and
which nothing in the repository calls (section 6). `since` is a history per replica: the
artifacts that were active at some moment since it last invalidated their table, or
that a query had loaded by then.

### DetectionDispatch (`internal/detect`, `cmd/neksur-server/regex_scanner.go`)

State: SQS messages, webhook requests waiting to send, one bounded channel, seen
map and worker set per replica, `runs` (rows of `detection_runs`) and the number
of alerts per location. A hit is a metadata location and whether it names its
table, which only a webhook hit does. `Restart` loses what a replica holds in
memory; `excuses` records the locations whose scan logged an error or was
interrupted.

### LineageIngest (`internal/lineage/http`, `internal/ingest`)

State: `known` (datasets that have a node), `edges` (`LINEAGE_OF` edges, each with the
run that created it and a copy number, so that a duplicate would show), `inbox`
(`lineage_inbox`, one event per producer and run), and per handler its event, its
place in the two nested loops, what its open transaction would create and its
answer. Two histories carry the race: `missed` of a handler holds the edges
committed since its cycle check, and `unseen` the pairs of an edge and an edge that
its check missed.

| Action | Code |
|---|---|
| `Post` | the checks of `Handler` up to the size of the cross product; a post that fails one changes nothing and is no action |
| `PersistInbox` | `persistInbox` with ON CONFLICT DO NOTHING; 202 at once for an event without pairs |
| `RejectSelfEdge`, `LockSource` | the entry checks of `MergeLineageEdge` and the advisory lock on the source |
| `validateNoCycleTx` | the walk from target to source, at most `cycleMaxDepth` hops; 422 on a hit |
| `MergeEdge` | the MERGE, which does nothing when an end has no node |
| `Commit` | the end of `ExecuteInTenant`, reported as a success or as an error, and the step to the next pair or to 202 |
| `Fail` | any call fails or the client leaves: 503, the transaction is rolled back |
| `RegisterDataset` | environment: the node of a dataset appears |

### Provisioning and SchemaUpgrade (`internal/tenant`, `internal/migrate`, `cmd/migrate`, `cmd/neksur-cli`)

State of the database: `registry` (rows of `public.tenants`), and per tenant `graph`
(its AGE graph and schema), `role`, `rel` (last versioned file), `gr` (graph files
applied), `priv` and `upd` (tables the role may use, and update), `onboarded`. State of
an operator session: the command, the statement it is about to run, the tenants left
and failed, its attempts. `lock` is atlas's advisory lock. Every transaction is an
action, `Killed` and the failure actions can follow each. Files are numbered; only
two matter to the commands, the ones that create `audit_log` and `policies`.

`SchemaUpgrade` is what the migrations promise of a tenant: `NextFile`, `GraphFiles` and
nothing else. `Provisioning` instantiates it with its own `rel` and `gr`, and the run
`provision` checks `UpgradeSpec` as a property: whatever is retried, killed, run twice
or half done, a step of `Provisioning` is a step of `SchemaUpgrade` or a stutter.

| Action | Code |
|---|---|
| `RegisterTenant`, `ProbeGraph`, `CreateGraph`, `CreateRole` | `tenant create`, `Repo.Create`, `CreateGraph` (a probe, then a create), the transaction of grants and default privileges |
| `AtlasStart` .. `AtlasFails` | `retryOnDeadlock` around atlas: lock, one transaction per file, 40P01 retried, any other error returned |
| `RevokeAuditLogWrites`, `GraphBegin`, `GraphCommit` | the two REVOKEs, the transaction of all pending graph files |
| `MigrateAll`, `PickTenant` | the loop of `cmd/migrate` over the tenants discovered at its start |
| `SmokeAudit`, `SmokePolicy`, `SmokeOnboard` | the smoke test as the tenant's role, one transaction per check |

### NeksurServer: five components of the server process

Vending, data keys, watchers, SQL text and CEL facts share no state and no lock, so
one module unites them: `part` says which one a behaviour follows while the others
rest in an initial state. A transition of the union is a transition of one part,
hence its states are the sum of theirs and not their product.

* `CredentialVending` (prefix `v`): a request is split at the read of the catalog row,
  the lookup, the removal of a stale entry, the upstream call and the fill. The key
  is tenant, table and region, as in `cache.go`, without the catalog. An upstream
  answer may have no expiry.
* `BatchKeys` (prefix `k`): callers of `GetOrGenerate`; `Get` is two steps, since an
  expired entry is removed by key after it was looked at. `kagain` and `klost` are
  histories: batches that got a second key while the first was in force, and keys
  that left the cache before their time.
* `HotReload` (prefix `h`): the operator's files (`hfile`: missing, cut, cut after the leaf
  certificate, whole), what the watcher has read (`hread`), what is in use (`hloaded`)
  and the last answer about a feature (`hasked`). `WriteInPlace`, `RenameOver` and
  `RemoveFile` are the operator's; an event reaches the channel or is lost.
* `SqlText`, `PolicySql`, `SqlPipeline` (prefix `s`): a text is a sequence of symbols (a
  word, a bracket, a quote). `SqlText` has the scans, `parseSelect` and the splicers of
  `splice.go`; `PolicySql` the recursive-descent parser and the emitters, and a
  reference that splits a predicate at its loosest connective outside strings and
  brackets, in a way unrelated to the parser; `SqlPipeline` carries a policy from
  its source through the graph into a query. Besides the forms of a well-formed
  query there is the form "loose": conditions that are no predicate by themselves, a
  bracket closed early, a bracket or a string left open, UNION within WHERE.
* `CelFacts` (prefix `f`): JSON values with their types (`Str`, `Num`, `Lst`, `Obj`,
  `Nothing`), the principal out of certificate, token or session, the maps the gateway
  builds, every registered function, the LRU of programs, and the attribute
  resolver layer by layer. A request without a tenant is refused before its principal
  is looked at (`RefuseWithoutTenant`), and the graph is not asked for a subject or an
  attribute name outside the allowlist (`Askable`). `DocumentedTable` and `DocumentedCommit` are the shapes the
  functions' comments describe, which the gateway does not produce (section 6). What
  is true of table and caller (`FactHolds`) is defined from the scenario, not from
  the maps.

## 3. Runs and bounds

| Run | States | Shows |
|---|---|---|
| `gateway_hook` | 1 091 000 | one request of either kind with both coordination stores wired, two policies, two specs and every engine kind, racing bypass commits, policy changes and spec activations |
| `gateway_multi` | 251 000 | a transaction over two tables, one of them with a metadata location that cannot be written to the graph; safety of partial failures, the answer is final, every request ends and every one with safe texts is answered |
| `pins_cache` | 1 250 000 | a reader, a writer and the sweeper over two tables and a one-entry LRU |
| `pins_merge` | 542 000 | two concurrent upserts for two tables and a sweeper with an old clock reading |
| `tenant_move` | 161 000 | two operator sessions and two commits; a deleted tenant comes back only through the last step of a migration (`DeletedLeftByMigrationOnly`), and one that is not deleted has the schema its traffic goes to, but for the named causes (`ServingSchemaKept`) |
| `policy_compile` | 3 119 000 | two replicas compile two edits for two engines, with broken connections, failed probes and unreported upserts; once nothing is left to compile, no node is at an older version (`Converged`) |
| `policy_serve` | 193 000 | one replica serves queries while policies are edited, suspended and cleared and the cache is invalidated; every notification is handled (`NotificationsHandled`) |
| `detection` | 275 000 | two replicas, three sources, a message with two records for one location, a channel of capacity one; a waiting webhook is answered (`WebhookAnswered`) |
| `lineage` | 207 000 | two handlers ingest START, COMPLETE and repeated events over three datasets, with a failure at every call; every event is answered (`EventAnswered`) |
| `provision` | 341 000 | two sessions provision and migrate two tenants, failing, deadlocking and being killed anywhere; refinement of `SchemaUpgrade`, true exit codes, reachable tables, termination (`CommandsEnd`) |
| `neksur_server` | 199 000 | the five parts of `NeksurServer`, each against its own properties; every caller of the data-key cache returns (`CallersReturn`) |
| `sql_masks` | | `MaskPolicyMasks`, expected to be violated, see section 6 |

Some properties are conjunctions of named parts that are about one thing and are
checked together; the parts are defined and commented just before them:

| Property | Parts |
|---|---|
| `AnsweredOnce` (gateway) | `AnsweredIsFinal`, `EveryRequestAnswered` |
| `GraphWellFormed` (pins) | types; one node per name and table; no dangling edge |
| `RecordSound` (tenant) | types, `PreSuspendRowsMigrated`, `LifecycleAudited`, `ParityBeforeFlip` |
| `ServingSound` (policies) | types and capacities, `ServedWasActive`, `CachedSince` |
| `NothingLost` (detection) | types, `DeletedWasSent`, `TakenIsRecorded` |
| `RolesReach` (provisioning) | types, `TablesReachable`, `OnboardedIsUsable` |
| `CredentialsSound` (vending) | types and capacity, `OwnCredentials`, `HalfLifeLeft` |
| `KeysSound` (data keys) | types and capacity, `OneKeyPerBatch` |
| `InUseSound`, `RotationsSound` (watchers) | types, `PairMatches`, `NoGrantPastGrace`; `NeverGoesBack`, `RotationsLand` |
| `PolicyKeepsMeaning`, `QueryKeepsMeaning` (SQL) | `ParsedAsWritten`, `EmittedMeansTheSame`; types, `ShapeIsSound`, `FilterIsConjoined`, `MasksApplied` |
| `VerdictsFollowFacts` (CEL) | types, `NeverFailsOpen`, `FactsReachPolicies`, `OwnAttributeWins` |

Bounds, and why they are enough for the properties they serve:

* `MaxRefs = 2`: partial failure needs one change before and one at the failure.
* `MaxVersion = 2`: a commit that overtakes the request, and one that follows it.
  In `gateway_hook` there is a single request; what another request could do to it
  (commit to the table) a bypass commit does, and the theorems of section 5 hold
  for any number of requests.
* `MaxTime`: 1 lets a pin expire between lookup and fill; 2 in `pins_merge` lets a
  pin expire, be renewed and stay in force past the sweeper's clock reading.
* `CacheSize = 1` with two tables, or two engine kinds: every fill may evict.
* `MaxSource = 2`: an old and a new definition; `MaxQueue = 2`: a notification
  waits while one is handled. An edit is disabled while a queue is full.
* `Capacity = 1`: the channel is full as soon as one hit waits. Two records with the
  same location make duplicates within one message.
* `cycleMaxDepth = 2` with three datasets: the longest cycle the check must find has
  three edges, and the events contain it, so a walk one hop short is refuted. The
  theorem of section 5 holds for every depth. `crossProductCap = 3` admits every event
  of the instance; an event over the cap is refused before it changes anything.
* `provision`: two files are enough for a file that is skipped, applied twice or
  created beside an open grant; `MaxAttempts = 2` is one retry; one tenant is
  bootstrapped before and one during the run; `MCRuns` gives each session the
  commands that can disturb the other's.
* Caches of one entry (`VCacheSize`, `KCacheSize`, `FCacheSize`) make every fill an eviction; the
  clocks run past one expiry and one refill. `VTTL = 2` has a middle.
* `HMaxGen = 3`: a first, an unsigned and a later license; the clock passes the last
  expiry plus grace.
* Predicates go two connectives deep over literals that hold quotes, keywords and
  brackets, which separates every pair of precedences; queries have every clause,
  strings with keywords in each, the forms that must be refused, and the loose
  conditions of section 2.
* `FMaxRequests = 2`, `FMaxChanges = 2`: a second request finds the program of the first, and
  an attribute can change and a store fail within one lookup.

Symmetry is declared only where the permuted values are interchangeable and no
temporal property is checked that it could hide: replicas in `policy_compile`
(no queries, equal roles), and snapshots, pin names and readers in the pin runs
(tables are not permuted: `SomeTable` is a CHOOSE). `UnexpiredPinsSurvive` is a
step property, for which symmetry is sound.

Deadlock is checked except in the gateway, tenant, provisioning and server runs,
whose requests, commands and policies are used up, so a finished system has
nothing left to do.

Each property has a mutant in `PROJECT.json`, and a conjunction one for each of its
parts: a small change of the modelled code (a dropped guard, a missing
invalidation, a key that omits a field) under which TLC refutes that property in
that very run.

## 4. Fairness

* `CatalogGateway`: weak fairness of each request's `HandlerStep`. Every call of a
  handler returns, by its own timeout or because the request context ends, and
  the failure branch is part of the same step.
* `PolicyEnforcement`: weak fairness of each replica's `CompilerStep`, the loop of
  the listening goroutine. Edits, connections and queries are not fair.
* `DetectionDispatch`: weak fairness of each worker and strong fairness of
  `WebhookSend`: Go serves blocked senders of a channel in FIFO order, so a sender
  cannot be overtaken for ever. Sources, restarts and evictions are not fair.
* `LineageIngest`: strong fairness of each handler's `HandlerStep`. Only `LockSource` can
  be disabled by others, and Postgres grants an advisory lock in the order of the
  requests, so a handler is not passed over for ever. Posts, failures and the
  registration of datasets are not fair.
* `Provisioning`: weak fairness of each session's `Step`: a started process runs on, and
  every statement returns or fails. Nobody has to start one or to kill one. The
  wait for atlas's lock has a timeout, which is a failure within `Step`.
* `NeksurServer`: weak fairness of the watcher's own steps (its goroutine and its
  five-minute ticker) and of each step of a caller of the data-key cache, strong
  fairness of `KLock`, since a waiter on a Go mutex is not starved. Events, rotations, the
  operator and the clock are not fair, and `RotationsLand` asks nothing while the files
  are not whole.

## 5. Proofs

Every safety property of a run is proved for every value of the constants, except
those of the SQL text (end of this section). A `*Proofs` module
extends the component it is about. The shape of an argument is always the same: an
inductive invariant with named conjuncts, a lemma that `Init` gives it, a lemma per
action (or per group of actions that disturb the same conjuncts) that a step keeps it,
and short theorems from there. A candidate invariant is cheap to try with TLC on the
instances of section 3 before it is proved.

| Module | Theorem | Statement |
|---|---|---|
| `CatalogGatewayProofs` | `TypeCorrect` | `Spec => []TypeOK` |
| | `RejectAllHolds` | `[]RejectAll`: a change is applied only if every policy loaded for every change of its request allowed it |
| | `FailClosedHolds` | `[]FailClosed`: a request refused before the forward changed nothing upstream |
| | `GuardedHolds` | `[]GuardedOnEvaluated`: a commit with a version requirement lands on the metadata its policies saw |
| | `AuditTruthfulHolds` | `[]AuditTruthful`: rows and snapshot nodes claim nothing the upstream did not accept |
| | `DenialsAuditedHolds` | `[]DenialsAudited`: a 403 has its row, except the write coordinator's |
| | `AppliedPrefixHolds` | `[]AppliedPrefix`: what was accepted of a transaction is an initial segment, all of it on 200, and on 409 everything before the failed change, with or without that change |
| | `ActiveSpecHolds` | `[]ActiveSpecRespected`: with the spec store wired, a guarded Trino or Dremio commit replaces metadata of the spec that was active |
| | `AnsweredIsFinalHolds` | `AnsweredIsFinal`, the safety half of `AnsweredOnce` |
| `LineageIngestProofs` | `TypeCorrect` | `[]TypeOK`, the loops and the key of the inbox included |
| | `RaceNeeded` | `[]CyclesNeedARace`: a cycle of at most `cycleMaxDepth + 1` edges has an edge whose check missed another edge of the cycle |
| | `EdgesSound`, `EdgesTraced` | `[]EdgesUnique`, `[]EdgesHaveAnEvent` |
| | `AnswersHold` | `[]AnswersAreTrue`: 202 and 422 tell what is in the graph |
| `TenantLifecycleProofs` | `RecordHolds` | `[]RecordSound`: no row is lost by a move, parity before the flip, state changes audited |
| | `DeletedHolds`, `ServingHolds` | `DeletedLeftByMigrationOnly` (step property), `[]ServingSchemaKept`: traffic's schema is there unless the tenant was revived or retired |
| `ProvisioningProofs` | `UpgradeHolds` | `Spec => UpgradeSpec`: the refinement of `SchemaUpgrade` |
| | `SuccessHolds`, `RolesReachHolds` | `[]SuccessIsTrue`, `[]RolesReach` |
| `SnapshotPinsProofs` | `GraphHolds`, `CacheHolds` | `[]GraphWellFormed`, `[]CacheCoherence` |
| | `PinsSurvive` | `UnexpiredPinsSurvive` (step property) |
| `DetectionDispatchProofs` | `NothingLostHolds`, `AlertedOnceHolds` | `[]NothingLost`, `[]AlertedOnce` |
| `PolicyEnforcementProofs` | `ServingHolds`, `ActiveHolds` | `[]ServingSound`, `[]ActiveIsSound` |
| | `ConvergenceHolds` | `[]Converged`: racing replicas leave no node behind the last edit |
| `ServerStateProofs` | `OneKeyHolds` | `KSpec => []KeysSound` |
| | `CredentialsHold` | `VSpec => []CredentialsSound` |
| | `InUseHolds` | `HSpec => []InUseSound` |
| | `NeverGoesBackHolds` | `HSpec => NeverGoesBack`, the safety half of `RotationsSound` |
| | `FactsHold` | `FSpec => []VerdictsFollowFacts`: a CEL policy allows a commit only on a fact, is not denied one the gateway hands over, and takes no default for an attribute the caller has |

### 5.1 Assumptions

The named ASSUMEs of the component modules and nothing else; TLC evaluates them in the
runs. They say what kind of value a constant is (bounds and capacities are naturals,
flags are Booleans, a function has its domain and range), that a set is not empty where
the initial state takes a member of it for a local that holds nothing yet (`SomeAssumption`,
`LocationsAssumption`, `TablesAssumption`, `VAssumption`, `KAssumption`), and, in `NamesAssumption`, that the
names for "none" are not names of anything. `FAssumption` restricts the policies of
`CelFacts` to what the property can be about: one call of a registered function (or an
ill-formed text), which compares a region or an attribute with a value that is not
empty, because the functions return the empty string for "there is none" and a policy
that asks for it demands no fact; and the transforms of a partition spec, in the shape the
functions' comments describe, are not lists. The sets of requests, sessions, replicas
and goroutines are arbitrary, infinite ones included, except in `TenantLifecycle`, whose
row counts need finite sets of commits and tables.

### 5.2 Gateway

`SafetyInv == TypeOK /\ Control /\ Gated /\ Past /\ Versions /\ GuardedOnEvaluated`, and `LedgerInv` on top of it.

* `Control`: a request between intake and answer is decoded, unanswered and inside
  its list of changes. Without it `pos` could point outside the list.
* `Gated`: how far evaluation has got: earlier changes approved, at "eval" the
  policies no longer in `todo` allowed, from "forward" on all changes approved.
  It carries `RejectAll` through the two loops.
* `Past`: a request that changed the upstream is beyond the gate for good and its
  status is one the forward can give. It implies `RejectAll` and `FailClosed`, and
  is needed because the verdicts must not be reconsidered after the forward.
* `Versions`: what a request requires and what it has loaded lie in the past of
  the catalog, and metadata with the current version is the current metadata.
  With the catalog only advancing (`CatalogAdvances`), equality of the required
  version at the forward makes the loaded and the replaced metadata equal.
* `LedgerInv`: how much was accepted at each step of a handler and what each status
  says of it (`ProgressOK`), that the hook has compared the spec of what it was given
  (`HookOK`), and what a row, an ingested snapshot and a 403 rest on. `ActiveSpecHolds`
  combines `HookOK` with `GuardedOnEvaluated`: the spec compared at the hook is the one of
  the metadata that is replaced.

Each conjunct has one lemma for handler steps and one for the environment, which
leaves the requests' own state alone (`Quiet`).

### 5.3 Lineage

`Inv` adds to the properties themselves `IsFiniteSet(edges)` (for the copy numbers) and

* `Handlers`: a handler in the loops has its run in the inbox; once it holds the lock
  its edge is no self-edge; after the check its target does not reach its source
  in the graph without the edges in `missed`; an edge it is about to create is not
  in the graph;
* `Exclusive`: a source's lock has one holder. It keeps the last part of `Handlers`
  true while others commit, hence `EdgesUnique`.

The argument for `RaceNeeded`: a cycle that was not there before a commit contains
the new edge. Without that edge, and turned so that it starts at its target
(`Rotate`), the cycle is a path of at most `cycleMaxDepth` hops from target to source;
it cannot lie in the graph the check still vouches for, so it uses an edge in
`missed`, and the commit records that pair in `unseen` (`ClosedUnseen`). Cycles are
taken to be simple, since every closed walk contains a simple one.

`AnswersHold` needs the loop invariant `Truthful`: the pairs the loops have passed are in
the graph or had no node, the pair at "commit" is or is about to be, and an answer is
true. Since edges are never removed, others' commits cannot falsify it (`TruthKept`).

### 5.4 Tenants

`RecordInv` says what a migration knows at each step (`MoveOK`): Pool A keeps what it
held at the suspension for as long as it has the schema, the dump holds that, Pool B holds
the dump, all tables are compared before the flip. `DropOK` is the heart of
`ServingHolds`: the drop of `Delete` re-reads nothing, but its tenant is still deleted by
then, or a migration has taken it back, which `causes` records. `PoolOK`: a tenant that
points at Pool B has its schema there.

`ProvisionInv` has `LockOK` (a session applies files exactly while it holds atlas's lock),
`SessionOK` (which command is at which statement, what is true of its tenant past the
step that made it, and that each discovered tenant is to come, at work, failed or
upgraded), and `FileOpenOK`, `RoleOpenOK`, `TenantOK` about two transactions open side by side: a
table is granted by the file, by the role's transaction, or was open beside it
(`overlap`). The refinement needs two parts of it: a file's
open transaction has a file left to apply, which the lock keeps true (`FileOpenOK`), and
graph files are only applied to a tenant at the last version (`ReachedOK`). Then initial
states map to initial states, and each step to `NextFile`, `GraphFiles` or a stutter.

### 5.5 Pins

`GraphInv`: the advisory lock of a table has one holder (`LocksOK`), so a transaction that
found no node of its name will still be the first to create one (`FreshOK`); what readers
and the sweeper take for "now" has passed (`ClockOK`), which is what `PinsSurvive` rests on.
`CacheInv`: the rows in a reader's hands fit the graph up to expired pins unless it was
overtaken (`ReadOK`), and so does every entry that is neither behind nor about to be
invalidated (`Coherent`). Coherence is stated up to expiry, and expiry only shrinks both
sides, so the clock keeps it.

### 5.6 Detection

`Inv`: what a consumer no longer has to send was sent (`SentOK`, over the suffix of its
records); a location taken or seen is being scanned or was recorded (`SeenOK`, `TakenOK`); a
worker about to alert has the run on record, nobody has alerted yet, and it is the
only such worker on any replica (`AlertOK`, `OneAlert`), because only the insert that created
the run goes on to alert.

### 5.7 Policies

`SoundInv`: a node that is active, or that clearing a suspension can make active again,
holds a sound artifact that was active before (`RowsOK`); the same of artifact caches
(`ArtifactsOK`), of what a compile is about to store (`JobsOK`), of proxy entries, which fit
their key (`EntriesOK`), and of the artifact a query is rewritten with (`QueriesOK`).

`FreshInv` is `CachedSince` with `ActiveIsSince`: an active node is in the `since` of every
replica. `CachedSince` alone is not inductive: a load takes its artifact from the active
nodes, and an invalidation empties the history but for what is active or loaded then.

`ConvergeInv`: a compile of an outdated version is followed by another (`OldFollowed`), and
an outdated node will be overwritten by some replica (`OldOverwritten`), unless an edit
was missed. The last upsert wins, so the danger is a slow replica that stores an old
version last; `OldFollowed` says that it has the newer notification in its queue.

### 5.8 State of the server process

The four specifications are the modules' own; a behaviour of `NeksurServer` follows one
of them while the others rest in an initial state.

* Data keys: `KInv` has `Exclusive` (the mutex has one holder, only the holder generates and
  stores, and a caller that is idle, waiting or done does not hold it), `Kept` (a
  stored key in force is cached or recorded as lost) and `Checked` (a caller about to
  generate saw no key in force, and as the holder of the lock it is the only one who
  could store one). `Checked` is what the second look under the lock buys: without it
  the step from "lock" to "generate" would not preserve it, which is the mutant
  `KLockNoRecheck`. `KShape` adds the capacity and that a key in hand was generated.
* Vending: `VInv` says that the entry under a key was issued for that key's tenant, table
  and region and stamped in the past (`VEntryOK`), and what a request holds at each of its
  steps (`VReqOK`). `FreshHalf` is the arithmetic of the half-life.
* Watchers: `HOrder` puts what is loaded, what is being read, what is in the file and the
  rotation under way in order of generation, a missing file aside. Neither
  `NeverGoesBack` nor `NoGrantPastGrace` is inductive without it. `HLicensed`: a manifest in use
  was signed.
* CEL facts: `FInv` has `InputsOK` (the principal and the maps of a request are those of
  its caller and table, and the gateway knows the tenant), `ProgramsOK` (a cached program was
  compiled from the text in its key, so a policy authored anew never runs its old
  program), `RunningOK` and `HistoryOK` (what the graph would answer now is in the history,
  and a resolver that went on to the defaults was told by the graph, since the request
  arrived, that there is no value). Under it there is a lemma for each registered
  function: `HasColumnFact`, `HasPartitionFact` and `RoleFact` both ways for the maps of the
  gateway, `ClassificationFact`, `PartitionSpecFact` and `RegionFact` in the direction that
  matters, "true only if it is so"; `ValueFact` puts them together and `ConcludeInv` turns them into
  the verdict, for the four steps that can conclude one. `RolesListed` needs the three
  sources of roles in the order `extractRoles` tries them (`principal.go`): it fails as soon
  as the arms of that choice overlap, for a token with a list of roles beside a
  list of groups.

### 5.9 What is only model-checked

* Liveness under fairness and ENABLED are outside the prover's reach:
  `EveryRequestAnswered`, `NotificationsHandled`, `WebhookAnswered`, `EventAnswered`, `CommandsEnd`,
  `CallersReturn`, `RotationsLand`.
* `PolicyKeepsMeaning` and `QueryKeepsMeaning` are about recursive operators over texts
  (`PolicySql`), which the prover neither takes nor could handle without induction over
  data.

## 6. Where code and documents disagree

One disagreement is shown by a run that TLC must refute:

* `sql_masks`: "the discriminator is carried on the CompiledPolicy node"
  (`compiled.go:133-135`), and the body of a mask is a list of `col AS expr` pairs that
  "the per-dialect compiler already produced" (`splice.go:139-142`). `persist` fills no
  kind, the MERGE sets none and the load reads none, so a mask comes back as a row
  filter; and the emitters write `expr AS col`. A compiled column-mask policy leaves
  its column unmasked in the text the proxy answers with; an engine would refuse the
  WHERE of that text.

Met while reading, and not the subject of a run of their own. Tenants and pools:

* `lifecycle.go:79-82`: "a retry of Delete just re-tries the DROP". The first
  transaction of the retry finds no row in a state it accepts (line 95) and returns
  before the drop.
* `lifecycle.go:63` calls Delete "the irreversible terminal transition"; a migration in
  progress resumes the tenant with an unconditional UPDATE
  (`pool_b_migrate.go:184`), which turns deleted into active.
  `DeletedLeftByMigrationOnly` names the exception.
* `lifecycle.go:12`: the gateway is said to return 503 on a commit of a suspended
  tenant; the lookup admits suspended tenants (`repo.go:50-56`) and no handler looks
  at the state. `ByWorkOSOrgID` and `CommitAccepted` model that.
* `pool-b-migration.md:141-143` says traffic follows the flip; nothing outside
  `internal/tenant` reads `pool` or `connection_dsn`. Its section 3 suspends first,
  which makes `MigratePoolAToB` fail, and the command `tenant resume` does not exist.
  The dump is plain text, which `pg_restore` does not read.
* Since traffic stays on Pool A, the runbook's drop of that schema 30 days after a
  move (`pool-b-migration.md:157`) takes the schema of a live tenant (cause `retired` in
  `ServingSchemaKept`). So does the drop of a `Delete` that is pending while a migration
  resumes the tenant (`lifecycle.go:79-82` with `pool_b_migrate.go:184`; cause `revived`).

Provisioning and migrations:

* `provision.go:22-30` seals `audit_log` against updates; a later `CreateRole` grants UPDATE
  on all tables again (line 241), and `cmd/migrate` applies the file without
  `RevokeAuditLogWrites`. `priv` and `upd` show both; no property promises the seal.
* `Repo.Create` ignores a taken organization, so `tenant create` reports success for a
  tenant that was not registered. `SuccessIsTrue` claims the schema, not the row.
* Provisioning never applies the graph files; `cmd/migrate` does.
* A `CreateRole` beside an open migration file leaves that table without privileges
  (`TablesReachable` names the exception), and `CreateGraph` probes before it creates.

Gateway and pins:

* `handler.go:191` lists a 403 after the audit; the write coordinator's 403
  (`handler.go:330`) has no audit row. `DenialsAudited` names the exception.
* `handler.go:166-169` describes a check of the request's spec;
  `writecoordinator.go:158` compares the loaded metadata.
* A conflict is recognised by searching the whole text of the error
  (`polaris/adapter.go:431-440`), which also carries namespace, table, endpoint, port
  numbers and the upstream's body. Any failed call may therefore be answered 409, one
  that was applied and whose answer was lost too. `ErrorStatuses` leaves the choice open,
  and `AppliedPrefix` leaves the fate of the change that failed open on a 409.
* `audit.go:358-371` says that the authentication enforces a well-formed subject;
  `ExtractPrincipal` demands that it is not empty. A subject outside the allowlist makes
  `escapeCypher` panic, which nothing in the gateway recovers, so the request ends
  without an answer, after the forward if it was allowed. The same goes for a
  metadata location of the upstream. `EveryRequestAnswered` names the exception.
* `pin.go:294`, `pin_lru.go:13-15`: a cache hit returns a pin that has expired since.
* `pin.go:209-211`: a fill that an upsert overtook stays until the next
  invalidation (cause `overtaken` in `CacheCoherence`).
* `pin.go:5-6`, `198-199`: a pin re-used for another table keeps its first edge, and
  two upserts of one name for two tables hold different locks and may both create
  a node.

Policies and the SQL proxy:

* While an engine is suspended the proxy is said to answer 503 (`compiled.go:90-92`,
  `runbooks/divergence-clear.md:22-23`); a cache hit does not look at the node
  (`trino.go:137`), and `dremio.go:164-190` lacks the pass over suspended nodes that
  Trino and Spark make before they pick one.
* The proxy's cache is said to be evicted by NOTIFY (`sqlproxy/doc.go:21-24`,
  `runbooks/sql-proxy-deploy.md:209`) and to have a lifetime of five minutes (line 90 of
  the runbook). The code has neither, and `Cache.Invalidate` has no caller, so a hit
  serves a superseded or suspended artifact until the entry is evicted by another or
  the process restarts. `CachedSince` states the only bound there is.
* `compiled.go:96-99` wants human confirmation to leave `divergent_suspended`; a
  recompile overwrites the status with active.
* When several policies govern a table the first active node is spliced and the
  others are not (`trino.go:168-189`). Masks are not probed, and since CEL artifacts
  come back without their kind, the skip of `trino.go:179` never applies to them.
* A query whose FROM was rewritten for a pin is refused by the splice that follows,
  as a table alias (`splice.go:298-302`); `BuildInjector` wires no pin store
  (`builder.go:38-49`), so it does not happen in the server.
* `splice.go:40-43` says that malformed brackets are refused; a WHERE whose condition
  closes a bracket early and opens it again is not (`splice.go:739-742`). The brackets
  the splice adds then pair with those of the condition, the policy is conjoined to
  the last alternative only, and the rows of the earlier ones are not filtered.
  `FilterIsConjoined` is about conditions that are predicates by themselves, and
  says of the others what the splice yields (`LastAlternative`).
* `splice.go:315` says that set operations are refused; one after WHERE is accepted
  (`splice.go:315-318`) and ends up in the brackets of the condition, where an engine
  refuses it. A column asked for twice is masked in its last slot only
  (`splice.go:437-443`).
* `trigger.go:29-33`: the fallback poll is a stub; an edit missed while the
  connection was down is not recovered. The server's policy loader
  (`main.go:814`) is a stub that always fails, and its probe has no executors.

CEL facts:

* `classification_satisfied` and `manifest.partition_spec` read keys that the gateway's
  projection does not have (`functions.go:190-212`, `handler.go:451-519`), so the first is
  never true and the second always empty; `location.region` is always the empty string,
  and a negative policy on it allows.
* The claims are the first layer of an attribute, but `principalToMap` hands over none
  (`handler.go:537-575`).
* A graph outage, or a subject the Cypher allowlist refuses, makes the tenant default
  stand in for the caller's own attribute (`attribute.go:100-108`). `OwnAttributeWins` and
  `NeverFailsOpen` name the exception.
* `attribute.go:215-219` says one value that is no string is coerced; it makes the whole
  column unreadable (244-247).
* The resolver is given the context of the request, not the one with the 100 ms
  deadline (`eval.go:224-243`).

Credentials, keys, license and certificates:

* The key of the vending cache has no catalog (`cache.go:44-49`); `OwnCredentials` promises
  tenant, table and region. Nothing calls `Invalidate` (`cache.go:136-138`), and the half-life is
  counted from the fill.
* `batch_cache.go:116-123` promises one call per miss; a caller that saw an expired
  entry may remove the fresh one that replaced it. `OneKeyPerBatch` names it.
* `main.go:572` calls `kms.NewBatchCache(0, ...)`, which returns an error, so that boot
  fails; `initCommercialModules` and `initEnterpriseModules` get their `Deps` by value
  (`main_commercial.go:95`, `main_enterprise.go:128`), and what they set is lost.
* A reloaded license is not checked for its tier (`watcher.go:102-115`, unlike
  `main.go:280-283`).
* The certificate watcher ends for good when a file is missing at its start
  (`cert_watcher.go:94-99`, against 84-86 and 101-107), and a chain cut after the leaf
  loads as a whole one.

Detection and lineage:

* `poller.go:4-6`: "the poller catches the missed snapshots within 30 seconds". A hit of
  the poller names no table, its run gets a strategy label (`regex_scanner.go:158-162`)
  that the CHECK of `detection_runs` refuses, and nothing is recorded.
* Hits in the in-memory channel are lost on restart although their SQS message is
  deleted; a malformed SQS message is never deleted.
* `ingest/lineage.go:10-12`: "a concurrent writer cannot sneak a cycle past us". The
  lock is on the source, and the edges of a cycle have different sources, so it
  never excludes the race; `cycle_sweep.go:11-17` admits it, and `CyclesNeedARace`
  states what is left.
* `cycle_sweep.go:5-9` says that the sweep finds the cycles of six and more hops that
  the check misses; its query walks `*1..5` (lines 74-77), and nothing starts it.
* `lineage/http/handler.go:22-23`: "event is durably persisted"; the inbox keeps the
  first event of a run, so COMPLETE after START is not stored. Nothing reads the
  inbox.
* An event whose datasets have no node is answered 202 and merges nothing;
  `AnswersAreTrue` names the exception.
* `lineage.go:45-46`: the path shown with a refused edge follows any successor of each
  node, so it can name edges that do not exist.
* Snapshot nodes are merged by the gateway's audit, its ingest and the detection
  emission without a lock or a unique index, so duplicates are possible.

## 7. Modelling decisions

* `Wellformed`: a commit names a version the client has read. It is an assumption
  about clients, used by the proofs through `Versions`.
* `ConvertsUpdates` is FALSE for the four shipped adapters, which refuse a commit
  with requirements or updates they do not convert, and TRUE for an injected
  adapter that converts them. The runs use TRUE, in which more can happen; the
  theorems cover both.
* A cache hit of `ActivePinsForTable` returns the entry and changes nothing, so it
  is no action. `RecordQueryRead` (`pin.go:403-461`) is not modelled.
* DETACH DELETE and a concurrent update of the same node wait for one another (row
  lock). This is how Apache AGE's tables behave under READ COMMITTED.
* Tenant creation is the initial state of `TenantLifecycle`. `ManualDropPoolB` assumes of
  the operator what the runbook means by a partial schema: the tenant is not on Pool
  B, and no migration is past its restore. A restore may succeed in the model although
  the plain-text dump is refused (section 6), so that what follows it is checked.
* `Persist` writes one node per policy and engine. The MERGE of `compiled.go:218-230` has
  neither a lock nor a unique index, so two replicas may create the node twice; a
  later MERGE then sets both. `Governs` is a constant: an edit that moves a policy to
  another table would leave its old `APPLIES_TO` edge (`compiled.go:245-251`), and the key of
  the artifact cache has no table (`lru.go:43-48`). Neither is modelled.
* `DetectionDispatch` has one tenant. The key of the seen map is the metadata location
  alone (`pool.go:235`) while runs are kept per tenant, so one location reported for two
  tenants would be scanned for the first only.
* The pass of `cmd/migrate` over the public schema is part of `MigrateAll`'s start, and its
  failure is `Killed`.
* The poller's choice of locations is left open, which covers every schedule and
  every catalog. SQS messages start visible. An hourly eviction of the seen map
  does not forget a location that is being scanned: no scan takes a day.
* `Decide` is a constant operator: a CEL program is deterministic and depends on the
  metadata and the change only.
* A text is a sequence of symbols, so the character loops of the scanners are one step
  per symbol; upper and lower case, blanks and comments are not told apart.
* A CEL policy is one call of a registered function, compared with a constant where
  it returns a string; a regular expression is the set of names it matches.
* A license signature is valid or not, a file is a generation and a degree of
  completeness; a data key is a number.
* A database session that is killed rolls its transaction back and frees its lock at
  once.
* Expired pins served from the cache (`pin.go:319`) have no property: the code looks at
  no expiry on a hit and nothing bounds how long it does, so there is nothing to
  state but the disagreement noted in section 6.
* Not modelled: what is pure text or third-party protocol (Cypher building, EXPLAIN
  parsing, token verification, the session policy of STS), outbound I/O (Slack,
  billing, metrics), the regular expressions of the classifier and process wiring.
  `PROJECT.json` lists each component with its reason.

## 8. Plan

Done: the modules of section 2 and the proofs of section 5. The definitions cover
about a third of the code of the implementation. What carries logic and is left:

1. The rest of ingest: the cycle sweep beside `LineageIngest` (what it reports, given
   what it walks), and the duplicate Snapshot nodes of three unlocked writers.
2. The Nessie, Unity and Glue adapters one by one, with their own classification of
   errors, in place of the common one of `CatalogGateway`.
3. The admin paths that write policies and engines, composed with
   `PolicyEnforcement`; `RecordQueryRead` beside `SnapshotPins`.
4. The composition of `Provisioning` and `TenantLifecycle`: a migration of files
   beside a move between pools.

Theorems: a lemma that the safety of `VSpec`, `KSpec`, `HSpec` and `FSpec` carries over to the `Spec` of
`NeksurServer`, as soon as the union no longer reaches the recursive SQL operators.
