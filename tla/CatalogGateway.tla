--------------------------- MODULE CatalogGateway ---------------------------
(***************************************************************************)
(* The commit path of the L1 catalog gateway (internal/gateway/iceberg):   *)
(* CommitHandler (one table) and MultiTableCommitHandler (a transaction    *)
(* over several tables), with the write-coordinator hook, the policy       *)
(* fetch and evaluation, the forward to the upstream Iceberg catalog, the  *)
(* audit transaction and the snapshot ingest.                              *)
(*                                                                         *)
(* Every call a handler makes that can fail or that other actors can race  *)
(* with is a step of its own, so requests interleave with one another and  *)
(* with the environment: engines that commit to the catalog without the    *)
(* gateway, administrators that bind policies to tables or activate        *)
(* another partition spec.  A cancelled request context makes the          *)
(* remaining calls fail, which is the failure branch of each step.         *)
(*                                                                         *)
(* Data is abstracted to what decides a commit: table metadata is a        *)
(* version and a partition spec, a commit is the version it requires (or   *)
(* none) and the spec it sets (or none), and a CEL program is the constant *)
(* Decide.                                                                 *)
(***************************************************************************)
EXTENDS Integers

CONSTANTS
    Requests,         \* identities of the HTTP requests
    Tables,           \* tables of the upstream catalog
    Policies,         \* policies of the policy store
    Specs,            \* partition spec ids, positive
    Engines,          \* engine kinds detectEngineKind tells apart
    MaxRefs,          \* bound: table-changes of one transaction
    MaxVersion,       \* bound: metadata versions of one table
    SpecStore,        \* is Deps.PartitionSpecStore wired?
    ConflictStore,    \* is Deps.WriteConflictStore wired?
    ConvertsUpdates,  \* does the adapter convert requirements and updates?
    UnsafeLocations,  \* tables whose metadata location the Cypher allowlist refuses
    Decide(_, _, _)   \* outcome of a policy on metadata and a change

ASSUME SpecsAssumption == Specs \subseteq Nat \ {0}
ASSUME EnginesAssumption == Engines \subseteq {"trino", "dremio", "spark", ""}
ASSUME MaxRefsAssumption == MaxRefs \in Nat \ {0}
ASSUME MaxVersionAssumption == MaxVersion \in Nat
ASSUME FlagsAssumption == {SpecStore, ConflictStore, ConvertsUpdates} \subseteq BOOLEAN
ASSUME LocationsAssumption == UnsafeLocations \subseteq Tables

NoBase   == -1      \* the change carries no requirement
KeepSpec == 0       \* the change sets no partition spec
NoSpec   == 0       \* SpecID 0: the spec store has no record for the table

Meta   == [ver : Nat, spec : Specs]
NoMeta == [ver |-> -1, spec |-> NoSpec]

Change == [ref : Tables, base : NoBase .. MaxVersion, spec : Specs \cup {KeepSpec}]

\* sub is the caller's subject: does it pass the Cypher allowlist?
RequestOf(n) == [kind : {"single", "multi"}, engine : Engines, sub : {"safe", "unsafe"},
                 n : {n}, changes : [1 .. n -> Change]]
Request == UNION {RequestOf(n) : n \in 1 .. MaxRefs}
NoRequest == [kind |-> "none", engine |-> "", sub |-> "safe", n |-> 0, changes |-> << >>]

Statuses == {200, 400, 401, 403, 404, 405, 409, 500, 502, 503}
NoStatus == 0

VARIABLES
    catalog,   \* upstream: the current metadata of each table
    bound,     \* policy store: the policies bound to each table
    active,    \* spec store: the active partition spec of each table
    req,       \* the decoded request
    pc,        \* the call the handler is about to make
    pos,       \* index of the table-change the loop is at
    meta,      \* metadata loaded for each table-change
    loaded,    \* policies loaded for each table-change
    todo,      \* loaded policies of the current change not yet evaluated
    hookSpec,  \* active spec the write-coordinator read
    status,    \* HTTP status written, or NoStatus
    applied,   \* changes the upstream accepted, with the metadata they replaced
    audit,     \* durable WriteEvent + audit_log rows
    ingested   \* snapshots merged by the post-commit ingest

env  == << catalog, bound, active >>
vars == << catalog, bound, active, req, pc, pos, meta, loaded, todo,
           hookSpec, status, applied, audit, ingested >>

Steps == {"idle", "creds", "load", "hook", "fetch", "eval", "reject",
          "forward", "audit", "ingest", "done"}

Positions == 1 .. MaxRefs

Init ==
    /\ catalog \in [Tables -> [ver : {0}, spec : Specs]]
    /\ bound \in [Tables -> SUBSET Policies]
    /\ active = [t \in Tables |-> NoSpec]
    /\ req = [r \in Requests |-> NoRequest]
    /\ pc = [r \in Requests |-> "idle"]
    /\ pos = [r \in Requests |-> 1]
    /\ meta = [r \in Requests |-> [i \in Positions |-> NoMeta]]
    /\ loaded = [r \in Requests |-> [i \in Positions |-> {}]]
    /\ todo = [r \in Requests |-> {}]
    /\ hookSpec = [r \in Requests |-> NoSpec]
    /\ status = [r \in Requests |-> NoStatus]
    /\ applied = {}
    /\ audit = {}
    /\ ingested = {}

----------------------------------------------------------------------------
(* Helpers *)

ChangeOf(r) == req[r].changes[pos[r]]

\* Mutant: http.Error without the return that must follow it.
RespondWithoutReturn(r, code) ==
    /\ status' = [status EXCEPT ![r] = code]
    /\ UNCHANGED pc

\* The handler writes the status line and returns.
Respond(r, code) ==
    /\ status' = [status EXCEPT ![r] = code]
    /\ pc' = [pc EXCEPT ![r] = "done"]

Goto(r, step) ==
    /\ pc' = [pc EXCEPT ![r] = step]
    /\ UNCHANGED status

\* A transaction's own effect, left alone by every step but the named ones.
Ledgers == << applied, audit, ingested >>

\* The commit names a version the client has read, so one that exists already.
Wellformed(q) ==
    /\ q.kind = "single" => q.n = 1
    /\ \A i \in 1 .. q.n : q.changes[i].base <= catalog[q.changes[i].ref].ver

----------------------------------------------------------------------------
(* Request intake *)

\* A request passes the local gates: method, tenant context, identifiers,
\* principal, body cap, JSON body, at least one table-change.
Arrive(r, q) ==
    /\ pc[r] = "idle"
    /\ Wellformed(q)
    /\ req' = [req EXCEPT ![r] = q]
    /\ Goto(r, "creds")
    /\ UNCHANGED << env, pos, meta, loaded, todo, hookSpec, Ledgers >>

\* One of those gates refuses the request before any call is made.
RefuseAtGate(r) ==
    /\ pc[r] = "idle"
    /\ \E code \in {400, 401, 405, 500} : Respond(r, code)
    /\ UNCHANGED << env, req, pos, meta, loaded, todo, hookSpec, Ledgers >>

\* GetCatalogCredentials and adapterFor.
ResolveAdapter(r) ==
    /\ pc[r] = "creds"
    /\ \/ Goto(r, "load")
       \/ \E code \in {404, 500} : Respond(r, code)
    /\ UNCHANGED << env, req, pos, meta, loaded, todo, hookSpec, Ledgers >>

----------------------------------------------------------------------------
(* Metadata load and the write-coordinator hook *)

\* Only the single-table handler runs the hook, and only when a store is wired.
AfterLoad(r) ==
    IF req[r].kind = "single" /\ (SpecStore \/ ConflictStore) THEN "hook" ELSE "fetch"

LoadTable(r) ==
    /\ pc[r] = "load"
    /\ \/ /\ meta' = [meta EXCEPT ![r][pos[r]] = catalog[ChangeOf(r).ref]]
          /\ Goto(r, AfterLoad(r))
       \/ /\ \E code \in {404, 401, 502} : Respond(r, code)
          /\ UNCHANGED meta
       \/ \* the identifiers of a later table-change are checked in the loop
          /\ req[r].kind = "multi"
          /\ Respond(r, 400)
          /\ UNCHANGED meta
    /\ UNCHANGED << env, req, pos, loaded, todo, hookSpec, Ledgers >>

specMatches(commitSpec, activeSpec) ==
    activeSpec = NoSpec \/ commitSpec = activeSpec

Coordinated(r) == req[r].engine \in {"trino", "dremio"}

\* Mutant: the mismatch is noticed and not acted upon.
WriteCoordinatorIgnoresMismatch(r) ==
    /\ pc[r] = "hook"
    /\ Goto(r, "fetch")
    /\ hookSpec' = [hookSpec EXCEPT ![r] = active[ChangeOf(r).ref]]
    /\ UNCHANGED << env, req, pos, meta, loaded, todo, Ledgers >>

\* The spec compared with the active one is that of the metadata just loaded.
WriteCoordinatorPreCommit(r) ==
    /\ pc[r] = "hook"
    /\ \/ \* another engine, or the stores answer and the specs agree
          /\ Coordinated(r) /\ SpecStore =>
                specMatches(meta[r][pos[r]].spec, active[ChangeOf(r).ref])
          /\ Goto(r, "fetch")
       \/ /\ Coordinated(r) /\ SpecStore
          /\ ~ specMatches(meta[r][pos[r]].spec, active[ChangeOf(r).ref])
          /\ Respond(r, 403)
       \/ \* a store fails: fail closed
          /\ Coordinated(r)
          /\ Respond(r, 503)
    /\ hookSpec' = IF Coordinated(r) /\ SpecStore
                   THEN [hookSpec EXCEPT ![r] = active[ChangeOf(r).ref]]
                   ELSE hookSpec
    /\ UNCHANGED << env, req, pos, meta, loaded, todo, Ledgers >>

----------------------------------------------------------------------------
(* Policy gate *)

LoadPoliciesForTable(r) ==
    /\ pc[r] = "fetch"
    /\ \/ /\ loaded' = [loaded EXCEPT ![r][pos[r]] = bound[ChangeOf(r).ref]]
          /\ todo' = [todo EXCEPT ![r] = bound[ChangeOf(r).ref]]
          /\ Goto(r, "eval")
       \/ /\ Respond(r, 503)
          /\ UNCHANGED << loaded, todo >>
    /\ UNCHANGED << env, req, pos, meta, hookSpec, Ledgers >>

Verdict(r, p) == Decide(p, meta[r][pos[r]], ChangeOf(r))

\* One iteration of the loop over the loaded policies.
Evaluate(r) ==
    /\ pc[r] = "eval"
    /\ \E p \in todo[r] :
          \/ /\ Verdict(r, p) = "allow"
             /\ todo' = [todo EXCEPT ![r] = @ \ {p}]
             /\ Goto(r, "eval")
          \/ /\ Verdict(r, p) = "deny"
             /\ UNCHANGED todo
             /\ Goto(r, "reject")
          \/ \* compile error, 100 ms timeout, panic or non-boolean result
             /\ UNCHANGED todo
             /\ Respond(r, 503)
    /\ UNCHANGED << env, req, pos, meta, loaded, hookSpec, Ledgers >>

\* Mutant: the forwards start when the first change is approved.
ApproveFirstRefOnly(r) ==
    /\ pc[r] = "eval"
    /\ todo[r] = {}
    /\ Goto(r, "forward")
    /\ UNCHANGED << env, req, pos, meta, loaded, todo, hookSpec, Ledgers >>

\* Mutant: the loop over the changes does not advance.
ApproveSameRefAgain(r) ==
    /\ pc[r] = "eval"
    /\ todo[r] = {}
    /\ IF pos[r] < req[r].n THEN Goto(r, "load") ELSE Goto(r, "forward")
    /\ UNCHANGED << env, req, pos, meta, loaded, todo, hookSpec, Ledgers >>

\* Mutant: off by one, the loop runs past the last change.
ApproveRefPastEnd(r) ==
    /\ pc[r] = "eval"
    /\ todo[r] = {}
    /\ IF pos[r] <= req[r].n
       THEN pos' = [pos EXCEPT ![r] = @ + 1] /\ Goto(r, "load")
       ELSE pos' = [pos EXCEPT ![r] = 1] /\ Goto(r, "forward")
    /\ UNCHANGED << env, req, meta, loaded, todo, hookSpec, Ledgers >>

\* Every policy allowed the change: on to the next one, or to the forwards.
ApproveRef(r) ==
    /\ pc[r] = "eval"
    /\ todo[r] = {}
    /\ IF pos[r] < req[r].n
       THEN pos' = [pos EXCEPT ![r] = @ + 1] /\ Goto(r, "load")
       ELSE pos' = [pos EXCEPT ![r] = 1] /\ Goto(r, "forward")
    /\ UNCHANGED << env, req, meta, loaded, todo, hookSpec, Ledgers >>

AuditRow(r, decision) == [req |-> r, pos |-> pos[r], decision |-> decision]

\* escapeCypher meets a character the allowlist refuses: in the subject, or in
\* the new metadata location, which only an APPROVED row names.
Unsafe(r, decision) ==
    \/ req[r].sub = "unsafe"
    \/ decision = "APPROVED" /\ ChangeOf(r).ref \in UnsafeLocations

Emissions == {"ok", "error", "panic"}

\* ExecuteInTenant commits the transaction or not, and reports failure either
\* way: the session reset on release can fail after a successful COMMIT.  An
\* unsafe literal panics inside the transaction, unless a call failed earlier.
EmitWriteEvent(r, decision, result) ==
    \/ /\ result = "ok" /\ ~ Unsafe(r, decision)
       /\ audit' = audit \cup {AuditRow(r, decision)}
    \/ /\ result = "error"
       /\ \/ UNCHANGED audit
          \/ ~ Unsafe(r, decision) /\ audit' = audit \cup {AuditRow(r, decision)}
    \/ /\ result = "panic" /\ Unsafe(r, decision)
       /\ UNCHANGED audit

\* Mutant: the denial is answered whether or not it was audited.
RejectBestEffort(r) ==
    /\ pc[r] = "reject"
    /\ \E result \in Emissions : EmitWriteEvent(r, "REJECTED", result)
    /\ Respond(r, 403)
    /\ UNCHANGED << env, req, pos, meta, loaded, todo, hookSpec, applied, ingested >>

\* A denial is answered 403 only if its audit row was reported durable.  A
\* panic reaches net/http, which closes the connection: there is no answer.
RejectDenied(r) ==
    /\ pc[r] = "reject"
    /\ \E result \in Emissions :
          /\ EmitWriteEvent(r, "REJECTED", result)
          /\ \/ result = "ok" /\ Respond(r, 403)
             \/ result = "error" /\ Respond(r, 503)
             \/ result = "panic" /\ Goto(r, "done")
    /\ UNCHANGED << env, req, pos, meta, loaded, todo, hookSpec, applied, ingested >>

----------------------------------------------------------------------------
(* Forward, audit, ingest *)

\* Mutant: the requirement of the commit is dropped on the way upstream.
ApplyUnguarded(r) ==
    LET c == ChangeOf(r) IN
    /\ catalog[c.ref].ver < MaxVersion
    /\ catalog' = [catalog EXCEPT ![c.ref] =
           [ver  |-> @.ver + 1,
            spec |-> IF c.spec = KeepSpec THEN @.spec ELSE c.spec]]
    /\ applied' = applied \cup {[req |-> r, pos |-> pos[r], prev |-> catalog[c.ref]]}

\* The upstream catalog replaces the metadata of the table.
Apply(r) ==
    LET c == ChangeOf(r) IN
    /\ catalog[c.ref].ver < MaxVersion
    /\ c.base \in {NoBase, catalog[c.ref].ver}
    /\ catalog' = [catalog EXCEPT ![c.ref] =
           [ver  |-> @.ver + 1,
            spec |-> IF c.spec = KeepSpec THEN @.spec ELSE c.spec]]
    /\ applied' = applied \cup {[req |-> r, pos |-> pos[r], prev |-> catalog[c.ref]]}

\* The four shipped adapters refuse any requirement or update.
Convertible(c) == ConvertsUpdates \/ (c.base = NoBase /\ c.spec = KeepSpec)

\* IsCommitConflict searches the whole error text for "409" and "Conflict":
\* names, endpoint, ports and the upstream's body can hold either, whatever
\* happened.  The error of a conversion is not searched.
ErrorStatuses(c) == IF Convertible(c) THEN {409, 502} ELSE {502}

\* Mutant: an upstream error is logged and the request goes on.
CommitTableErrorIgnored(r) ==
    /\ pc[r] = "forward"
    /\ \/ Apply(r)
       \/ UNCHANGED << catalog, applied >>
    /\ Goto(r, "audit")
    /\ UNCHANGED << bound, active, req, pos, meta, loaded, todo, hookSpec,
                    audit, ingested >>

CommitTable(r) ==
    LET c == ChangeOf(r) IN
    /\ pc[r] = "forward"
    /\ \/ \* accepted
          /\ Convertible(c)
          /\ Apply(r)
          /\ Goto(r, "audit")
       \/ \* the requirement does not hold
          /\ Convertible(c)
          /\ c.base \notin {NoBase, catalog[c.ref].ver}
          /\ Respond(r, 409)
          /\ UNCHANGED << catalog, applied >>
       \/ \* the call fails, and so does the conversion
          /\ \E code \in ErrorStatuses(c) : Respond(r, code)
          /\ UNCHANGED << catalog, applied >>
       \/ \* the upstream accepts and the answer is lost
          /\ Convertible(c)
          /\ Apply(r)
          /\ \E code \in ErrorStatuses(c) : Respond(r, code)
    /\ UNCHANGED << bound, active, req, pos, meta, loaded, todo, hookSpec,
                    audit, ingested >>

\* Mutant: a failed APPROVED audit fails the request, as a REJECTED one does.
AuditApprovedFatal(r) ==
    /\ pc[r] = "audit"
    /\ \E result \in Emissions :
          /\ EmitWriteEvent(r, "APPROVED", result)
          /\ IF result = "ok" THEN Goto(r, "ingest") ELSE Respond(r, 503)
    /\ UNCHANGED << env, req, pos, meta, loaded, todo, hookSpec, applied, ingested >>

\* The APPROVED row is best effort: a failure is logged and the request goes
\* on; a panic ends it, after the upstream accepted and without an answer.
AuditApproved(r) ==
    /\ pc[r] = "audit"
    /\ \E result \in Emissions :
          /\ EmitWriteEvent(r, "APPROVED", result)
          /\ Goto(r, IF result = "panic" THEN "done" ELSE "ingest")
    /\ UNCHANGED << env, req, pos, meta, loaded, todo, hookSpec, applied, ingested >>

\* Mutant: the answer is sent after the first change.
IngestThenAnswer(r) ==
    /\ pc[r] = "ingest"
    /\ ingested' \in {ingested, ingested \cup {[req |-> r, pos |-> pos[r]]}}
    /\ UNCHANGED pos
    /\ Respond(r, 200)
    /\ UNCHANGED << env, req, meta, loaded, todo, hookSpec, applied, audit >>

\* MergeSnapshot is best effort too, skipped without a metadata location, and
\* returns an error for an unsafe one.
IngestSnapshot(r) ==
    /\ pc[r] = "ingest"
    /\ \/ UNCHANGED ingested
       \/ /\ ChangeOf(r).ref \notin UnsafeLocations
          /\ ingested' = ingested \cup {[req |-> r, pos |-> pos[r]]}
    /\ IF pos[r] < req[r].n
       THEN pos' = [pos EXCEPT ![r] = @ + 1] /\ Goto(r, "forward")
       ELSE UNCHANGED pos /\ Respond(r, 200)
    /\ UNCHANGED << env, req, meta, loaded, todo, hookSpec, applied, audit >>

----------------------------------------------------------------------------
(* Environment *)

\* An engine commits to the catalog without going through the gateway.
BypassCommit(t) ==
    /\ catalog[t].ver < MaxVersion
    /\ \E s \in Specs : catalog' = [catalog EXCEPT ![t] = [ver |-> @.ver + 1, spec |-> s]]
    /\ UNCHANGED << bound, active, req, pc, pos, meta, loaded, todo, hookSpec,
                    status, Ledgers >>

\* An administrator binds a policy to a table or unbinds it.
ChangePolicy(t, p) ==
    /\ bound' = [bound EXCEPT ![t] = IF p \in @ THEN @ \ {p} ELSE @ \cup {p}]
    /\ UNCHANGED << catalog, active, req, pc, pos, meta, loaded, todo, hookSpec,
                    status, Ledgers >>

\* The enterprise store activates another partition spec.
ActivateSpec(t, s) ==
    /\ SpecStore
    /\ active' = [active EXCEPT ![t] = s]
    /\ UNCHANGED << catalog, bound, req, pc, pos, meta, loaded, todo, hookSpec,
                    status, Ledgers >>

HandlerStep(r) ==
    \/ ResolveAdapter(r)
    \/ LoadTable(r)
    \/ WriteCoordinatorPreCommit(r)
    \/ LoadPoliciesForTable(r)
    \/ Evaluate(r)
    \/ ApproveRef(r)
    \/ RejectDenied(r)
    \/ CommitTable(r)
    \/ AuditApproved(r)
    \/ IngestSnapshot(r)

Next ==
    \/ \E r \in Requests :
          \/ \E q \in Request : Arrive(r, q)
          \/ RefuseAtGate(r)
          \/ HandlerStep(r)
    \/ \E t \in Tables :
          \/ BypassCommit(t)
          \/ \E p \in Policies : ChangePolicy(t, p)
          \/ \E s \in Specs : ActivateSpec(t, s)

Spec == Init /\ [][Next]_vars

\* Each call of a handler returns: with an answer, an error, or the
\* cancellation of the request context.
Fairness == \A r \in Requests : WF_vars(HandlerStep(r))

FairSpec == Spec /\ Fairness

----------------------------------------------------------------------------
(* Properties *)

\* Every variable has its type; CommitRequest, Decision and the audit rows
\* keep the shapes of handler.go and audit.go.
TypeOK ==
    /\ catalog \in [Tables -> Meta]
    /\ bound \in [Tables -> SUBSET Policies]
    /\ active \in [Tables -> Specs \cup {NoSpec}]
    /\ req \in [Requests -> Request \cup {NoRequest}]
    /\ pc \in [Requests -> Steps]
    /\ pos \in [Requests -> Positions]
    /\ meta \in [Requests -> [Positions -> Meta \cup {NoMeta}]]
    /\ loaded \in [Requests -> [Positions -> SUBSET Policies]]
    /\ todo \in [Requests -> SUBSET Policies]
    /\ hookSpec \in [Requests -> Specs \cup {NoSpec}]
    /\ status \in [Requests -> Statuses \cup {NoStatus}]
    /\ applied \subseteq [req : Requests, pos : Positions, prev : Meta]
    /\ audit \subseteq [req : Requests, pos : Positions, decision : {"APPROVED", "REJECTED"}]
    /\ ingested \subseteq [req : Requests, pos : Positions]

AppliedBy(r) == {e.pos : e \in {x \in applied : x.req = r}}

\* Reject-all (multi_table.go, step 3): once any change of a transaction has
\* reached the upstream, every policy loaded for every change of that
\* transaction has allowed it, on the metadata loaded for that change.
RejectAll ==
    \A e \in applied : \A i \in 1 .. req[e.req].n :
        /\ meta[e.req][i] # NoMeta
        /\ \A p \in loaded[e.req][i] :
              Decide(p, meta[e.req][i], req[e.req].changes[i]) = "allow"

\* Fail closed (D-1.09): a request that is refused by a gate, by the
\* write-coordinator, by a policy or because the policy engine or the REJECTED
\* audit is unavailable has left no trace in the upstream catalog.
FailClosed ==
    \A e \in applied : status[e.req] \in {NoStatus, 200, 409, 502}

\* The audit trail and the snapshot graph never claim more than happened: an
\* APPROVED row and an ingested snapshot stand for a change the upstream
\* accepted, and a request with a REJECTED row has changed nothing upstream.
AuditTruthful ==
    /\ \A a \in audit :
          IF a.decision = "APPROVED" THEN a.pos \in AppliedBy(a.req)
                                     ELSE AppliedBy(a.req) = {}
    /\ \A g \in ingested : g.pos \in AppliedBy(g.req)

\* CR-05: a denial is answered 403 only with its REJECTED row durable.  The
\* other 403, the partition spec mismatch, has a row in no table.
DenialsAudited ==
    \A r \in Requests :
        status[r] = 403 =>
            \/ AuditRow(r, "REJECTED") \in audit
            \/ SpecStore /\ ~ specMatches(meta[r][pos[r]].spec, hookSpec[r])

\* Independent upstream commits: what the upstream accepted of a transaction
\* is an initial segment of it, and all of it when the answer is 200.  A 409
\* tells all but the fate of the change that failed, since a lost answer can
\* read like a conflict; a handler that panicked after a commit has every
\* change up to that one upstream, and none if it was writing a denial.
AppliedPrefix ==
    \A r \in Requests :
        /\ \A i \in AppliedBy(r) : 1 .. i \subseteq AppliedBy(r)
        /\ status[r] = 200 => AppliedBy(r) = 1 .. req[r].n
        /\ status[r] = 409 => AppliedBy(r) \in {1 .. (pos[r] - 1), 1 .. pos[r]}
        /\ pc[r] = "done" /\ status[r] = NoStatus => AppliedBy(r) \in {{}, 1 .. pos[r]}

\* No lock is held between LoadTable and CommitTable; a requirement on the
\* table version closes the window: such a commit is applied to the very
\* metadata the policies were evaluated on.
GuardedOnEvaluated ==
    \A e \in applied :
        req[e.req].changes[e.pos].base # NoBase => e.prev = meta[e.req][e.pos]

\* With the spec store wired, a Trino or Dremio commit that carries a version
\* requirement is applied only on top of metadata whose partition spec was the
\* active one when the write-coordinator ran.
ActiveSpecRespected ==
    \A e \in applied :
        /\ SpecStore /\ Coordinated(e.req) /\ req[e.req].kind = "single"
        /\ req[e.req].changes[e.pos].base # NoBase
        => specMatches(e.prev.spec, hookSpec[e.req])

\* The return of the handler ends the request, with an answer or by a panic:
\* afterwards its status, its upstream changes and its audit rows stay.
AnsweredIsFinal ==
    [][\A r \in Requests : pc[r] = "done" \/ status[r] # NoStatus =>
          /\ status'[r] = status[r]
          /\ AppliedBy(r)' = AppliedBy(r)
          /\ {a \in audit' : a.req = r} = {a \in audit : a.req = r}]_vars

\* No text of the request makes escapeCypher panic.
SafeTexts(r) ==
    /\ req[r].sub = "safe"
    /\ \A i \in 1 .. req[r].n : req[r].changes[i].ref \notin UnsafeLocations

\* Every request the gateway starts to serve ends, however other requests,
\* bypass commits and policy changes interleave with it, and ends with an
\* answer unless its subject or a metadata location made the audit panic.
EveryRequestAnswered ==
    \A r \in Requests :
        /\ (pc[r] = "creds") ~> (pc[r] = "done")
        /\ (pc[r] = "creds" /\ SafeTexts(r)) ~> (status[r] # NoStatus)

\* One answer: a request the gateway starts to serve is answered in the end,
\* an unsafe text aside, and nothing it wrote or answered changes after that.
AnsweredOnce == AnsweredIsFinal /\ EveryRequestAnswered

=============================================================================
