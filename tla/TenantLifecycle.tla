-------------------------- MODULE TenantLifecycle --------------------------
(***************************************************************************)
(* One row of public.tenants and the operations on it (internal/tenant):   *)
(* the lifecycle transitions Suspend, WindDown and Delete, and the         *)
(* orchestrated move of a tenant from Pool A to Pool B, run by concurrent  *)
(* operator sessions while the gateway serves commits of the tenant.       *)
(*                                                                         *)
(* Every database transaction and every external command of an operation   *)
(* is one step; between two of them other sessions and the gateway run,    *)
(* and a session may fail or crash.  A commit of the tenant is the set of  *)
(* rows its audit transaction adds, identified by the request.             *)
(***************************************************************************)
EXTENDS Naturals, FiniteSets

CONSTANTS
    Sessions,    \* operator sessions (neksur-cli, scripts)
    Requests,    \* commit requests of the tenant's engines
    DataTables   \* tables of the tenant schema that are counted

ASSUME DataTablesAssumption == IsFiniteSet(DataTables) /\ DataTables # {}
ASSUME RequestsAssumption == IsFiniteSet(Requests)

States == {"active", "suspended", "wind_down", "deleted"}
Pools  == {"A", "B"}

VARIABLES
    lifecycle_state,  \* public.tenants.lifecycle_state
    pool,             \* public.tenants.pool (connection_dsn goes with it)
    lastEvent,        \* newest lifecycle row of public.system_audit_log
    schemas,          \* pools that hold the schema tenant_<uuid>
    rows,             \* rows of that schema in each pool, by request
    session,          \* what each operator session is doing
    request,          \* what each commit request is doing
    movedFrom,        \* history: base of the migration that flipped the pool
    causes            \* history: why a live tenant may lack its Pool A schema

vars == << lifecycle_state, pool, lastEvent, schemas, rows, session, request,
           movedFrom, causes >>

\* base is history: the rows of Pool A when the migration suspended the tenant.
Idle == [op |-> "none", base |-> {}, dump |-> {}, checked |-> {}]
SessionState == [op : {"none", "drop", "dump", "restore", "validate", "flip",
                       "resume", "audit", "rollback"},
                 base : SUBSET Requests, dump : SUBSET Requests,
                 checked : SUBSET DataTables]

RequestState == {"new", "admitted", "written", "failed"}

Init ==
    /\ lifecycle_state = "active"
    /\ pool = "A"
    /\ lastEvent = "none"
    /\ schemas = {"A"}
    /\ rows = [p \in Pools |-> {}]
    /\ session = [s \in Sessions |-> Idle]
    /\ request = [q \in Requests |-> "new"]
    /\ movedFrom = {}
    /\ causes = {}

----------------------------------------------------------------------------
(* Lifecycle transitions *)

\* Mutant: the audit row is written after the commit, and may be lost.
TransitionThenAudit(newState, fromStates) ==
    /\ lifecycle_state \in fromStates
    /\ lifecycle_state' = newState
    /\ lastEvent' \in {lastEvent, newState}

\* Mutant: the UPDATE has no condition on the present state.
TransitionUnguarded(newState, fromStates) ==
    /\ lifecycle_state' = newState
    /\ lastEvent' = newState

\* One conditional UPDATE and one audit row in the same transaction.  Outside
\* fromStates the call returns ErrTenantNotFound and changes nothing.
transitionLifecycle(newState, fromStates) ==
    /\ lifecycle_state \in fromStates
    /\ lifecycle_state' = newState
    /\ lastEvent' = newState

Suspend(s) ==
    /\ session[s].op = "none"
    /\ transitionLifecycle("suspended", {"active"})
    /\ UNCHANGED << pool, schemas, rows, session, request, movedFrom, causes >>

WindDown(s) ==
    /\ session[s].op = "none"
    /\ transitionLifecycle("wind_down", {"active", "suspended"})
    /\ UNCHANGED << pool, schemas, rows, session, request, movedFrom, causes >>

\* Mutant: the schema is dropped before the state is changed.
DeleteDropsFirst(s) ==
    /\ session[s].op = "none"
    /\ lifecycle_state \in {"active", "suspended", "wind_down"}
    /\ schemas' = schemas \ {"A"}
    /\ rows' = [rows EXCEPT !["A"] = {}]
    /\ session' = [session EXCEPT ![s].op = "drop"]
    /\ UNCHANGED << lifecycle_state, pool, lastEvent, request, movedFrom, causes >>

\* Delete, first transaction.
DeleteTransition(s) ==
    /\ session[s].op = "none"
    /\ transitionLifecycle("deleted", {"active", "suspended", "wind_down"})
    /\ session' = [session EXCEPT ![s].op = "drop"]
    /\ UNCHANGED << pool, schemas, rows, request, movedFrom, causes >>

\* Delete, second transaction: drop_graph on the pool the process is
\* connected to.  A missing graph is not an error.
DeleteDrop(s) ==
    /\ session[s].op = "drop"
    /\ schemas' = schemas \ {"A"}
    /\ rows' = [rows EXCEPT !["A"] = {}]
    /\ session' = [session EXCEPT ![s] = Idle]
    /\ UNCHANGED << lifecycle_state, pool, lastEvent, request, movedFrom, causes >>

\* A step of an operation fails, or its process dies: the session ends.
Abort(s) ==
    /\ session[s].op # "none"
    /\ session' = [session EXCEPT ![s] = Idle]
    /\ UNCHANGED << lifecycle_state, pool, lastEvent, schemas, rows, request, movedFrom, causes >>

----------------------------------------------------------------------------
(* MigratePoolAToB *)

MigrateSuspend(s) ==
    /\ session[s].op = "none"
    /\ transitionLifecycle("suspended", {"active"})
    /\ session' = [session EXCEPT ![s].op = "dump", ![s].base = rows["A"]]
    /\ UNCHANGED << pool, schemas, rows, request, movedFrom, causes >>

\* pg_dump reads one consistent snapshot of the schema.
pgDump(s) ==
    /\ session[s].op = "dump"
    /\ "A" \in schemas
    /\ session' = [session EXCEPT ![s].op = "restore", ![s].dump = rows["A"]]
    /\ UNCHANGED << lifecycle_state, pool, lastEvent, schemas, rows, request, movedFrom, causes >>

\* pg_restore into a pool without the schema; a failure leaves part of it.
pgRestore(s) ==
    /\ session[s].op = "restore"
    /\ "B" \notin schemas
    /\ schemas' = schemas \cup {"B"}
    /\ \/ /\ rows' = [rows EXCEPT !["B"] = session[s].dump]
          /\ session' = [session EXCEPT ![s].op = "validate"]
       \/ /\ \E part \in SUBSET session[s].dump : rows' = [rows EXCEPT !["B"] = part]
          /\ session' = [session EXCEPT ![s] = Idle]
    /\ UNCHANGED << lifecycle_state, pool, lastEvent, request, movedFrom, causes >>

\* Mutant: the loop over the tables stops one short.
validateAllButOne(s) ==
    /\ session[s].op = "validate"
    /\ "A" \in schemas
    /\ \E t \in DataTables \ session[s].checked :
          LET now == session[s].checked \cup {t} IN
          /\ Cardinality(rows["A"]) = Cardinality(rows["B"])
          /\ session' = [session EXCEPT ![s].checked = now,
                 ![s].op = IF Cardinality(DataTables \ now) <= 1 THEN "flip" ELSE "validate"]
    /\ UNCHANGED << lifecycle_state, pool, lastEvent, schemas, rows, request, movedFrom, causes >>

\* One table of validateRowCounts.  Every commit adds to every counted table.
\* A mismatch or a missing schema is the Abort of the session: the tenant stays
\* on Pool A.
validateRowCounts(s) ==
    /\ session[s].op = "validate"
    /\ "A" \in schemas
    /\ \E t \in DataTables \ session[s].checked :
          LET now == session[s].checked \cup {t} IN
          /\ Cardinality(rows["A"]) = Cardinality(rows["B"])
          /\ session' = [session EXCEPT ![s].checked = now,
                 ![s].op = IF now = DataTables THEN "flip" ELSE "validate"]
    /\ UNCHANGED << lifecycle_state, pool, lastEvent, schemas, rows, request, movedFrom, causes >>

\* Mutant: the pool argument is neither checked nor passed.
UpdatePoolUnchecked(s) ==
    /\ session[s].op = "flip"
    /\ pool' = ""
    /\ movedFrom' = session[s].base
    /\ session' = [session EXCEPT ![s].op = "resume"]
    /\ UNCHANGED << lifecycle_state, lastEvent, schemas, rows, request, causes >>

\* Mutant: the tenant is repointed before its rows are restored.
UpdatePoolBeforeRestore(s) ==
    /\ session[s].op = "restore"
    /\ pool' = "B"
    /\ movedFrom' = session[s].base
    /\ UNCHANGED << lifecycle_state, lastEvent, schemas, rows, session, request, causes >>

\* Unconditional: lifecycle_state is not consulted.
UpdatePoolAndDSN(s) ==
    /\ session[s].op = "flip"
    /\ pool' = "B"
    /\ movedFrom' = session[s].base
    /\ session' = [session EXCEPT ![s].op = "resume"]
    /\ UNCHANGED << lifecycle_state, lastEvent, schemas, rows, request, causes >>

\* Unconditional too, and without a lifecycle row in the audit log.
SetLifecycleState(s) ==
    /\ session[s].op = "resume"
    /\ lifecycle_state' = "active"
    /\ session' = [session EXCEPT ![s].op = "audit"]
    /\ causes' = IF lifecycle_state = "deleted" THEN causes \cup {"revived"} ELSE causes
    /\ UNCHANGED << pool, lastEvent, schemas, rows, request, movedFrom >>

\* The migration's own audit row (not a lifecycle event) ends the operation.
writeMigrationAudit(s) ==
    /\ session[s].op = "audit"
    /\ session' = [session EXCEPT ![s] = Idle]
    /\ UNCHANGED << lifecycle_state, pool, lastEvent, schemas, rows, request, movedFrom, causes >>

----------------------------------------------------------------------------
(* Manual procedures of the runbooks *)

\* The documented SQL: conditional, with its audit row.
ManualResume ==
    /\ transitionLifecycle("active", {"suspended", "wind_down"})
    /\ UNCHANGED << pool, schemas, rows, session, request, movedFrom, causes >>

\* Before a migration is tried again, a partial schema is dropped on Pool B:
\* the tenant is not there, and no migration that filled it is under way.
ManualDropPoolB ==
    /\ pool = "A" /\ "B" \in schemas
    /\ \A s \in Sessions : session[s].op \notin {"validate", "flip", "resume"}
    /\ schemas' = schemas \ {"B"}
    /\ rows' = [rows EXCEPT !["B"] = {}]
    /\ UNCHANGED << lifecycle_state, pool, lastEvent, session, request, movedFrom, causes >>

\* When the retention of a moved tenant is over, its schema on Pool A goes.
ManualDropPoolA ==
    /\ pool = "B" /\ "A" \in schemas
    /\ schemas' = schemas \ {"A"}
    /\ rows' = [rows EXCEPT !["A"] = {}]
    /\ causes' = causes \cup {"retired"}
    /\ UNCHANGED << lifecycle_state, pool, lastEvent, session, request, movedFrom >>

\* The documented rollback of a migration: suspend again, point the row back
\* at Pool A, resume (ManualResume).
RollbackSuspend(s) ==
    /\ session[s].op = "none"
    /\ transitionLifecycle("suspended", {"active"})
    /\ session' = [session EXCEPT ![s].op = "rollback"]
    /\ UNCHANGED << pool, schemas, rows, request, movedFrom, causes >>

RollbackPool(s) ==
    /\ session[s].op = "rollback"
    /\ pool' = "A"
    /\ session' = [session EXCEPT ![s] = Idle]
    /\ UNCHANGED << lifecycle_state, lastEvent, schemas, rows, request, movedFrom, causes >>

----------------------------------------------------------------------------
(* Commits of the tenant *)

\* The tenant middleware: ByWorkOSOrgID finds active and suspended tenants.
ByWorkOSOrgID(q) ==
    /\ request[q] = "new"
    /\ request' = [request EXCEPT ![q] =
           IF lifecycle_state \in {"active", "suspended"} THEN "admitted" ELSE "failed"]
    /\ UNCHANGED << lifecycle_state, pool, lastEvent, schemas, rows, session, movedFrom, causes >>

\* The gateway serves the commit and emits its rows on the pool the process is
\* connected to; lifecycle_state, pool and connection_dsn are not consulted.
CommitAccepted(q) ==
    /\ request[q] = "admitted"
    /\ IF "A" \in schemas
       THEN /\ rows' = [rows EXCEPT !["A"] = @ \cup {q}]
            /\ request' = [request EXCEPT ![q] = "written"]
       ELSE /\ request' = [request EXCEPT ![q] = "failed"]
            /\ UNCHANGED rows
    /\ UNCHANGED << lifecycle_state, pool, lastEvent, schemas, session, movedFrom, causes >>

Next ==
    \/ \E s \in Sessions :
          \/ Suspend(s) \/ WindDown(s)
          \/ DeleteTransition(s) \/ DeleteDrop(s)
          \/ MigrateSuspend(s) \/ pgDump(s) \/ pgRestore(s) \/ validateRowCounts(s)
          \/ UpdatePoolAndDSN(s) \/ SetLifecycleState(s) \/ writeMigrationAudit(s)
          \/ RollbackSuspend(s) \/ RollbackPool(s)
          \/ Abort(s)
    \/ ManualResume \/ ManualDropPoolB \/ ManualDropPoolA
    \/ \E q \in Requests : ByWorkOSOrgID(q) \/ CommitAccepted(q)

Spec == Init /\ [][Next]_vars

----------------------------------------------------------------------------
(* Properties *)

\* Every variable has its type; lifecycle_state and pool keep the CHECK
\* constraints of public.tenants.
TypeOK ==
    /\ lifecycle_state \in States
    /\ pool \in Pools
    /\ lastEvent \in States \cup {"none"}
    /\ schemas \subseteq Pools
    /\ rows \in [Pools -> SUBSET Requests]
    /\ session \in [Sessions -> SessionState]
    /\ request \in [Requests -> RequestState]
    /\ movedFrom \subseteq Requests
    /\ causes \subseteq {"revived", "retired"}

\* The move loses nothing that was there before it began: once public.tenants
\* points at Pool B, every row Pool A held when the migration suspended the
\* tenant is in Pool B, whatever commits, deletes and failed attempts
\* interleave with dump, restore and count.
PreSuspendRowsMigrated == pool = "B" => movedFrom \subseteq rows["B"]

\* A tenant that is not active got there by an audited transition: its state
\* is the one the newest lifecycle row of system_audit_log records.  Only the
\* unconditional resume of a migration moves the state without such a row.
LifecycleAudited ==
    lifecycle_state # "active" => lastEvent = lifecycle_state

\* Fail-stop: a session that is about to repoint the tenant has found every
\* counted table equal, and its dump is what Pool B holds.
ParityBeforeFlip ==
    \A s \in Sessions :
        session[s].op \in {"flip", "resume"} =>
            session[s].checked = DataTables /\ session[s].dump = rows["B"]

\* A tenant's record is sound at every moment: its state is audited, it points
\* at Pool B only with all it had before the move, after a full count.
RecordSound == TypeOK /\ PreSuspendRowsMigrated /\ LifecycleAudited /\ ParityBeforeFlip

\* Nothing takes a deleted tenant back, but for the end of a migration that was
\* under way when the tenant was deleted: SetLifecycleState does not look at
\* the state, although lifecycle.go:63 calls Delete the irreversible transition.
DeletedLeftByMigrationOnly ==
    [][lifecycle_state = "deleted" /\ lifecycle_state' # "deleted" =>
          \E s \in Sessions : session[s].op = "resume" /\ session'[s].op = "audit"]_vars

\* A tenant that is not deleted has the schema its traffic goes to, which is
\* Pool A's whatever the pool column says: Delete commits the state before it
\* drops, and its drop re-reads nothing.  Two causes are named: a migration
\* took the tenant back from deleted, before or after the drop, or the
\* operator dropped Pool A's copy of a moved tenant as the runbook says.
ServingSchemaKept ==
    lifecycle_state # "deleted" => "A" \in schemas \/ causes # {}
=============================================================================
