---------------------------- MODULE Provisioning ----------------------------
(***************************************************************************)
(* Provisioning and migration of tenant schemas: the commands of           *)
(* neksur-cli (tenant create, tenant migrate --step bootstrap-schema,      *)
(* tenant migrate --step apply-versioned, tenant smoke) and of             *)
(* cmd/migrate (one tenant, or public and then every discovered tenant),   *)
(* each run by an operator session against one database.  A session may    *)
(* fail or be killed between any two statements; what it committed stays.  *)
(*                                                                         *)
(* Tables are numbered by the versioned file that creates them.  Only two  *)
(* of them matter to the commands: audit_log and policies.                 *)
(***************************************************************************)
EXTENDS Naturals, FiniteSets

CONSTANTS
    Tenants,        \* tenant ids
    Bootstrapped,   \* tenants whose schema and role were created before
    Orgs,           \* WorkOS organizations new tenants may come from
    Sessions,       \* operator sessions
    Runs,           \* Runs[s]: the commands session s runs, with their --tenant
    MaxFile,        \* versioned files above the baseline 0044
    AuditFile,      \* the file that creates audit_log    (V0050)
    PolicyFile,     \* the file that creates policies     (V0052)
    MaxAttempts,    \* maxDeadlockAttempts
    NoTenant, NoOrg, Free

ASSUME MaxFileAssumption ==
    /\ MaxFile \in Nat
    /\ AuditFile \in 1 .. MaxFile
    /\ PolicyFile \in 1 .. MaxFile

ASSUME AttemptsAssumption == MaxAttempts \in Nat \ {0}

ASSUME BootstrappedAssumption == Bootstrapped \subseteq Tenants

ASSUME NamesAssumption ==
    /\ NoTenant \notin Tenants
    /\ NoOrg \notin Orgs
    /\ Free \notin Sessions

VARIABLES
    registry,       \* public.tenants: registry[o] is the tenant of organization o
    graph,          \* graph[t]: create_graph was run, so the schema exists
    role,           \* role[t]: the role, its grants and the default privileges exist
    rel,            \* rel[t]: files in atlas's revisions of the schema
    gr,             \* gr[t]: graph_schema_revisions holds every graph file
    priv,           \* priv[t]: tables the tenant's role may read and insert into
    upd,            \* upd[t]: the role may UPDATE audit_log
    onboarded,      \* onboarded[t]: system_audit_log has a tenant.onboarded row
    lock,           \* the session that holds atlas's advisory lock
    ses,            \* ses[s]: what a session is doing
    overlap         \* ghost: <<t, f>>, file f of t applied by a transaction that was
                    \* open at the same time as one of CreateRole for t

dbvars == << registry, graph, role, rel, gr, priv, upd, onboarded >>
vars   == << registry, graph, role, rel, gr, priv, upd, onboarded, lock, ses, overlap >>

Files == 1 .. MaxFile
Cmds  == {"create", "bootstrap", "apply", "smoke", "one", "all"}
PCs   == {"idle", "row", "graphProbe", "graphCreate", "roleGrant", "roleCommit",
          "atlas", "file", "fileCommit", "revoke",
          "graphBegin", "graphCommit", "pick",
          "smokeAudit", "smokePolicy", "smokeOnboard"}

ASSUME RunsAssumption == Runs \in [Sessions -> SUBSET (Cmds \X (Tenants \cup {NoTenant}))]

Session == [cmd : Cmds, pc : PCs, t : Tenants \cup {NoTenant}, org : Orgs \cup {NoOrg},
            found : SUBSET Tenants,       \* discoverTenants
            todo : SUBSET Tenants,        \* tenants the loop has not reached
            failed : SUBSET Tenants,      \* failures
            attempt : 0 .. MaxAttempts,   \* of retryOnDeadlock
            grant : SUBSET Files,         \* what the open transaction grants at commit
            base : BOOLEAN,               \* what the open transaction read: gr[t] or role[t]
            res : {"none", "ok", "error"}]

NewSession ==
    [cmd |-> "create", pc |-> "idle", t |-> NoTenant, org |-> NoOrg, found |-> {},
     todo |-> {}, failed |-> {}, attempt |-> 0, grant |-> {}, base |-> FALSE,
     res |-> "none"]

TypeOK ==
    /\ registry \in [Orgs -> Tenants \cup {NoTenant}]
    /\ graph \in [Tenants -> BOOLEAN]
    /\ role \in [Tenants -> BOOLEAN]
    /\ rel \in [Tenants -> 0 .. MaxFile]
    /\ gr \in [Tenants -> BOOLEAN]
    /\ priv \in [Tenants -> SUBSET Files]
    /\ upd \in [Tenants -> BOOLEAN]
    /\ onboarded \in [Tenants -> BOOLEAN]
    /\ lock \in Sessions \cup {Free}
    /\ ses \in [Sessions -> Session]
    /\ overlap \in SUBSET (Tenants \X Files)

Init ==
    /\ registry = [o \in Orgs |-> NoTenant]
    /\ graph = [t \in Tenants |-> t \in Bootstrapped]
    /\ role = [t \in Tenants |-> t \in Bootstrapped]
    /\ rel = [t \in Tenants |-> 0]
    /\ gr = [t \in Tenants |-> FALSE]
    /\ priv = [t \in Tenants |-> {}]
    /\ upd = [t \in Tenants |-> FALSE]
    /\ onboarded = [t \in Tenants |-> FALSE]
    /\ lock = Free
    /\ ses = [s \in Sessions |-> NewSession]
    /\ overlap = {}

-----------------------------------------------------------------------------
(* Control of a session.                                                   *)

At(s, pc) == ses[s].pc = pc

Goto(s, pc) == ses' = [ses EXCEPT ![s].pc = pc]

\* The process ends.  What a successful command worked on stays until the
\* next command of the session.
Exit(s, r) ==
    ses' = [ses EXCEPT ![s] =
              IF r = "ok"
              THEN [NewSession EXCEPT !.cmd = ses[s].cmd, !.t = ses[s].t,
                                      !.found = ses[s].found, !.res = "ok"]
              ELSE [NewSession EXCEPT !.res = r]]

\* Mutant: the loop forgets which tenants failed.
StepFailsUnrecorded(s) ==
    IF ses[s].cmd = "all"
    THEN ses' = [ses EXCEPT ![s] = [ses[s] EXCEPT !.pc = "pick", !.attempt = 0, !.grant = {}]]
    ELSE Exit(s, "error")

\* A step of a tenant's migration failed: the loop of cmd/migrate records the
\* tenant and goes on, every other command exits with an error.
StepFails(s) ==
    IF ses[s].cmd = "all"
    THEN ses' = [ses EXCEPT ![s] = [ses[s] EXCEPT !.pc = "pick", !.attempt = 0,
                   !.grant = {}, !.failed = ses[s].failed \cup {ses[s].t}]]
    ELSE Exit(s, "error")

Release(s) == lock' = IF lock = s THEN Free ELSE lock

-----------------------------------------------------------------------------
(* Starting a command.                                                     *)

Start(s, cmd, t, org, pc) ==
    /\ << cmd, t >> \in Runs[s]
    /\ At(s, "idle")
    /\ ses' = [ses EXCEPT ![s] = [NewSession EXCEPT !.cmd = cmd, !.t = t, !.org = org, !.pc = pc]]
    /\ UNCHANGED << dbvars, lock, overlap >>

TenantCreate(s, t, o)  == Start(s, "create", t, o, "row")
TenantBootstrap(s, t)  == Start(s, "bootstrap", t, NoOrg, "graphProbe")
TenantApply(s, t)      == Start(s, "apply", t, NoOrg, "atlas")
TenantSmoke(s, t)      == Start(s, "smoke", t, NoOrg, "smokeAudit")
MigrateOne(s, t)       == Start(s, "one", t, NoOrg, "atlas")

discoverTenants == {t \in Tenants : graph[t]}

\* cmd/migrate without --tenant: the public pass, then the schemas that exist
\* now are discovered; a tenant created later is not visited.
MigrateAll(s) ==
    /\ << "all", NoTenant >> \in Runs[s]
    /\ At(s, "idle")
    /\ ses' = [ses EXCEPT ![s] = [NewSession EXCEPT !.cmd = "all", !.pc = "pick",
                                     !.found = discoverTenants, !.todo = discoverTenants]]
    /\ UNCHANGED << dbvars, lock, overlap >>

\* The head of the loop over the discovered tenants, and its end.
PickTenant(s) ==
    /\ At(s, "pick")
    /\ \/ \E t \in ses[s].todo :
            ses' = [ses EXCEPT ![s] = [ses[s] EXCEPT !.pc = "atlas", !.t = t,
                                         !.todo = ses[s].todo \ {t}]]
       \/ /\ ses[s].todo = {}
          /\ Exit(s, IF ses[s].failed = {} THEN "ok" ELSE "error")
    /\ UNCHANGED << dbvars, lock, overlap >>

-----------------------------------------------------------------------------
(* neksur-cli tenant create and tenant migrate --step bootstrap-schema.    *)

\* Repo.Create: an organization that is taken makes the insert a no-op and the
\* command goes on; an id that is taken is a primary key violation.
RegisterTenant(s) ==
    LET t == ses[s].t  o == ses[s].org  taken == \E q \in Orgs : registry[q] = t
    IN  /\ At(s, "row")
        /\ IF registry[o] = NoTenant /\ taken
           THEN Exit(s, "error")
           ELSE Goto(s, "graphProbe")
        /\ registry' = IF registry[o] = NoTenant /\ ~ taken
                       THEN [registry EXCEPT ![o] = t] ELSE registry
        /\ UNCHANGED << graph, role, rel, gr, priv, upd, onboarded, lock, overlap >>

\* CreateGraph probes ag_graph and creates the graph in a later statement.
ProbeGraph(s) ==
    /\ At(s, "graphProbe")
    /\ Goto(s, IF graph[ses[s].t] THEN "roleGrant" ELSE "graphCreate")
    /\ UNCHANGED << dbvars, lock, overlap >>

CreateGraph(s) ==
    LET t == ses[s].t
    IN  /\ At(s, "graphCreate")
        /\ IF graph[t] THEN Exit(s, "error") ELSE Goto(s, "roleGrant")
        /\ graph' = [graph EXCEPT ![t] = TRUE]
        /\ UNCHANGED << registry, role, rel, gr, priv, upd, onboarded, lock, overlap >>

\* CreateRole is one transaction: it grants on the tables committed by now.
GrantRole(s) ==
    LET t == ses[s].t
        open == {q \in Sessions : At(q, "fileCommit") /\ ses[q].t = t}
    IN  /\ At(s, "roleGrant")
        /\ graph[t]
        /\ ses' = [ses EXCEPT ![s] = [ses[s] EXCEPT !.pc = "roleCommit",
                                        !.grant = 1 .. rel[t], !.base = role[t]]]
        /\ overlap' = overlap \cup {<< t, rel[t] + 1 >> : q \in open}
        /\ UNCHANGED << dbvars, lock >>

\* A role that another transaction created in between is a duplicate.
CreateRole(s) ==
    LET t == ses[s].t  g == ses[s].grant
    IN  /\ At(s, "roleCommit")
        /\ IF role[t] # ses[s].base
           THEN /\ Exit(s, "error")
                /\ UNCHANGED << role, priv, upd, overlap >>
           ELSE /\ Exit(s, "ok")
                /\ role' = [role EXCEPT ![t] = TRUE]
                /\ priv' = [priv EXCEPT ![t] = priv[t] \cup g]
                /\ upd' = [upd EXCEPT ![t] = upd[t] \/ AuditFile \in g]
                /\ overlap' = overlap \ ({t} \X g)
        /\ UNCHANGED << registry, graph, rel, gr, onboarded, lock >>

-----------------------------------------------------------------------------
(* The versioned files of one tenant: retryOnDeadlock around atlas, which  *)
(* holds an advisory lock and commits file by file.                        *)

\* Mutant: the attempts of retryOnDeadlock are not counted.
AtlasStartUncounted(s) ==
    /\ At(s, "atlas") /\ lock = Free /\ graph[ses[s].t]
    /\ lock' = s
    /\ ses' = [ses EXCEPT ![s] = [ses[s] EXCEPT !.pc = "file"]]
    /\ UNCHANGED << dbvars, overlap >>


AtlasStart(s) ==
    /\ At(s, "atlas")
    /\ lock = Free
    /\ graph[ses[s].t]
    /\ lock' = s
    /\ ses' = [ses EXCEPT ![s] = [ses[s] EXCEPT !.pc = "file", !.attempt = ses[s].attempt + 1]]
    /\ UNCHANGED << dbvars, overlap >>

\* Mutant: CreateRole grants on existing tables but sets no default privileges.
AtlasFileNoDefaults(s) ==
    /\ At(s, "file") /\ rel[ses[s].t] < MaxFile
    /\ Goto(s, "fileCommit")
    /\ UNCHANGED << dbvars, lock, overlap >>

\* The transaction of the next file: the default privileges it sees decide
\* what the role may do with the table it creates.
AtlasFile(s) ==
    LET t == ses[s].t
        open == {q \in Sessions : At(q, "roleCommit") /\ ses[q].t = t}
    IN  /\ At(s, "file")
        /\ rel[t] < MaxFile
        /\ ses' = [ses EXCEPT ![s] = [ses[s] EXCEPT !.pc = "fileCommit",
                     !.grant = IF role[t] THEN {rel[t] + 1} ELSE {}]]
        /\ overlap' = overlap \cup {<< t, rel[t] + 1 >> : q \in open}
        /\ UNCHANGED << dbvars, lock >>

AtlasCommit(s) ==
    LET t == ses[s].t  g == ses[s].grant
    IN  /\ At(s, "fileCommit")
        /\ ses' = [ses EXCEPT ![s] = [ses[s] EXCEPT !.pc = "file", !.grant = {}]]
        /\ rel' = [rel EXCEPT ![t] = rel[t] + 1]
        /\ priv' = [priv EXCEPT ![t] = priv[t] \cup g]
        /\ upd' = [upd EXCEPT ![t] = upd[t] \/ AuditFile \in g]
        /\ UNCHANGED << registry, graph, role, gr, onboarded, lock, overlap >>

\* Nothing is pending: atlas returns nil, and the caller goes on.
AtlasDone(s) ==
    /\ At(s, "file")
    /\ rel[ses[s].t] = MaxFile
    /\ ses' = [ses EXCEPT ![s] = [ses[s] EXCEPT !.attempt = 0,
                 !.pc = IF ses[s].cmd = "apply" THEN "revoke" ELSE "graphBegin"]]
    /\ lock' = Free
    /\ UNCHANGED << dbvars, overlap >>

\* Mutant: a deadlock is always retried.
AtlasDeadlockForever(s) ==
    /\ At(s, "fileCommit")
    /\ ses' = [ses EXCEPT ![s] = [ses[s] EXCEPT !.pc = "atlas", !.grant = {}]]
    /\ lock' = Free
    /\ UNCHANGED << dbvars, overlap >>

\* SQLSTATE 40P01 is retried until the attempts are used up.
AtlasDeadlock(s) ==
    /\ At(s, "fileCommit")
    /\ IF ses[s].attempt < MaxAttempts
       THEN ses' = [ses EXCEPT ![s] = [ses[s] EXCEPT !.pc = "atlas", !.grant = {}]]
       ELSE StepFails(s)
    /\ lock' = Free
    /\ UNCHANGED << dbvars, overlap >>

\* Mutant: after a failed atlas the loop goes on to the graph of that tenant.
AtlasFailsGoOn(s) ==
    /\ ses[s].pc \in {"atlas", "file", "fileCommit"}
    /\ IF ses[s].cmd = "all" THEN Goto(s, "graphBegin") ELSE Exit(s, "error")
    /\ Release(s)
    /\ UNCHANGED << dbvars, overlap >>

\* Any other error of atlas, a missing schema and a lock timeout included.
AtlasFails(s) ==
    /\ ses[s].pc \in {"atlas", "file", "fileCommit"}
    /\ StepFails(s)
    /\ Release(s)
    /\ UNCHANGED << dbvars, overlap >>

\* RevokeAuditLogWrites: two statements, each its own transaction; the second
\* takes back a privilege that is never granted, and may fail.
RevokeAuditLogWrites(s) ==
    LET t == ses[s].t
    IN  /\ At(s, "revoke")
        /\ IF ~ role[t]
           THEN Exit(s, "error") /\ UNCHANGED upd
           ELSE /\ \E r \in {"ok", "error"} : Exit(s, r)
                /\ upd' = [upd EXCEPT ![t] = FALSE]
        /\ UNCHANGED << registry, graph, role, rel, gr, priv, onboarded, lock, overlap >>

-----------------------------------------------------------------------------
(* ApplyTenantGraph: one transaction for every pending graph file.         *)

GraphBegin(s) ==
    /\ At(s, "graphBegin")
    /\ ses' = [ses EXCEPT ![s] = [ses[s] EXCEPT !.pc = "graphCommit", !.base = gr[ses[s].t]]]
    /\ UNCHANGED << dbvars, lock, overlap >>

\* Revisions another transaction recorded since are duplicate keys.
GraphCommit(s) ==
    LET t == ses[s].t
    IN  /\ At(s, "graphCommit")
        /\ IF gr[t] # ses[s].base
           THEN StepFails(s) /\ UNCHANGED gr
           ELSE /\ gr' = [gr EXCEPT ![t] = TRUE]
                /\ IF ses[s].cmd = "all"
                   THEN ses' = [ses EXCEPT ![s] = [ses[s] EXCEPT !.pc = "pick"]]
                   ELSE Exit(s, "ok")
        /\ UNCHANGED << registry, graph, role, rel, priv, upd, onboarded, lock, overlap >>

\* An error inside the transaction rolls all of it back.
GraphFails(s) ==
    /\ ses[s].pc \in {"graphBegin", "graphCommit"}
    /\ StepFails(s)
    /\ UNCHANGED << dbvars, lock, overlap >>

-----------------------------------------------------------------------------
(* tenant smoke: the checks run as the tenant's role, one transaction      *)
(* each; the onboarding event is written when all of them passed.          *)

\* WithTenantTx can SET LOCAL ROLE, and the role may use the table of file f.
WithTenantTx(t, f) == role[t] /\ f \in priv[t]

SmokeAudit(s) ==
    /\ At(s, "smokeAudit")
    /\ IF WithTenantTx(ses[s].t, AuditFile) THEN Goto(s, "smokePolicy") ELSE Exit(s, "error")
    /\ UNCHANGED << dbvars, lock, overlap >>

\* Mutant: the count of policies is not read under the tenant's role.
SmokePolicyUnchecked(s) ==
    /\ At(s, "smokePolicy")
    /\ Goto(s, "smokeOnboard")
    /\ UNCHANGED << dbvars, lock, overlap >>


SmokePolicy(s) ==
    /\ At(s, "smokePolicy")
    /\ IF WithTenantTx(ses[s].t, PolicyFile) THEN Goto(s, "smokeOnboard") ELSE Exit(s, "error")
    /\ UNCHANGED << dbvars, lock, overlap >>

\* CrossTenantProbe reads under a role that has privileges in its own schema
\* only and changes nothing; the event is the last statement.
SmokeOnboard(s) ==
    /\ At(s, "smokeOnboard")
    /\ onboarded' = [onboarded EXCEPT ![ses[s].t] = TRUE]
    /\ Exit(s, "ok")
    /\ UNCHANGED << registry, graph, role, rel, gr, priv, upd, lock, overlap >>

-----------------------------------------------------------------------------
\* The process is killed, or a statement outside a migration fails: the open
\* transaction is rolled back and the connection's lock released.
Killed(s) ==
    /\ ~ At(s, "idle")
    /\ Exit(s, "error")
    /\ Release(s)
    /\ UNCHANGED << dbvars, overlap >>

Command(s) ==
    \/ \E t \in Tenants, o \in Orgs : TenantCreate(s, t, o)
    \/ \E t \in Tenants : TenantBootstrap(s, t)
    \/ \E t \in Tenants : TenantApply(s, t)
    \/ \E t \in Tenants : TenantSmoke(s, t)
    \/ \E t \in Tenants : MigrateOne(s, t)
    \/ MigrateAll(s)

Step(s) ==
    \/ PickTenant(s)
    \/ RegisterTenant(s) \/ ProbeGraph(s) \/ CreateGraph(s) \/ GrantRole(s) \/ CreateRole(s)
    \/ AtlasStart(s) \/ AtlasFile(s) \/ AtlasCommit(s) \/ AtlasDone(s)
    \/ AtlasDeadlock(s) \/ AtlasFails(s) \/ RevokeAuditLogWrites(s)
    \/ GraphBegin(s) \/ GraphCommit(s) \/ GraphFails(s)
    \/ SmokeAudit(s) \/ SmokePolicy(s) \/ SmokeOnboard(s)

Next == \E s \in Sessions : Command(s) \/ Step(s) \/ Killed(s)

Spec == Init /\ [][Next]_vars

\* A started process runs on; nobody has to start one, and none has to be killed.
FairSpec == Spec /\ \A s \in Sessions : WF_vars(Step(s))

-----------------------------------------------------------------------------
(* Properties.                                                             *)

\* The migrations, with their retries, crashes, concurrent runs and partial
\* failures, implement SchemaUpgrade: atlas and ApplyTenantGraph move a tenant
\* one whole file, or all graph files, at a time, in order, and never back.
Upgrade == INSTANCE SchemaUpgrade WITH Tenants <- Tenants, MaxFile <- MaxFile,
                                       rel <- rel, gr <- gr
UpgradeSpec == Upgrade!Spec

\* An exit code of 0 is true: cmd/migrate left every tenant it discovered at
\* the last version of both migration sets, whatever failed or ran beside it;
\* apply-versioned and the provisioning commands left what they create.
SuccessIsTrue ==
    \A s \in Sessions : ses[s].res = "ok" =>
        LET c == ses[s].cmd  t == ses[s].t
            done == IF c = "all" THEN ses[s].found ELSE IF c = "one" THEN {t} ELSE {}
        IN  /\ \A u \in done : rel[u] = MaxFile /\ gr[u]
            /\ c \in {"create", "bootstrap"} => graph[t] /\ role[t]
            /\ c = "apply" => rel[t] = MaxFile

\* GRANT ON ALL TABLES and ALTER DEFAULT PRIVILEGES of CreateRole together
\* cover every table, in either order of bootstrap and migration; only a file
\* whose transaction was open beside CreateRole's can be left out.
TablesReachable ==
    \A t \in Tenants : role[t] =>
        \A f \in 1 .. rel[t] : f \in priv[t] \/ << t, f >> \in overlap

\* An onboarded tenant has a schema and a role that reaches the tables of the
\* gateway, although the smoke test reads them in separate transactions.
OnboardedIsUsable ==
    \A t \in Tenants : onboarded[t] =>
        graph[t] /\ role[t] /\ {AuditFile, PolicyFile} \subseteq priv[t]
            /\ rel[t] >= AuditFile /\ rel[t] >= PolicyFile

\* A tenant's role reaches the tables of its schema, and does so for certain
\* once the tenant counts as onboarded.
RolesReach == TypeOK /\ TablesReachable /\ OnboardedIsUsable

\* Every command ends: retryOnDeadlock gives up and the loop over the tenants
\* comes to its last one, also when another session keeps taking the lock.
CommandsEnd == \A s \in Sessions : ~ At(s, "idle") ~> At(s, "idle")
=============================================================================
