------------------------- MODULE ProvisioningProofs -------------------------
(***************************************************************************)
(* The migrations implement SchemaUpgrade, an exit code of 0 is true and   *)
(* the tenants' roles reach their tables, for any tenants, files, sessions *)
(* and commands.                                                           *)
(***************************************************************************)
EXTENDS Provisioning, TLAPS

----------------------------------------------------------------------------
(* The inductive invariant *)

Migrating == {"atlas", "file", "fileCommit"}
Creating  == {"row", "graphProbe", "graphCreate", "roleGrant", "roleCommit"}
Graphing  == {"graphBegin", "graphCommit"}
Smoking   == {"smokeAudit", "smokePolicy", "smokeOnboard"}

\* atlas's advisory lock: a session applies files exactly while it holds it.
LockOK == \A s \in Sessions : (lock = s) <=> ses[s].pc \in {"file", "fileCommit"}

\* Which command a session is in, and that it has a tenant to work on.
ControlOK(s) ==
    LET y == ses[s]
    IN  /\ y.pc \notin {"idle", "pick"} => y.t \in Tenants
        /\ y.pc # "idle" => y.res = "none"
        /\ y.pc \in Creating => y.cmd \in {"create", "bootstrap"}
        /\ y.pc \in Migrating => y.cmd \in {"apply", "one", "all"}
        /\ y.pc = "revoke" => y.cmd = "apply"
        /\ y.pc \in Graphing => y.cmd \in {"one", "all"}
        /\ y.pc = "pick" => y.cmd = "all"
        /\ y.pc \in Smoking => y.cmd = "smoke"
        /\ y.pc = "atlas" => y.attempt < MaxAttempts
        /\ y.pc \in {"pick"} \cup Graphing => y.attempt = 0

\* What is true of the tenant when the session is past the step that made it.
ReachedOK(s) ==
    LET y == ses[s]
    IN  /\ y.pc \in {"revoke"} \cup Graphing => rel[y.t] = MaxFile
        /\ y.pc = "roleCommit" => graph[y.t]
        /\ y.pc \in {"smokePolicy", "smokeOnboard"} => role[y.t] /\ AuditFile \in priv[y.t]
        /\ y.pc = "smokeOnboard" => PolicyFile \in priv[y.t]

Upgraded(t) == rel[t] = MaxFile /\ gr[t]

\* Each discovered tenant is still to come, being migrated, recorded as failed
\* or upgraded, and a success is true.
LoopOK(s) ==
    LET y == ses[s]
    IN  /\ y.cmd = "all" /\ y.pc # "idle" =>
              \A u \in y.found : \/ u \in y.todo \/ u \in y.failed \/ Upgraded(u)
                                 \/ u = y.t /\ y.pc # "pick"
        /\ y.res = "ok" =>
              /\ y.cmd # "all" => y.t \in Tenants
              /\ y.cmd = "all" => \A u \in y.found : Upgraded(u)
              /\ y.cmd = "one" => Upgraded(y.t)
              /\ y.cmd \in {"create", "bootstrap"} => graph[y.t] /\ role[y.t]
              /\ y.cmd = "apply" => rel[y.t] = MaxFile

SessionOK(s) == ControlOK(s) /\ ReachedOK(s) /\ LoopOK(s)

Covered(t, f) == f \in priv[t] \/ << t, f >> \in overlap

\* The open transaction of a file: its table will be granted, or it was open
\* beside every role transaction that could have missed it.
FileOpenOK(s) ==
    LET t == ses[s].t  f == rel[ses[s].t] + 1
    IN  ses[s].pc = "fileCommit" =>
          /\ rel[t] < MaxFile
          /\ \/ ses[s].grant = {f}
             \/ /\ ses[s].grant = {}
                /\ role[t] => << t, f >> \in overlap
                /\ \A q \in Sessions : ses[q].pc = "roleCommit" /\ ses[q].t = t =>
                      << t, f >> \in overlap

\* The open transaction of a role: what it does not grant is covered.
RoleOpenOK(s) ==
    LET t == ses[s].t
    IN  ses[s].pc = "roleCommit" =>
          /\ ses[s].grant \subseteq 1 .. rel[t]
          /\ \A f \in 1 .. rel[t] : f \in ses[s].grant \/ Covered(t, f)

TenantOK(t) ==
    /\ role[t] => graph[t]
    /\ priv[t] \subseteq 1 .. rel[t]
    /\ role[t] => \A f \in 1 .. rel[t] : Covered(t, f)
    /\ onboarded[t] => role[t] /\ {AuditFile, PolicyFile} \subseteq priv[t]

ProvisionInv ==
    /\ TypeOK
    /\ LockOK
    /\ \A s \in Sessions : SessionOK(s)
    /\ \A s \in Sessions : FileOpenOK(s) /\ RoleOpenOK(s)
    /\ \A t \in Tenants : TenantOK(t)

----------------------------------------------------------------------------
(* What a step does to the sessions *)

\* The step is one of session s, and the sessions keep their types.
Own(s) ==
    /\ ses' \in [Sessions -> Session]
    /\ \A x \in Sessions : x # s => ses'[x] = ses[x]

\* A session is replaced as a whole.
LEMMA Replace ==
    ASSUME ses \in [Sessions -> Session], NEW s \in Sessions, NEW z \in Session,
           ses' = [ses EXCEPT ![s] = z]
    PROVE  Own(s) /\ ses'[s] = z
BY DEF Own

\* The state every command starts from.
LEMMA NewSessionType ==
    /\ NewSession \in Session
    /\ NewSession.cmd = "create" /\ NewSession.pc = "idle" /\ NewSession.t = NoTenant
    /\ NewSession.org = NoOrg /\ NewSession.found = {} /\ NewSession.todo = {}
    /\ NewSession.failed = {} /\ NewSession.attempt = 0 /\ NewSession.grant = {}
    /\ NewSession.base = FALSE /\ NewSession.res = "none"
BY AttemptsAssumption DEF NewSession, Session, Cmds, PCs

\* What the fields of a session range over.
LEMMA Fields ==
    ASSUME NEW y \in Session
    PROVE  /\ y.cmd \in Cmds /\ y.pc \in PCs /\ y.t \in Tenants \cup {NoTenant}
           /\ y.org \in Orgs \cup {NoOrg} /\ y.found \subseteq Tenants
           /\ y.todo \subseteq Tenants /\ y.failed \subseteq Tenants
           /\ y.attempt \in 0 .. MaxAttempts /\ y.grant \subseteq Files
           /\ y.base \in BOOLEAN /\ y.res \in {"none", "ok", "error"}
BY DEF Session

\* The process ends: a success leaves what it worked on.
LEMMA ExitShape ==
    ASSUME TypeOK, NEW s \in Sessions, NEW r \in {"ok", "error"}, Exit(s, r)
    PROVE  /\ Own(s)
           /\ ses'[s].pc = "idle" /\ ses'[s].res = r
           /\ r = "ok" => /\ ses'[s].cmd = ses[s].cmd
                          /\ ses'[s].t = ses[s].t
                          /\ ses'[s].found = ses[s].found
<1> DEFINE ok == [NewSession EXCEPT !.cmd = ses[s].cmd, !.t = ses[s].t,
                                    !.found = ses[s].found, !.res = "ok"]
           er == [NewSession EXCEPT !.res = r]
<1>1. ses \in [Sessions -> Session] /\ ses[s] \in Session
  BY DEF TypeOK
<1>2. /\ ok \in Session
      /\ ok.pc = "idle" /\ ok.res = "ok" /\ ok.cmd = ses[s].cmd
      /\ ok.t = ses[s].t /\ ok.found = ses[s].found
  BY <1>1, NewSessionType, Fields DEF Session
<1>3. er \in Session /\ er.pc = "idle" /\ er.res = r
  BY NewSessionType DEF Session
<1>4. ses' = [ses EXCEPT ![s] = IF r = "ok" THEN ok ELSE er]
  BY DEF Exit
<1> HIDE DEF ok, er
<1>5. CASE r = "ok"
  <2>1. ses' = [ses EXCEPT ![s] = ok]
    BY <1>4, <1>5
  <2> QED
    BY <1>1, <1>2, <1>5, <2>1, Replace
<1>6. CASE r # "ok"
  <2>1. ses' = [ses EXCEPT ![s] = er]
    BY <1>4, <1>6
  <2> QED
    BY <1>1, <1>3, <1>6, <2>1, Replace
<1> QED
  BY <1>5, <1>6

\* A failed step ends the command or is recorded by the loop.
LEMMA FailShape ==
    ASSUME TypeOK, NEW s \in Sessions, StepFails(s), ses[s].t \in Tenants
    PROVE  /\ Own(s)
           /\ \/ ses'[s].pc = "idle" /\ ses'[s].res = "error"
              \/ /\ ses[s].cmd = "all" /\ ses'[s].cmd = "all"
                 /\ ses'[s].pc = "pick" /\ ses'[s].res = ses[s].res
                 /\ ses'[s].t = ses[s].t /\ ses'[s].attempt = 0
                 /\ ses'[s].found = ses[s].found /\ ses'[s].todo = ses[s].todo
                 /\ ses'[s].failed = ses[s].failed \cup {ses[s].t}
<1>1. ses \in [Sessions -> Session] /\ ses[s] \in Session
  BY DEF TypeOK
<1>2. CASE ses[s].cmd = "all"
  <2>1. PICK f \in SUBSET Tenants : f = ses[s].failed \cup {ses[s].t}
    BY <1>1, Fields
  <2> DEFINE z == [ses[s] EXCEPT !.pc = "pick", !.attempt = 0, !.grant = {}, !.failed = f]
  <2>2. z \in Session
    <3>1. "pick" \in PCs /\ 0 \in 0 .. MaxAttempts
      BY AttemptsAssumption DEF PCs
    <3> QED
      BY <1>1, <3>1 DEF Session
  <2>3. /\ z.cmd = "all" /\ z.pc = "pick" /\ z.res = ses[s].res /\ z.t = ses[s].t
        /\ z.attempt = 0 /\ z.found = ses[s].found /\ z.todo = ses[s].todo
        /\ z.failed = f
    BY <1>1, <1>2 DEF Session
  <2>4. ses' = [ses EXCEPT ![s] = z]
    BY <1>2, <2>1, Zenon DEF StepFails
  <2> HIDE DEF z
  <2> QED
    BY <1>1, <1>2, <2>1, <2>2, <2>3, <2>4, Replace
<1>3. CASE ses[s].cmd # "all"
  BY <1>3, ExitShape DEF StepFails
<1> QED
  BY <1>2, <1>3

\* What a step inside a command leaves alone of its session.
Kept(s) ==
    /\ ses'[s].cmd = ses[s].cmd
    /\ ses'[s].res = ses[s].res
    /\ ses'[s].found = ses[s].found
    /\ ses'[s].failed = ses[s].failed

\* A session moves to its next statement.
LEMMA GotoShape ==
    ASSUME TypeOK, NEW s \in Sessions, NEW p \in PCs, Goto(s, p)
    PROVE  /\ Own(s) /\ Kept(s)
           /\ ses'[s].pc = p
           /\ ses'[s].t = ses[s].t
           /\ ses'[s].todo = ses[s].todo
           /\ ses'[s].attempt = ses[s].attempt
           /\ ses'[s].grant = ses[s].grant
<1>1. ses \in [Sessions -> Session] /\ ses[s] \in Session
  BY DEF TypeOK
<1> DEFINE z == [ses[s] EXCEPT !.pc = p]
<1>2. z \in Session
  <2>1. p \in PCs
    BY DEF PCs
  <2> QED
    BY <1>1, <2>1 DEF Session
<1>3. /\ z.cmd = ses[s].cmd /\ z.res = ses[s].res /\ z.found = ses[s].found
      /\ z.failed = ses[s].failed
      /\ z.pc = p
      /\ z.t = ses[s].t
      /\ z.todo = ses[s].todo
      /\ z.attempt = ses[s].attempt
      /\ z.grant = ses[s].grant
  BY <1>1 DEF Session
<1>4. ses' = [ses EXCEPT ![s] = z]
  BY <1>1, Zenon DEF Goto
<1> HIDE DEF z
<1> QED
  BY <1>1, <1>2, <1>3, <1>4, Replace DEF Kept

\* The loop of cmd/migrate takes its next tenant.
LEMMA PickShape ==
    ASSUME TypeOK, NEW s \in Sessions, NEW t \in ses[s].todo,
           ses' = [ses EXCEPT ![s] = [ses[s] EXCEPT !.pc = "atlas", !.t = t,
                                        !.todo = ses[s].todo \ {t}]]
    PROVE  /\ Own(s) /\ Kept(s)
           /\ ses'[s].pc = "atlas"
           /\ ses'[s].t = t
           /\ ses'[s].todo = ses[s].todo \ {t}
           /\ ses'[s].attempt = ses[s].attempt
<1>1. ses \in [Sessions -> Session] /\ ses[s] \in Session
  BY DEF TypeOK
<1>2. PICK d \in SUBSET Tenants : d = ses[s].todo \ {t}
  BY <1>1, Fields
<1> DEFINE z == [ses[s] EXCEPT !.pc = "atlas", !.t = t, !.todo = d]
<1>3. z \in Session
  <2>1. "atlas" \in PCs /\ t \in Tenants
    BY <1>1, Fields DEF PCs
  <2> QED
    BY <1>1, <1>2, <2>1 DEF Session
<1>4. /\ z.cmd = ses[s].cmd /\ z.res = ses[s].res /\ z.found = ses[s].found
      /\ z.failed = ses[s].failed
      /\ z.pc = "atlas"
      /\ z.t = t
      /\ z.todo = ses[s].todo \ {t}
      /\ z.attempt = ses[s].attempt
  BY <1>1, <1>2 DEF Session
<1>5. ses' = [ses EXCEPT ![s] = z]
  BY <1>1, <1>2, Zenon
<1> HIDE DEF z
<1> QED
  BY <1>1, <1>2, <1>3, <1>4, <1>5, Replace DEF Kept

\* CreateRole has granted on the tables there are.
LEMMA GrantShape ==
    ASSUME TypeOK, NEW s \in Sessions, GrantRole(s), ses[s].t \in Tenants
    PROVE  /\ Own(s) /\ Kept(s)
           /\ ses'[s].pc = "roleCommit"
           /\ ses'[s].t = ses[s].t
           /\ ses'[s].grant = 1 .. rel[ses[s].t]
<1>1. ses \in [Sessions -> Session] /\ ses[s] \in Session
  BY DEF TypeOK
<1>2. PICK g \in SUBSET Files : g = 1 .. rel[ses[s].t]
  <2>1. rel[ses[s].t] \in 0 .. MaxFile
    BY DEF TypeOK
  <2>2. 1 .. rel[ses[s].t] \subseteq Files
    BY <2>1, MaxFileAssumption DEF Files
  <2> QED
    BY <2>2
<1>3. PICK b \in BOOLEAN : b = role[ses[s].t]
  BY <1>1 DEF TypeOK
<1> DEFINE z == [ses[s] EXCEPT !.pc = "roleCommit", !.grant = g, !.base = b]
<1>4. z \in Session
  <2>1. "roleCommit" \in PCs
    BY DEF PCs
  <2> QED
    BY <1>1, <1>2, <1>3, <2>1 DEF Session
<1>5. /\ z.cmd = ses[s].cmd /\ z.res = ses[s].res /\ z.found = ses[s].found
      /\ z.failed = ses[s].failed
      /\ z.pc = "roleCommit"
      /\ z.t = ses[s].t
      /\ z.grant = 1 .. rel[ses[s].t]
  BY <1>1, <1>2, <1>3 DEF Session
<1>6. ses' = [ses EXCEPT ![s] = z]
  BY <1>1, <1>2, <1>3, Zenon DEF GrantRole
<1> HIDE DEF z
<1> QED
  BY <1>1, <1>2, <1>3, <1>4, <1>5, <1>6, Replace DEF Kept

\* retryOnDeadlock calls atlas once more.
LEMMA AtlasStartShape ==
    ASSUME TypeOK, NEW s \in Sessions, AtlasStart(s), ses[s].attempt < MaxAttempts
    PROVE  /\ Own(s) /\ Kept(s)
           /\ ses'[s].pc = "file"
           /\ ses'[s].t = ses[s].t
           /\ ses'[s].todo = ses[s].todo
           /\ ses'[s].grant = ses[s].grant
<1>1. ses \in [Sessions -> Session] /\ ses[s] \in Session
  BY DEF TypeOK
<1>2. PICK a \in 0 .. MaxAttempts : a = ses[s].attempt + 1
  BY <1>1, Fields, AttemptsAssumption
<1> DEFINE z == [ses[s] EXCEPT !.pc = "file", !.attempt = a]
<1>3. z \in Session
  <2>1. "file" \in PCs
    BY DEF PCs
  <2> QED
    BY <1>1, <1>2, <2>1 DEF Session
<1>4. /\ z.cmd = ses[s].cmd /\ z.res = ses[s].res /\ z.found = ses[s].found
      /\ z.failed = ses[s].failed
      /\ z.pc = "file"
      /\ z.t = ses[s].t
      /\ z.todo = ses[s].todo
      /\ z.grant = ses[s].grant
  BY <1>1, <1>2 DEF Session
<1>5. ses' = [ses EXCEPT ![s] = z]
  BY <1>1, <1>2, Zenon DEF AtlasStart
<1> HIDE DEF z
<1> QED
  BY <1>1, <1>2, <1>3, <1>4, <1>5, Replace DEF Kept

\* The transaction of the next file has begun.
LEMMA AtlasFileShape ==
    ASSUME TypeOK, NEW s \in Sessions, AtlasFile(s), ses[s].t \in Tenants
    PROVE  /\ Own(s) /\ Kept(s)
           /\ ses'[s].pc = "fileCommit"
           /\ ses'[s].t = ses[s].t
           /\ ses'[s].todo = ses[s].todo
           /\ ses'[s].grant = IF role[ses[s].t] THEN {rel[ses[s].t] + 1} ELSE {}
<1>1. ses \in [Sessions -> Session] /\ ses[s] \in Session
  BY DEF TypeOK
<1>2. PICK g \in SUBSET Files : g = IF role[ses[s].t] THEN {rel[ses[s].t] + 1} ELSE {}
  <2>1. rel[ses[s].t] \in 0 .. MaxFile /\ rel[ses[s].t] < MaxFile
    BY DEF TypeOK, AtlasFile
  <2>2. rel[ses[s].t] + 1 \in Files
    BY <2>1, MaxFileAssumption DEF Files
  <2> QED
    BY <2>2
<1> DEFINE z == [ses[s] EXCEPT !.pc = "fileCommit", !.grant = g]
<1>3. z \in Session
  <2>1. "fileCommit" \in PCs
    BY DEF PCs
  <2> QED
    BY <1>1, <1>2, <2>1 DEF Session
<1>4. /\ z.cmd = ses[s].cmd /\ z.res = ses[s].res /\ z.found = ses[s].found
      /\ z.failed = ses[s].failed
      /\ z.pc = "fileCommit"
      /\ z.t = ses[s].t
      /\ z.todo = ses[s].todo
      /\ z.grant = IF role[ses[s].t] THEN {rel[ses[s].t] + 1} ELSE {}
  BY <1>1, <1>2 DEF Session
<1>5. ses' = [ses EXCEPT ![s] = z]
  BY <1>1, <1>2, Zenon DEF AtlasFile
<1> HIDE DEF z
<1> QED
  BY <1>1, <1>2, <1>3, <1>4, <1>5, Replace DEF Kept

\* The transaction of a file has ended.
LEMMA AtlasCommitShape ==
    ASSUME TypeOK, NEW s \in Sessions, AtlasCommit(s)
    PROVE  /\ Own(s) /\ Kept(s)
           /\ ses'[s].pc = "file"
           /\ ses'[s].t = ses[s].t
           /\ ses'[s].todo = ses[s].todo
<1>1. ses \in [Sessions -> Session] /\ ses[s] \in Session
  BY DEF TypeOK
<1> DEFINE z == [ses[s] EXCEPT !.pc = "file", !.grant = {}]
<1>2. z \in Session
  <2>1. "file" \in PCs
    BY DEF PCs
  <2> QED
    BY <1>1, <2>1 DEF Session
<1>3. /\ z.cmd = ses[s].cmd /\ z.res = ses[s].res /\ z.found = ses[s].found
      /\ z.failed = ses[s].failed
      /\ z.pc = "file"
      /\ z.t = ses[s].t
      /\ z.todo = ses[s].todo
  BY <1>1 DEF Session
<1>4. ses' = [ses EXCEPT ![s] = z]
  BY <1>1, Zenon DEF AtlasCommit
<1> HIDE DEF z
<1> QED
  BY <1>1, <1>2, <1>3, <1>4, Replace DEF Kept

\* atlas has returned nil.
LEMMA AtlasDoneShape ==
    ASSUME TypeOK, NEW s \in Sessions, AtlasDone(s)
    PROVE  /\ Own(s) /\ Kept(s)
           /\ ses'[s].pc = IF ses[s].cmd = "apply" THEN "revoke" ELSE "graphBegin"
           /\ ses'[s].t = ses[s].t
           /\ ses'[s].todo = ses[s].todo
           /\ ses'[s].attempt = 0
<1>1. ses \in [Sessions -> Session] /\ ses[s] \in Session
  BY DEF TypeOK
<1>2. PICK p \in PCs : p = IF ses[s].cmd = "apply" THEN "revoke" ELSE "graphBegin"
  BY <1>1 DEF PCs
<1> DEFINE z == [ses[s] EXCEPT !.attempt = 0, !.pc = p]
<1>3. z \in Session
  <2>1. 0 \in 0 .. MaxAttempts
    BY AttemptsAssumption
  <2> QED
    BY <1>1, <1>2, <2>1 DEF Session
<1>4. /\ z.cmd = ses[s].cmd /\ z.res = ses[s].res /\ z.found = ses[s].found
      /\ z.failed = ses[s].failed
      /\ z.pc = IF ses[s].cmd = "apply" THEN "revoke" ELSE "graphBegin"
      /\ z.t = ses[s].t
      /\ z.todo = ses[s].todo
      /\ z.attempt = 0
  BY <1>1, <1>2 DEF Session
<1>5. ses' = [ses EXCEPT ![s] = z]
  BY <1>1, <1>2, Zenon DEF AtlasDone
<1> HIDE DEF z
<1> QED
  BY <1>1, <1>2, <1>3, <1>4, <1>5, Replace DEF Kept

\* A deadlock is retried.
LEMMA RetryShape ==
    ASSUME TypeOK, NEW s \in Sessions, ses[s].attempt < MaxAttempts, AtlasDeadlock(s)
    PROVE  /\ Own(s) /\ Kept(s)
           /\ ses'[s].pc = "atlas"
           /\ ses'[s].t = ses[s].t
           /\ ses'[s].todo = ses[s].todo
           /\ ses'[s].attempt = ses[s].attempt
<1>1. ses \in [Sessions -> Session] /\ ses[s] \in Session
  BY DEF TypeOK
<1> DEFINE z == [ses[s] EXCEPT !.pc = "atlas", !.grant = {}]
<1>2. z \in Session
  <2>1. "atlas" \in PCs
    BY DEF PCs
  <2> QED
    BY <1>1, <2>1 DEF Session
<1>3. /\ z.cmd = ses[s].cmd /\ z.res = ses[s].res /\ z.found = ses[s].found
      /\ z.failed = ses[s].failed
      /\ z.pc = "atlas"
      /\ z.t = ses[s].t
      /\ z.todo = ses[s].todo
      /\ z.attempt = ses[s].attempt
  BY <1>1 DEF Session
<1>4. ses' = [ses EXCEPT ![s] = z]
  BY <1>1, Zenon DEF AtlasDeadlock
<1> HIDE DEF z
<1> QED
  BY <1>1, <1>2, <1>3, <1>4, Replace DEF Kept

\* The graph transaction has read the revisions.
LEMMA GraphBeginShape ==
    ASSUME TypeOK, NEW s \in Sessions, GraphBegin(s), ses[s].t \in Tenants
    PROVE  /\ Own(s) /\ Kept(s)
           /\ ses'[s].pc = "graphCommit"
           /\ ses'[s].t = ses[s].t
           /\ ses'[s].todo = ses[s].todo
           /\ ses'[s].attempt = ses[s].attempt
           /\ ses'[s].base = gr[ses[s].t]
<1>1. ses \in [Sessions -> Session] /\ ses[s] \in Session
  BY DEF TypeOK
<1>2. PICK b \in BOOLEAN : b = gr[ses[s].t]
  BY <1>1 DEF TypeOK
<1> DEFINE z == [ses[s] EXCEPT !.pc = "graphCommit", !.base = b]
<1>3. z \in Session
  <2>1. "graphCommit" \in PCs
    BY DEF PCs
  <2> QED
    BY <1>1, <1>2, <2>1 DEF Session
<1>4. /\ z.cmd = ses[s].cmd /\ z.res = ses[s].res /\ z.found = ses[s].found
      /\ z.failed = ses[s].failed
      /\ z.pc = "graphCommit"
      /\ z.t = ses[s].t
      /\ z.todo = ses[s].todo
      /\ z.attempt = ses[s].attempt
      /\ z.base = gr[ses[s].t]
  BY <1>1, <1>2 DEF Session
<1>5. ses' = [ses EXCEPT ![s] = z]
  BY <1>1, <1>2, Zenon DEF GraphBegin
<1> HIDE DEF z
<1> QED
  BY <1>1, <1>2, <1>3, <1>4, <1>5, Replace DEF Kept

\* A command begins.
LEMMA StartShape ==
    ASSUME TypeOK, NEW s \in Sessions, NEW c \in Cmds, NEW t \in Tenants,
           NEW o \in Orgs \cup {NoOrg}, NEW p \in PCs, Start(s, c, t, o, p)
    PROVE  /\ Own(s)
           /\ ses'[s].cmd = c /\ ses'[s].pc = p /\ ses'[s].t = t
           /\ ses'[s].attempt = 0 /\ ses'[s].res = "none"
<1> DEFINE z == [NewSession EXCEPT !.cmd = c, !.t = t, !.org = o, !.pc = p]
<1>1. ses \in [Sessions -> Session]
  BY DEF TypeOK
<1>2. z \in Session
  BY NewSessionType DEF Session
<1>3. z.cmd = c /\ z.pc = p /\ z.t = t /\ z.attempt = 0 /\ z.res = "none"
  BY NewSessionType DEF Session
<1>4. ses' = [ses EXCEPT ![s] = z]
  BY Zenon DEF Start
<1> HIDE DEF z
<1> QED
  BY <1>1, <1>2, <1>3, <1>4, Replace

\* cmd/migrate begins with the tenants discovered.
LEMMA MigrateAllShape ==
    ASSUME TypeOK, NEW s \in Sessions, MigrateAll(s)
    PROVE  /\ Own(s)
           /\ ses'[s].cmd = "all" /\ ses'[s].pc = "pick" /\ ses'[s].attempt = 0
           /\ ses'[s].res = "none" /\ ses'[s].todo = ses'[s].found
<1>1. PICK d \in SUBSET Tenants : d = discoverTenants
  BY DEF discoverTenants
<1> DEFINE z == [NewSession EXCEPT !.cmd = "all", !.pc = "pick", !.found = d, !.todo = d]
<1>2. ses \in [Sessions -> Session]
  BY DEF TypeOK
<1>3. z \in Session
  <2>1. "all" \in Cmds /\ "pick" \in PCs
    BY DEF Cmds, PCs
  <2> QED
    BY <2>1, NewSessionType DEF Session
<1>4. /\ z.cmd = "all" /\ z.pc = "pick" /\ z.attempt = 0 /\ z.res = "none"
      /\ z.todo = z.found
  BY NewSessionType DEF Session
<1>5. ses' = [ses EXCEPT ![s] = z]
  BY <1>1, Zenon DEF MigrateAll
<1> HIDE DEF z
<1> QED
  BY <1>2, <1>3, <1>4, <1>5, Replace

\* After the graph files the loop goes on.
LEMMA GraphCommitShape ==
    ASSUME TypeOK, NEW s \in Sessions, GraphCommit(s), gr[ses[s].t] = ses[s].base,
           ses[s].cmd = "all"
    PROVE  /\ Own(s) /\ Kept(s)
           /\ ses'[s].pc = "pick" /\ ses'[s].t = ses[s].t
           /\ ses'[s].todo = ses[s].todo /\ ses'[s].attempt = ses[s].attempt
<1>1. Goto(s, "pick")
  BY DEF GraphCommit, Goto
<1>2. "pick" \in PCs
  BY DEF PCs
<1> QED
  BY <1>1, <1>2, GotoShape

----------------------------------------------------------------------------
(* Types *)

StepOf(s) == Command(s) \/ Step(s) \/ Killed(s)

\* Past the guard of its step a session has a tenant.
LEMMA HasTenant ==
    ASSUME NEW s \in Sessions, ControlOK(s), ses[s].pc \notin {"idle", "pick"}
    PROVE  ses[s].t \in Tenants
BY DEF ControlOK

\* Every step is a step of one session and keeps the types of all of them.
LEMMA OwnStep ==
    ASSUME TypeOK, NEW s \in Sessions, ControlOK(s), StepOf(s)
    PROVE  Own(s)
<1> USE DEF At
<1>0. {"row", "graphProbe", "atlas", "smokeAudit", "roleGrant", "graphCreate",
       "smokePolicy", "smokeOnboard"} \subseteq PCs
  BY DEF PCs
<1>1. CASE Command(s)
  <2>1. {"create", "bootstrap", "apply", "smoke", "one"} \subseteq Cmds
    BY DEF Cmds
  <2>2. ASSUME NEW t \in Tenants, NEW o \in Orgs, TenantCreate(s, t, o) PROVE Own(s)
    BY <1>0, <2>1, <2>2, StartShape DEF TenantCreate
  <2>3. ASSUME NEW t \in Tenants,
               TenantBootstrap(s, t) \/ TenantApply(s, t) \/ TenantSmoke(s, t) \/ MigrateOne(s, t)
        PROVE  Own(s)
    BY <1>0, <2>1, <2>3, StartShape DEF TenantBootstrap, TenantApply, TenantSmoke, MigrateOne
  <2> QED
    BY <1>1, <2>2, <2>3, MigrateAllShape DEF Command
<1>2. CASE Killed(s)
  BY <1>2, ExitShape DEF Killed
<1>3. CASE PickTenant(s)
  BY <1>3, PickShape, ExitShape DEF PickTenant
<1>4. CASE RegisterTenant(s) \/ ProbeGraph(s) \/ CreateGraph(s)
  BY <1>0, <1>4, GotoShape, ExitShape DEF RegisterTenant, ProbeGraph, CreateGraph
<1>5. CASE SmokeAudit(s) \/ SmokePolicy(s) \/ SmokeOnboard(s)
  BY <1>0, <1>5, GotoShape, ExitShape DEF SmokeAudit, SmokePolicy, SmokeOnboard
<1>6. CASE CreateRole(s) \/ RevokeAuditLogWrites(s)
  BY <1>6, ExitShape DEF CreateRole, RevokeAuditLogWrites
<1>7. CASE GrantRole(s)
  BY <1>7, GrantShape, HasTenant DEF GrantRole
<1>8. CASE AtlasStart(s)
  BY <1>8, AtlasStartShape DEF AtlasStart, ControlOK
<1>9. CASE AtlasFile(s)
  BY <1>9, AtlasFileShape, HasTenant DEF AtlasFile
<1>10. CASE AtlasCommit(s) \/ AtlasDone(s)
  BY <1>10, AtlasCommitShape, AtlasDoneShape
<1>11. CASE AtlasDeadlock(s)
  BY <1>11, RetryShape, FailShape, HasTenant DEF AtlasDeadlock
<1>12. CASE AtlasFails(s) \/ GraphFails(s)
  BY <1>12, FailShape, HasTenant DEF AtlasFails, GraphFails
<1>13. CASE GraphBegin(s)
  BY <1>13, GraphBeginShape, HasTenant DEF GraphBegin
<1>14. CASE GraphCommit(s)
  <2>1. ses[s].t \in Tenants
    BY <1>14, HasTenant DEF GraphCommit
  <2>2. CASE gr[ses[s].t] # ses[s].base
    BY <1>14, <2>1, <2>2, FailShape DEF GraphCommit
  <2>3. CASE gr[ses[s].t] = ses[s].base /\ ses[s].cmd = "all"
    BY <1>14, <2>3, GraphCommitShape
  <2>4. CASE gr[ses[s].t] = ses[s].base /\ ses[s].cmd # "all"
    BY <1>14, <2>4, ExitShape DEF GraphCommit
  <2> QED
    BY <2>2, <2>3, <2>4
<1> QED
  BY <1>1, <1>2, <1>3, <1>4, <1>5, <1>6, <1>7, <1>8, <1>9, <1>10, <1>11, <1>12, <1>13,
     <1>14 DEF StepOf, Step

\* The step changes nothing in the database but locks.
Calm == UNCHANGED << dbvars, overlap >>

\* The steps that change the database.
LEMMA StepKinds ==
    ASSUME NEW s \in Sessions, StepOf(s)
    PROVE  \/ Calm
           \/ RegisterTenant(s) \/ CreateGraph(s) \/ GrantRole(s) \/ CreateRole(s)
           \/ AtlasFile(s) \/ AtlasCommit(s) \/ RevokeAuditLogWrites(s)
           \/ GraphCommit(s) \/ SmokeOnboard(s)
<1>1. CASE Command(s)
  BY <1>1 DEF Command, TenantCreate, TenantBootstrap, TenantApply, TenantSmoke,
     MigrateOne, MigrateAll, Start, Calm
<1>2. CASE Killed(s)
  BY <1>2 DEF Killed, Calm
<1>3. CASE Step(s)
  BY <1>3 DEF Step, PickTenant, ProbeGraph, AtlasStart, AtlasDone, AtlasDeadlock,
     AtlasFails, GraphBegin, GraphFails, SmokeAudit, SmokePolicy, Calm
<1> QED
  BY <1>1, <1>2, <1>3 DEF StepOf

\* The session that holds atlas's lock is the only one applying files.
LEMMA LockType ==
    ASSUME TypeOK, NEW s \in Sessions, StepOf(s)
    PROVE  lock' \in Sessions \cup {Free}
<1>1. CASE Command(s)
  BY <1>1 DEF Command, TenantCreate, TenantBootstrap, TenantApply, TenantSmoke,
     MigrateOne, MigrateAll, Start, TypeOK
<1>2. CASE Killed(s)
  BY <1>2 DEF Killed, Release, TypeOK
<1>3. CASE Step(s)
  BY <1>3 DEF Step, PickTenant, ProbeGraph, AtlasStart, AtlasDone, AtlasDeadlock,
     AtlasFails, GraphBegin, GraphFails, SmokeAudit, SmokePolicy, RegisterTenant,
     CreateGraph, GrantRole, CreateRole, AtlasFile, AtlasCommit, RevokeAuditLogWrites,
     GraphCommit, SmokeOnboard, Release, TypeOK
<1> QED
  BY <1>1, <1>2, <1>3 DEF StepOf

\* A transaction of a file is open below the last file.
LEMMA FilePending ==
    ASSUME TypeOK, NEW s \in Sessions, ControlOK(s), FileOpenOK(s), At(s, "fileCommit")
    PROVE  /\ ses[s].t \in Tenants
           /\ rel[ses[s].t] \in 0 .. MaxFile /\ rel[ses[s].t] + 1 \in Files
<1>1. ses[s].t \in Tenants /\ rel[ses[s].t] < MaxFile
  BY DEF ControlOK, FileOpenOK, At
<1> QED
  BY <1>1, MaxFileAssumption DEF TypeOK, Files

\* Every step keeps the types.
LEMMA TypeStep ==
    ASSUME ProvisionInv, NEW s \in Sessions, StepOf(s)
    PROVE  TypeOK'
<1>0. TypeOK /\ ControlOK(s) /\ FileOpenOK(s)
  BY DEF ProvisionInv, SessionOK
<1>1. Own(s) /\ lock' \in Sessions \cup {Free}
  BY <1>0, OwnStep, LockType
<1>2. CASE Calm
  BY <1>0, <1>1, <1>2 DEF Calm, dbvars, TypeOK, Own
<1>3. CASE RegisterTenant(s)
  <2>1. ses[s].t \in Tenants
    BY <1>0, <1>3, HasTenant DEF RegisterTenant, At
  <2>2. registry' \in [Orgs -> Tenants \cup {NoTenant}]
    BY <1>0, <1>3, <2>1 DEF RegisterTenant, TypeOK
  <2> QED
    BY <1>0, <1>1, <1>3, <2>2 DEF RegisterTenant, TypeOK, Own
<1>4. CASE CreateGraph(s)
  <2>1. graph' \in [Tenants -> BOOLEAN]
    BY <1>0, <1>4 DEF CreateGraph, TypeOK
  <2> QED
    BY <1>0, <1>1, <1>4, <2>1 DEF CreateGraph, TypeOK, Own
<1>5. CASE GrantRole(s)
  <2>1. ses[s].t \in Tenants
    BY <1>0, <1>5, HasTenant DEF GrantRole, At
  <2>2. ASSUME NEW q \in Sessions, At(q, "fileCommit"), ses[q].t = ses[s].t
        PROVE  << ses[s].t, rel[ses[s].t] + 1 >> \in Tenants \X Files
    <3>1. ControlOK(q) /\ FileOpenOK(q)
      BY DEF ProvisionInv, SessionOK
    <3> QED
      BY <1>0, <2>1, <2>2, <3>1, FilePending
  <2>3. overlap' \in SUBSET (Tenants \X Files)
    BY <1>0, <1>5, <2>2 DEF GrantRole, TypeOK
  <2> QED
    BY <1>0, <1>1, <1>5, <2>3 DEF GrantRole, dbvars, TypeOK, Own
<1>6. CASE CreateRole(s)
  <2>1. ses[s].t \in Tenants /\ ses[s].grant \subseteq Files
    BY <1>0, <1>6, HasTenant, Fields DEF CreateRole, At, TypeOK
  <2>2. /\ role' \in [Tenants -> BOOLEAN]
        /\ upd' \in [Tenants -> BOOLEAN]
        /\ overlap' \in SUBSET (Tenants \X Files)
    BY <1>0, <1>6, <2>1 DEF CreateRole, TypeOK
  <2>3. priv' \in [Tenants -> SUBSET Files]
    BY <1>0, <1>6, <2>1 DEF CreateRole, TypeOK
  <2> QED
    BY <1>0, <1>1, <1>6, <2>2, <2>3 DEF CreateRole, TypeOK, Own
<1>7. CASE AtlasFile(s)
  <2>1. ses[s].t \in Tenants
    BY <1>0, <1>7, HasTenant DEF AtlasFile, At
  <2>2. rel[ses[s].t] + 1 \in Files
    BY <1>0, <1>7, <2>1, MaxFileAssumption DEF AtlasFile, TypeOK, Files
  <2>3. overlap' \in SUBSET (Tenants \X Files)
    BY <1>0, <1>7, <2>1, <2>2 DEF AtlasFile, TypeOK
  <2> QED
    BY <1>0, <1>1, <1>7, <2>3 DEF AtlasFile, dbvars, TypeOK, Own
<1>8. CASE AtlasCommit(s)
  <2>1. /\ ses[s].t \in Tenants /\ rel[ses[s].t] + 1 \in 0 .. MaxFile
        /\ ses[s].grant \subseteq Files
    BY <1>0, <1>8, FilePending, Fields, MaxFileAssumption DEF AtlasCommit, Files, TypeOK
  <2>2. rel' \in [Tenants -> 0 .. MaxFile] /\ upd' \in [Tenants -> BOOLEAN]
    BY <1>0, <1>8, <2>1 DEF AtlasCommit, TypeOK
  <2>3. priv' \in [Tenants -> SUBSET Files]
    BY <1>0, <1>8, <2>1 DEF AtlasCommit, TypeOK
  <2> QED
    BY <1>0, <1>1, <1>8, <2>2, <2>3 DEF AtlasCommit, TypeOK, Own
<1>9. CASE RevokeAuditLogWrites(s)
  <2>1. upd' \in [Tenants -> BOOLEAN]
    BY <1>0, <1>9 DEF RevokeAuditLogWrites, TypeOK
  <2> QED
    BY <1>0, <1>1, <1>9, <2>1 DEF RevokeAuditLogWrites, TypeOK, Own
<1>10. CASE GraphCommit(s)
  <2>1. gr' \in [Tenants -> BOOLEAN]
    BY <1>0, <1>10 DEF GraphCommit, TypeOK
  <2> QED
    BY <1>0, <1>1, <1>10, <2>1 DEF GraphCommit, TypeOK, Own
<1>11. CASE SmokeOnboard(s)
  <2>1. onboarded' \in [Tenants -> BOOLEAN]
    BY <1>0, <1>11 DEF SmokeOnboard, TypeOK
  <2> QED
    BY <1>0, <1>1, <1>11, <2>1 DEF SmokeOnboard, TypeOK, Own
<1> QED
  BY <1>2, <1>3, <1>4, <1>5, <1>6, <1>7, <1>8, <1>9, <1>10, <1>11, StepKinds

----------------------------------------------------------------------------
(* The lock, and what only grows *)

\* Nothing the commands create is ever taken back.
Grows(t) ==
    /\ graph[t] => graph'[t]
    /\ role[t] => role'[t]
    /\ gr[t] => gr'[t]
    /\ rel[t] <= rel'[t]
    /\ priv[t] \subseteq priv'[t]

\* CREATE, GRANT and recorded revisions are the only changes to the schemas.
LEMMA GrowsStep ==
    ASSUME ProvisionInv, NEW s \in Sessions, StepOf(s), NEW t \in Tenants
    PROVE  Grows(t)
<1>0. TypeOK /\ rel[t] \in Nat
  BY MaxFileAssumption DEF ProvisionInv, TypeOK
<1> USE DEF Grows
<1>1. CASE UNCHANGED << graph, role, gr, rel, priv >>
  BY <1>0, <1>1
<1>2. CASE CreateGraph(s)
  BY <1>0, <1>2 DEF CreateGraph, TypeOK
<1>3. CASE CreateRole(s)
  BY <1>0, <1>3 DEF CreateRole, TypeOK
<1>4. CASE AtlasCommit(s)
  BY <1>0, <1>4 DEF AtlasCommit, TypeOK
<1>5. CASE GraphCommit(s)
  BY <1>0, <1>5 DEF GraphCommit, TypeOK
<1> QED
  BY <1>1, <1>2, <1>3, <1>4, <1>5, StepKinds
  DEF Calm, dbvars, RegisterTenant, GrantRole, AtlasFile, RevokeAuditLogWrites, SmokeOnboard

\* atlas takes its lock when it starts, and every way out of it gives it back.
LEMMA LockStep ==
    ASSUME ProvisionInv, NEW s \in Sessions, StepOf(s)
    PROVE  LockOK'
<1>0. TypeOK /\ ControlOK(s) /\ LockOK /\ Own(s)
  BY OwnStep DEF ProvisionInv, SessionOK
<1> DEFINE Applying(x) == ses[x].pc \in {"file", "fileCommit"}
<1>1. /\ \A x \in Sessions : (lock = x) <=> Applying(x)
      /\ \A x \in Sessions : x # s => (Applying(x)' <=> Applying(x))
  BY <1>0 DEF LockOK, Own
<1>2. SUFFICES \/ lock' = lock /\ (Applying(s)' <=> Applying(s))
               \/ lock = Free /\ lock' = s /\ Applying(s)'
               \/ lock = s /\ lock' = Free /\ ~ Applying(s)'
  BY <1>0, <1>1, NamesAssumption DEF LockOK, TypeOK
<1> HIDE DEF Applying
<1>3. ASSUME ses'[s].pc \notin {"file", "fileCommit"}, Release(s)
      PROVE  \/ lock' = lock /\ (Applying(s)' <=> Applying(s))
             \/ lock = s /\ lock' = Free /\ ~ Applying(s)'
  BY <1>1, <1>3 DEF Release, Applying
<1>4. ASSUME ses'[s].pc \notin {"file", "fileCommit"}, ses[s].pc \notin {"file", "fileCommit"},
             lock' = lock
      PROVE  lock' = lock /\ (Applying(s)' <=> Applying(s))
  BY <1>4 DEF Applying
<1> USE DEF At
<1>5. {"row", "graphProbe", "atlas", "smokeAudit", "roleGrant", "graphCreate",
       "smokePolicy", "smokeOnboard"} \subseteq PCs
  BY DEF PCs
<1>6. CASE Command(s)
  <2>1. lock' = lock /\ ses[s].pc = "idle"
    BY <1>6 DEF Command, TenantCreate, TenantBootstrap, TenantApply, TenantSmoke,
       MigrateOne, MigrateAll, Start
  <2>2. {"create", "bootstrap", "apply", "smoke", "one"} \subseteq Cmds
    BY DEF Cmds
  <2>3. ASSUME NEW t \in Tenants, NEW o \in Orgs, TenantCreate(s, t, o)
        PROVE  ses'[s].pc = "row"
    BY <1>0, <1>5, <2>2, <2>3, StartShape DEF TenantCreate
  <2>4. ASSUME NEW t \in Tenants,
               TenantBootstrap(s, t) \/ TenantApply(s, t) \/ TenantSmoke(s, t) \/ MigrateOne(s, t)
        PROVE  ses'[s].pc \in {"graphProbe", "atlas", "smokeAudit"}
    BY <1>0, <1>5, <2>2, <2>4, StartShape
    DEF TenantBootstrap, TenantApply, TenantSmoke, MigrateOne
  <2>5. ses'[s].pc \notin {"file", "fileCommit"}
    BY <1>0, <1>6, <2>3, <2>4, MigrateAllShape DEF Command
  <2> QED
    BY <1>4, <2>1, <2>5
<1>7. CASE Killed(s)
  BY <1>0, <1>3, <1>7, ExitShape DEF Killed
<1>8. CASE PickTenant(s)
  BY <1>0, <1>4, <1>8, PickShape, ExitShape DEF PickTenant
<1>9. CASE RegisterTenant(s) \/ ProbeGraph(s) \/ CreateGraph(s)
  BY <1>0, <1>4, <1>5, <1>9, GotoShape, ExitShape DEF RegisterTenant, ProbeGraph, CreateGraph
<1>10. CASE SmokeAudit(s) \/ SmokePolicy(s) \/ SmokeOnboard(s)
  BY <1>0, <1>4, <1>5, <1>10, GotoShape, ExitShape DEF SmokeAudit, SmokePolicy, SmokeOnboard
<1>11. CASE CreateRole(s) \/ RevokeAuditLogWrites(s)
  BY <1>0, <1>4, <1>11, ExitShape DEF CreateRole, RevokeAuditLogWrites
<1>12. CASE GrantRole(s)
  BY <1>0, <1>4, <1>12, GrantShape, HasTenant DEF GrantRole
<1>13. CASE AtlasStart(s)
  BY <1>0, <1>13, AtlasStartShape DEF AtlasStart, ControlOK, Applying
<1>14. CASE AtlasFile(s)
  BY <1>0, <1>14, AtlasFileShape, HasTenant DEF AtlasFile, Applying
<1>15. CASE AtlasCommit(s)
  BY <1>0, <1>15, AtlasCommitShape DEF AtlasCommit, Applying
<1>16. CASE AtlasDone(s)
  <2>1. ses'[s].pc \in {"revoke", "graphBegin"} /\ ses[s].pc = "file" /\ lock' = Free
    BY <1>0, <1>16, AtlasDoneShape DEF AtlasDone
  <2> QED
    BY <1>1, <2>1 DEF Applying
<1>17. CASE AtlasDeadlock(s)
  <2>1. ses'[s].pc \in {"atlas", "idle", "pick"}
    BY <1>0, <1>17, RetryShape, FailShape, HasTenant DEF AtlasDeadlock
  <2> QED
    BY <1>1, <1>17, <2>1 DEF AtlasDeadlock, Applying
<1>18. CASE AtlasFails(s)
  BY <1>0, <1>3, <1>18, FailShape, HasTenant DEF AtlasFails
<1>19. CASE GraphFails(s)
  BY <1>0, <1>4, <1>19, FailShape, HasTenant DEF GraphFails
<1>20. CASE GraphBegin(s)
  BY <1>0, <1>4, <1>20, GraphBeginShape, HasTenant DEF GraphBegin
<1>21. CASE GraphCommit(s)
  <2>1. ses[s].t \in Tenants /\ lock' = lock /\ ses[s].pc = "graphCommit"
    BY <1>0, <1>21, HasTenant DEF GraphCommit
  <2>2. CASE gr[ses[s].t] # ses[s].base
    BY <1>0, <1>4, <1>21, <2>1, <2>2, FailShape DEF GraphCommit
  <2>3. CASE gr[ses[s].t] = ses[s].base /\ ses[s].cmd = "all"
    BY <1>0, <1>4, <1>21, <2>1, <2>3, GraphCommitShape
  <2>4. CASE gr[ses[s].t] = ses[s].base /\ ses[s].cmd # "all"
    BY <1>0, <1>4, <1>21, <2>1, <2>4, ExitShape DEF GraphCommit
  <2> QED
    BY <2>2, <2>3, <2>4
<1> QED
  BY <1>6, <1>7, <1>8, <1>9, <1>10, <1>11, <1>12, <1>13, <1>14, <1>15, <1>16, <1>17,
     <1>18, <1>19, <1>20, <1>21 DEF StepOf, Step

----------------------------------------------------------------------------
(* The sessions *)

\* What was complete stays complete.
LEMMA UpgradedKept ==
    ASSUME TypeOK, TypeOK', NEW t \in Tenants, Grows(t)
    PROVE  /\ rel[t] = MaxFile => rel'[t] = MaxFile
           /\ Upgraded(t) => Upgraded(t)'
<1>1. rel[t] \in 0 .. MaxFile /\ rel'[t] \in 0 .. MaxFile /\ rel[t] <= rel'[t]
  BY DEF TypeOK, Grows
<1>2. rel[t] = MaxFile => rel'[t] = MaxFile
  BY <1>1, MaxFileAssumption
<1> QED
  BY <1>2 DEF Upgraded, Grows

\* A session that does not move keeps what it relies on.
LEMMA OtherSession ==
    ASSUME TypeOK, TypeOK', \A t \in Tenants : Grows(t),
           NEW x \in Sessions, SessionOK(x), ses'[x] = ses[x]
    PROVE  SessionOK(x)'
<1>1. ses[x] \in Session /\ ses[x].found \subseteq Tenants
  BY Fields DEF TypeOK
<1>2. ControlOK(x)'
  BY DEF SessionOK, ControlOK
<1>3. ReachedOK(x)'
  <2>1. CASE ses[x].pc \in {"idle", "pick"}
    BY <2>1 DEF ReachedOK, Graphing
  <2>2. CASE ses[x].pc \notin {"idle", "pick"}
    <3>1. ses[x].t \in Tenants
      BY <2>2 DEF SessionOK, ControlOK
    <3>2. Grows(ses[x].t) /\ (rel[ses[x].t] = MaxFile => rel'[ses[x].t] = MaxFile)
      BY <3>1, UpgradedKept
    <3> QED
      BY <3>2 DEF SessionOK, ReachedOK, Grows
  <2> QED
    BY <2>1, <2>2
<1>4. LoopOK(x)'
  <2>1. \A u \in ses[x].found : Upgraded(u) => Upgraded(u)'
    BY <1>1, UpgradedKept
  <2>2. ses[x].t \in Tenants =>
          /\ Upgraded(ses[x].t) => Upgraded(ses[x].t)'
          /\ rel[ses[x].t] = MaxFile => rel'[ses[x].t] = MaxFile
          /\ graph[ses[x].t] /\ role[ses[x].t] => graph'[ses[x].t] /\ role'[ses[x].t]
    BY UpgradedKept DEF Grows
  <2>3. LoopOK(x)
    BY DEF SessionOK
  <2> QED
    BY <2>1, <2>2, <2>3 DEF LoopOK, Upgraded
<1> QED
  BY <1>2, <1>3, <1>4 DEF SessionOK

\* The process has ended with an error.
LEMMA ErrorSession ==
    ASSUME NEW s \in Sessions, ses'[s].pc = "idle", ses'[s].res = "error"
    PROVE  SessionOK(s)'
BY DEF SessionOK, ControlOK, ReachedOK, LoopOK, Creating, Migrating, Graphing, Smoking

\* A failed step leaves the tenant recorded, or ends the command.
LEMMA FailedSession ==
    ASSUME TypeOK, TypeOK', \A t \in Tenants : Grows(t), NEW s \in Sessions, SessionOK(s),
           ses[s].pc \notin {"idle", "pick"}, StepFails(s)
    PROVE  SessionOK(s)'
<1>1. ses[s].t \in Tenants /\ ses[s].res = "none"
  BY DEF SessionOK, ControlOK
<1>2. CASE ses'[s].pc = "idle" /\ ses'[s].res = "error"
  BY <1>2, ErrorSession
<1>3. CASE ~ (ses'[s].pc = "idle" /\ ses'[s].res = "error")
  <2>1. /\ ses[s].cmd = "all" /\ ses'[s].cmd = "all"
        /\ ses'[s].pc = "pick" /\ ses'[s].res = "none"
        /\ ses'[s].t = ses[s].t /\ ses'[s].attempt = 0
        /\ ses'[s].found = ses[s].found /\ ses'[s].todo = ses[s].todo
        /\ ses'[s].failed = ses[s].failed \cup {ses[s].t}
    BY <1>1, <1>3, FailShape
  <2>2. ControlOK(s)' /\ ReachedOK(s)'
    BY <2>1 DEF ControlOK, ReachedOK, Creating, Migrating, Graphing, Smoking
  <2>3. ses[s].found \subseteq Tenants
    BY Fields DEF TypeOK
  <2>4. \A u \in ses[s].found : Upgraded(u) => Upgraded(u)'
    BY <2>3, UpgradedKept
  <2>5. \A u \in ses[s].found : \/ u \in ses[s].todo \/ u \in ses[s].failed \/ Upgraded(u)
                                \/ u = ses[s].t
    BY <2>1 DEF SessionOK, LoopOK
  <2>6. LoopOK(s)'
    BY <2>1, <2>4, <2>5 DEF LoopOK
  <2> QED
    BY <2>2, <2>6 DEF SessionOK
<1> QED
  BY <1>2, <1>3

\* A session inside a command whose tenants are as they were.
LEMMA LoopKept ==
    ASSUME TypeOK, TypeOK', \A t \in Tenants : Grows(t), NEW s \in Sessions, SessionOK(s),
           Kept(s), ses'[s].t = ses[s].t, ses'[s].todo = ses[s].todo,
           ses[s].pc \notin {"idle", "pick"}, ses'[s].pc \notin {"idle", "pick"}
    PROVE  LoopOK(s)'
<1>1. ses[s].found \subseteq Tenants
  BY Fields DEF TypeOK
<1>2. \A u \in ses[s].found : Upgraded(u) => Upgraded(u)'
  BY <1>1, UpgradedKept
<1>3. ses'[s].res = "none" /\ ses'[s].found = ses[s].found /\ ses'[s].failed = ses[s].failed
      /\ ses'[s].cmd = ses[s].cmd
  BY DEF SessionOK, ControlOK, Kept
<1> QED
  BY <1>2, <1>3 DEF SessionOK, LoopOK

\* Outside the loop there is nothing to keep of it.
LEMMA NoLoop ==
    ASSUME NEW s \in Sessions, ses'[s].cmd # "all", ses'[s].res = "none"
    PROVE  LoopOK(s)'
BY DEF LoopOK

\* A command begins with nothing done.
LEMMA StartSession ==
    ASSUME TypeOK, NEW s \in Sessions, Command(s)
    PROVE  SessionOK(s)'
<1>1. {"create", "bootstrap", "apply", "smoke", "one"} \subseteq Cmds
  BY DEF Cmds
<1>2. {"row", "graphProbe", "atlas", "smokeAudit"} \subseteq PCs
  BY DEF PCs
<1>3. 0 < MaxAttempts
  BY AttemptsAssumption
<1> USE DEF SessionOK, ControlOK, ReachedOK, Creating, Migrating, Graphing, Smoking
<1>4. ASSUME NEW t \in Tenants, NEW o \in Orgs, TenantCreate(s, t, o) PROVE SessionOK(s)'
  BY <1>1, <1>2, <1>4, StartShape, NoLoop DEF TenantCreate
<1>5. ASSUME NEW t \in Tenants, TenantBootstrap(s, t) PROVE SessionOK(s)'
  BY <1>1, <1>2, <1>5, StartShape, NoLoop DEF TenantBootstrap
<1>6. ASSUME NEW t \in Tenants, TenantApply(s, t) PROVE SessionOK(s)'
  BY <1>1, <1>2, <1>3, <1>6, StartShape, NoLoop DEF TenantApply
<1>7. ASSUME NEW t \in Tenants, TenantSmoke(s, t) PROVE SessionOK(s)'
  BY <1>1, <1>2, <1>7, StartShape, NoLoop DEF TenantSmoke
<1>8. ASSUME NEW t \in Tenants, MigrateOne(s, t) PROVE SessionOK(s)'
  BY <1>1, <1>2, <1>3, <1>8, StartShape, NoLoop DEF MigrateOne
<1>9. CASE MigrateAll(s)
  <2>1. /\ ses'[s].cmd = "all" /\ ses'[s].pc = "pick" /\ ses'[s].attempt = 0
        /\ ses'[s].res = "none" /\ ses'[s].todo = ses'[s].found
    BY <1>9, MigrateAllShape
  <2>2. LoopOK(s)'
    BY <2>1 DEF LoopOK
  <2> QED
    BY <2>1, <2>2
<1> QED
  BY <1>4, <1>5, <1>6, <1>7, <1>8, <1>9 DEF Command

\* The commands that create and check a tenant.
LEMMA CreateSession ==
    ASSUME TypeOK, TypeOK', \A t \in Tenants : Grows(t), NEW s \in Sessions, SessionOK(s),
           \/ RegisterTenant(s) \/ ProbeGraph(s) \/ CreateGraph(s) \/ GrantRole(s)
           \/ CreateRole(s) \/ SmokeAudit(s) \/ SmokePolicy(s) \/ SmokeOnboard(s)
    PROVE  SessionOK(s)'
<1>1. ses[s].pc \notin {"idle", "pick"} /\ ses[s].pc \in Creating \cup Smoking
  BY DEF RegisterTenant, ProbeGraph, CreateGraph, GrantRole, CreateRole, SmokeAudit,
     SmokePolicy, SmokeOnboard, At, Creating, Smoking
<1>2. /\ ses[s].t \in Tenants /\ ses[s].res = "none"
      /\ ses[s].cmd \in {"create", "bootstrap", "smoke"}
  BY <1>1 DEF SessionOK, ControlOK
<1>3. {"graphProbe", "roleGrant", "graphCreate", "smokePolicy", "smokeOnboard"} \subseteq PCs
  BY DEF PCs
<1>4. ASSUME Exit(s, "error") PROVE SessionOK(s)'
  BY <1>4, ExitShape, ErrorSession
<1> USE DEF At, Creating, Migrating, Graphing, Smoking
<1>5. ASSUME NEW p \in {"graphProbe", "roleGrant", "graphCreate"}, Goto(s, p),
             ses[s].pc \in Creating
      PROVE  SessionOK(s)'
  <2>1. /\ ses'[s].pc = p /\ ses'[s].t = ses[s].t /\ ses'[s].cmd = ses[s].cmd
        /\ ses'[s].res = "none"
    BY <1>2, <1>3, <1>5, GotoShape DEF Kept
  <2>2. ControlOK(s)' /\ ReachedOK(s)'
    BY <1>2, <1>5, <2>1 DEF SessionOK, ControlOK, ReachedOK
  <2> QED
    BY <1>2, <2>1, <2>2, NoLoop DEF SessionOK
<1>6. CASE RegisterTenant(s)
  BY <1>4, <1>5, <1>6 DEF RegisterTenant
<1>7. CASE ProbeGraph(s)
  BY <1>5, <1>7 DEF ProbeGraph
<1>8. CASE CreateGraph(s)
  BY <1>4, <1>5, <1>8 DEF CreateGraph
<1>9. CASE GrantRole(s)
  <2>1. /\ ses'[s].pc = "roleCommit" /\ ses'[s].t = ses[s].t /\ ses'[s].cmd = ses[s].cmd
        /\ ses'[s].res = "none" /\ graph[ses[s].t]
    BY <1>2, <1>9, GrantShape DEF GrantRole, Kept
  <2>2. graph'[ses[s].t]
    BY <1>2, <2>1 DEF Grows
  <2>3. ControlOK(s)' /\ ReachedOK(s)'
    BY <1>2, <1>9, <2>1, <2>2 DEF SessionOK, ControlOK, ReachedOK, GrantRole
  <2> QED
    BY <1>2, <2>1, <2>3, NoLoop DEF SessionOK
<1>10. CASE CreateRole(s)
  <2>1. CASE role[ses[s].t] # ses[s].base
    BY <1>4, <1>10, <2>1 DEF CreateRole
  <2>2. CASE role[ses[s].t] = ses[s].base
    <3>1. /\ ses'[s].pc = "idle" /\ ses'[s].res = "ok" /\ ses'[s].cmd = ses[s].cmd
          /\ ses'[s].t = ses[s].t
      BY <1>10, <2>2, ExitShape DEF CreateRole
    <3>2. role'[ses[s].t] /\ graph'[ses[s].t]
      <4>1. graph[ses[s].t]
        BY <1>10 DEF CreateRole, SessionOK, ReachedOK
      <4> QED
        BY <1>2, <1>10, <2>2, <4>1 DEF CreateRole, TypeOK, Grows
    <3>3. ses[s].cmd \in {"create", "bootstrap"}
      BY <1>10 DEF CreateRole, SessionOK, ControlOK
    <3> QED
      BY <1>2, <3>1, <3>2, <3>3 DEF SessionOK, ControlOK, ReachedOK, LoopOK
  <2> QED
    BY <2>1, <2>2
<1>11. CASE SmokeAudit(s)
  <2>1. CASE WithTenantTx(ses[s].t, AuditFile) /\ Goto(s, "smokePolicy")
    <3>1. /\ ses'[s].pc = "smokePolicy" /\ ses'[s].t = ses[s].t /\ ses'[s].cmd = ses[s].cmd
          /\ ses'[s].res = "none" /\ ses[s].cmd = "smoke"
      BY <1>2, <1>3, <1>11, <2>1, GotoShape DEF Kept, SmokeAudit, SessionOK, ControlOK
    <3>2. role'[ses[s].t] /\ AuditFile \in priv'[ses[s].t]
      BY <1>2, <2>1 DEF WithTenantTx, Grows
    <3> QED
      BY <1>2, <3>1, <3>2, NoLoop DEF SessionOK, ControlOK, ReachedOK
  <2> QED
    BY <1>4, <1>11, <2>1 DEF SmokeAudit
<1>12. CASE SmokePolicy(s)
  <2>1. CASE WithTenantTx(ses[s].t, PolicyFile) /\ Goto(s, "smokeOnboard")
    <3>1. /\ ses'[s].pc = "smokeOnboard" /\ ses'[s].t = ses[s].t /\ ses'[s].cmd = ses[s].cmd
          /\ ses'[s].res = "none" /\ ses[s].cmd = "smoke" /\ AuditFile \in priv[ses[s].t]
      BY <1>2, <1>3, <1>12, <2>1, GotoShape
      DEF Kept, SmokePolicy, SessionOK, ControlOK, ReachedOK
    <3>2. role'[ses[s].t] /\ {AuditFile, PolicyFile} \subseteq priv'[ses[s].t]
      BY <1>2, <2>1, <3>1 DEF WithTenantTx, Grows
    <3> QED
      BY <1>2, <3>1, <3>2, NoLoop DEF SessionOK, ControlOK, ReachedOK
  <2> QED
    BY <1>4, <1>12, <2>1 DEF SmokePolicy
<1>13. CASE SmokeOnboard(s)
  <2>1. /\ ses'[s].pc = "idle" /\ ses'[s].res = "ok" /\ ses'[s].cmd = "smoke"
        /\ ses'[s].t = ses[s].t
    BY <1>13, ExitShape DEF SmokeOnboard, SessionOK, ControlOK
  <2> QED
    BY <1>2, <2>1 DEF SessionOK, ControlOK, ReachedOK, LoopOK
<1> QED
  BY <1>6, <1>7, <1>8, <1>9, <1>10, <1>11, <1>12, <1>13

\* The head of the loop: the next tenant is being migrated, and at the end of
\* a loop without failures every discovered tenant is upgraded.
LEMMA PickSession ==
    ASSUME TypeOK, TypeOK', \A t \in Tenants : Grows(t), NEW s \in Sessions, SessionOK(s),
           PickTenant(s)
    PROVE  SessionOK(s)'
<1>1. /\ ses[s].pc = "pick" /\ ses[s].cmd = "all" /\ ses[s].attempt = 0
      /\ ses[s].res = "none"
  BY DEF PickTenant, At, SessionOK, ControlOK
<1>2. ses[s].found \subseteq Tenants /\ ses[s].todo \subseteq Tenants
  BY Fields DEF TypeOK
<1>3. \A u \in ses[s].found : Upgraded(u) => Upgraded(u)'
  BY <1>2, UpgradedKept
<1>4. \A u \in ses[s].found : u \in ses[s].todo \/ u \in ses[s].failed \/ Upgraded(u)
  BY <1>1 DEF SessionOK, LoopOK
<1> USE DEF Creating, Migrating, Graphing, Smoking
<1>5. ASSUME NEW t \in ses[s].todo,
             ses' = [ses EXCEPT ![s] = [ses[s] EXCEPT !.pc = "atlas", !.t = t,
                                          !.todo = ses[s].todo \ {t}]]
      PROVE  SessionOK(s)'
  <2>1. /\ ses'[s].pc = "atlas" /\ ses'[s].t = t /\ ses'[s].todo = ses[s].todo \ {t}
        /\ ses'[s].attempt = 0 /\ ses'[s].cmd = "all" /\ ses'[s].res = "none"
        /\ ses'[s].found = ses[s].found /\ ses'[s].failed = ses[s].failed
    BY <1>1, <1>5, PickShape DEF Kept
  <2>2. ControlOK(s)' /\ ReachedOK(s)'
    BY <1>2, <2>1, AttemptsAssumption DEF ControlOK, ReachedOK
  <2>3. LoopOK(s)'
    BY <1>3, <1>4, <2>1 DEF LoopOK
  <2> QED
    BY <2>2, <2>3 DEF SessionOK
<1>6. CASE ses[s].todo = {} /\ ses[s].failed = {} /\ Exit(s, "ok")
  <2>1. /\ ses'[s].pc = "idle" /\ ses'[s].res = "ok" /\ ses'[s].cmd = "all"
        /\ ses'[s].found = ses[s].found
    BY <1>1, <1>6, ExitShape
  <2>2. ControlOK(s)' /\ ReachedOK(s)'
    BY <2>1 DEF ControlOK, ReachedOK
  <2>3. LoopOK(s)'
    BY <1>3, <1>4, <1>6, <2>1 DEF LoopOK
  <2> QED
    BY <2>2, <2>3 DEF SessionOK
<1>7. CASE Exit(s, "error")
  BY <1>7, ExitShape, ErrorSession
<1> QED
  BY <1>5, <1>6, <1>7 DEF PickTenant

\* The migration of one tenant: atlas, its retries, the graph files.
LEMMA MigrateSession ==
    ASSUME TypeOK, TypeOK', \A t \in Tenants : Grows(t), NEW s \in Sessions, SessionOK(s),
           \/ AtlasStart(s) \/ AtlasFile(s) \/ AtlasCommit(s) \/ AtlasDone(s)
           \/ AtlasDeadlock(s) \/ AtlasFails(s) \/ RevokeAuditLogWrites(s)
           \/ GraphBegin(s) \/ GraphCommit(s) \/ GraphFails(s)
    PROVE  SessionOK(s)'
<1>1. ses[s].pc \in Migrating \cup Graphing \cup {"revoke"}
  BY DEF AtlasStart, AtlasFile, AtlasCommit, AtlasDone, AtlasDeadlock, AtlasFails,
     RevokeAuditLogWrites, GraphBegin, GraphCommit, GraphFails, At, Migrating, Graphing
<1>2. ses[s].pc \notin {"idle", "pick"}
  BY <1>1 DEF Migrating, Graphing
<1>3. ses[s].t \in Tenants /\ ses[s].res = "none"
  BY <1>2 DEF SessionOK, ControlOK
<1>4. rel[ses[s].t] = MaxFile => rel'[ses[s].t] = MaxFile
  BY <1>3, UpgradedKept
<1>5. CASE StepFails(s)
  BY <1>2, <1>5, FailedSession
<1> USE DEF At, Creating, Migrating, Graphing, Smoking
<1>6. CASE AtlasStart(s)
  <2>1. ses[s].attempt < MaxAttempts /\ ses[s].cmd \in {"apply", "one", "all"}
    BY <1>6 DEF AtlasStart, SessionOK, ControlOK
  <2>2. /\ Kept(s) /\ ses'[s].pc = "file" /\ ses'[s].t = ses[s].t
        /\ ses'[s].todo = ses[s].todo
    BY <1>6, <2>1, AtlasStartShape
  <2>3. ControlOK(s)' /\ ReachedOK(s)'
    BY <1>3, <2>1, <2>2 DEF ControlOK, ReachedOK, Kept
  <2> QED
    BY <1>2, <2>2, <2>3, LoopKept DEF SessionOK
<1>7. CASE AtlasFile(s)
  <2>1. /\ Kept(s) /\ ses'[s].pc = "fileCommit" /\ ses'[s].t = ses[s].t
        /\ ses'[s].todo = ses[s].todo /\ ses[s].cmd \in {"apply", "one", "all"}
    BY <1>3, <1>7, AtlasFileShape DEF AtlasFile, SessionOK, ControlOK
  <2>2. ControlOK(s)' /\ ReachedOK(s)'
    BY <1>3, <2>1 DEF ControlOK, ReachedOK, Kept
  <2> QED
    BY <1>2, <2>1, <2>2, LoopKept DEF SessionOK
<1>8. CASE AtlasCommit(s)
  <2>1. /\ Kept(s) /\ ses'[s].pc = "file" /\ ses'[s].t = ses[s].t
        /\ ses'[s].todo = ses[s].todo /\ ses[s].cmd \in {"apply", "one", "all"}
    BY <1>8, AtlasCommitShape DEF AtlasCommit, SessionOK, ControlOK
  <2>2. ControlOK(s)' /\ ReachedOK(s)'
    BY <1>3, <2>1 DEF ControlOK, ReachedOK, Kept
  <2> QED
    BY <1>2, <2>1, <2>2, LoopKept DEF SessionOK
<1>9. CASE AtlasDone(s)
  <2>1. /\ Kept(s) /\ ses'[s].t = ses[s].t /\ ses'[s].attempt = 0
        /\ ses'[s].pc = IF ses[s].cmd = "apply" THEN "revoke" ELSE "graphBegin"
        /\ ses'[s].todo = ses[s].todo /\ ses[s].cmd \in {"apply", "one", "all"}
    BY <1>9, AtlasDoneShape DEF AtlasDone, SessionOK, ControlOK
  <2>2. rel'[ses[s].t] = MaxFile
    BY <1>4, <1>9 DEF AtlasDone
  <2>3. ControlOK(s)' /\ ReachedOK(s)'
    BY <1>3, <2>1, <2>2 DEF ControlOK, ReachedOK, Kept
  <2> QED
    BY <1>2, <2>1, <2>3, LoopKept DEF SessionOK
<1>10. CASE AtlasDeadlock(s) /\ ses[s].attempt < MaxAttempts
  <2>1. /\ Kept(s) /\ ses'[s].pc = "atlas" /\ ses'[s].t = ses[s].t
        /\ ses'[s].todo = ses[s].todo /\ ses'[s].attempt = ses[s].attempt
        /\ ses[s].cmd \in {"apply", "one", "all"}
    BY <1>10, RetryShape DEF AtlasDeadlock, SessionOK, ControlOK
  <2>2. ControlOK(s)' /\ ReachedOK(s)'
    BY <1>3, <1>10, <2>1 DEF ControlOK, ReachedOK, Kept
  <2> QED
    BY <1>2, <2>1, <2>2, LoopKept DEF SessionOK
<1>11. CASE RevokeAuditLogWrites(s)
  <2>1. rel[ses[s].t] = MaxFile /\ ses[s].cmd = "apply"
    BY <1>11 DEF RevokeAuditLogWrites, SessionOK, ControlOK, ReachedOK
  <2>2. CASE Exit(s, "error")
    BY <2>2, ExitShape, ErrorSession
  <2>3. CASE Exit(s, "ok")
    <3>1. /\ ses'[s].pc = "idle" /\ ses'[s].res = "ok" /\ ses'[s].cmd = "apply"
          /\ ses'[s].t = ses[s].t
      BY <2>1, <2>3, ExitShape
    <3> QED
      BY <1>3, <1>4, <2>1, <3>1 DEF SessionOK, ControlOK, ReachedOK, LoopOK
  <2> QED
    BY <1>11, <2>2, <2>3 DEF RevokeAuditLogWrites
<1>12. CASE GraphBegin(s)
  <2>1. /\ Kept(s) /\ ses'[s].pc = "graphCommit" /\ ses'[s].t = ses[s].t
        /\ ses'[s].todo = ses[s].todo /\ ses'[s].attempt = ses[s].attempt
        /\ ses[s].cmd \in {"one", "all"} /\ ses[s].attempt = 0
        /\ rel[ses[s].t] = MaxFile
    BY <1>3, <1>12, GraphBeginShape DEF GraphBegin, SessionOK, ControlOK, ReachedOK
  <2>2. ControlOK(s)' /\ ReachedOK(s)'
    BY <1>3, <1>4, <2>1 DEF ControlOK, ReachedOK, Kept
  <2> QED
    BY <1>2, <2>1, <2>2, LoopKept DEF SessionOK
<1>13. CASE GraphCommit(s) /\ gr[ses[s].t] = ses[s].base
  <2>1. /\ ses[s].cmd \in {"one", "all"} /\ ses[s].attempt = 0
        /\ rel[ses[s].t] = MaxFile
    BY <1>13 DEF GraphCommit, SessionOK, ControlOK, ReachedOK
  <2>2. gr'[ses[s].t] /\ rel'[ses[s].t] = MaxFile
    BY <1>3, <1>13, <2>1 DEF GraphCommit, TypeOK
  <2>3. CASE ses[s].cmd = "all"
    <3>1. /\ Kept(s) /\ ses'[s].pc = "pick" /\ ses'[s].t = ses[s].t
          /\ ses'[s].todo = ses[s].todo /\ ses'[s].attempt = 0
      BY <1>13, <2>1, <2>3, GraphCommitShape
    <3>2. ControlOK(s)' /\ ReachedOK(s)'
      BY <1>3, <2>3, <3>1 DEF ControlOK, ReachedOK, Kept
    <3>3. \A u \in ses[s].found : u \in ses[s].todo \/ u \in ses[s].failed \/ Upgraded(u)'
      <4>1. ses[s].found \subseteq Tenants
        BY Fields DEF TypeOK
      <4>2. \A u \in ses[s].found : Upgraded(u) => Upgraded(u)'
        BY <4>1, UpgradedKept
      <4>3. \A u \in ses[s].found : u \in ses[s].todo \/ u \in ses[s].failed
                                    \/ Upgraded(u) \/ u = ses[s].t
        BY <1>2, <2>3 DEF SessionOK, LoopOK
      <4>4. \A u \in ses[s].found : u = ses[s].t => Upgraded(u)'
        BY <2>2 DEF Upgraded
      <4> QED
        BY <4>2, <4>3, <4>4
    <3>4. LoopOK(s)'
      BY <1>3, <3>1, <3>3 DEF LoopOK, Kept
    <3> QED
      BY <3>2, <3>4 DEF SessionOK
  <2>4. CASE ses[s].cmd = "one"
    <3>1. /\ ses'[s].pc = "idle" /\ ses'[s].res = "ok" /\ ses'[s].cmd = "one"
          /\ ses'[s].t = ses[s].t
      BY <1>13, <2>4, ExitShape DEF GraphCommit
    <3>2. LoopOK(s)'
      BY <1>3, <2>2, <3>1 DEF LoopOK, Upgraded
    <3> QED
      BY <3>1, <3>2 DEF SessionOK, ControlOK, ReachedOK
  <2> QED
    BY <2>1, <2>3, <2>4
<1> QED
  BY <1>5, <1>6, <1>7, <1>8, <1>9, <1>10, <1>11, <1>12, <1>13
  DEF AtlasDeadlock, AtlasFails, GraphCommit, GraphFails

\* A step keeps what every session relies on.
LEMMA SessionStep ==
    ASSUME ProvisionInv, NEW s \in Sessions, StepOf(s), NEW x \in Sessions
    PROVE  SessionOK(x)'
<1>1. TypeOK /\ TypeOK' /\ Own(s) /\ \A t \in Tenants : Grows(t)
  BY TypeStep, OwnStep, GrowsStep DEF ProvisionInv, SessionOK
<1>2. SessionOK(s) /\ SessionOK(x)
  BY DEF ProvisionInv
<1>3. CASE x # s
  BY <1>1, <1>2, <1>3, OtherSession DEF Own
<1>4. CASE x = s
  <2>1. CASE Killed(s)
    BY <1>1, <1>4, <2>1, ExitShape, ErrorSession DEF Killed
  <2> QED
    BY <1>1, <1>2, <1>4, <2>1, StartSession, CreateSession, PickSession, MigrateSession
    DEF StepOf, Step
<1> QED
  BY <1>3, <1>4

----------------------------------------------------------------------------
(* Privileges *)

\* Only AtlasFile opens the transaction of a file, and only GrantRole that of
\* a role.
LEMMA OpenOnly ==
    ASSUME TypeOK, NEW s \in Sessions, ControlOK(s), StepOf(s), ~ AtlasFile(s), ~ GrantRole(s)
    PROVE  ses'[s].pc \notin {"fileCommit", "roleCommit"}
<1> USE DEF At
<1>1. {"row", "graphProbe", "atlas", "smokeAudit", "roleGrant", "graphCreate",
       "smokePolicy", "smokeOnboard"} \subseteq PCs
  BY DEF PCs
<1>2. CASE Command(s)
  <2>1. {"create", "bootstrap", "apply", "smoke", "one"} \subseteq Cmds
    BY DEF Cmds
  <2>2. ASSUME NEW t \in Tenants, NEW o \in Orgs, TenantCreate(s, t, o)
        PROVE  ses'[s].pc = "row"
    BY <1>1, <2>1, <2>2, StartShape DEF TenantCreate
  <2>3. ASSUME NEW t \in Tenants,
               TenantBootstrap(s, t) \/ TenantApply(s, t) \/ TenantSmoke(s, t) \/ MigrateOne(s, t)
        PROVE  ses'[s].pc \in {"graphProbe", "atlas", "smokeAudit"}
    BY <1>1, <2>1, <2>3, StartShape
    DEF TenantBootstrap, TenantApply, TenantSmoke, MigrateOne
  <2> QED
    BY <1>2, <2>2, <2>3, MigrateAllShape DEF Command
<1>3. CASE Killed(s)
  BY <1>3, ExitShape DEF Killed
<1>4. CASE PickTenant(s)
  BY <1>4, PickShape, ExitShape DEF PickTenant
<1>5. CASE RegisterTenant(s) \/ ProbeGraph(s) \/ CreateGraph(s)
  BY <1>1, <1>5, GotoShape, ExitShape DEF RegisterTenant, ProbeGraph, CreateGraph
<1>6. CASE SmokeAudit(s) \/ SmokePolicy(s) \/ SmokeOnboard(s)
  BY <1>1, <1>6, GotoShape, ExitShape DEF SmokeAudit, SmokePolicy, SmokeOnboard
<1>7. CASE CreateRole(s) \/ RevokeAuditLogWrites(s)
  BY <1>7, ExitShape DEF CreateRole, RevokeAuditLogWrites
<1>8. CASE AtlasStart(s)
  BY <1>8, AtlasStartShape DEF AtlasStart, ControlOK
<1>9. CASE AtlasCommit(s) \/ AtlasDone(s)
  BY <1>9, AtlasCommitShape, AtlasDoneShape
<1>10. CASE AtlasDeadlock(s)
  BY <1>10, RetryShape, FailShape, HasTenant DEF AtlasDeadlock
<1>11. CASE AtlasFails(s) \/ GraphFails(s)
  BY <1>11, FailShape, HasTenant DEF AtlasFails, GraphFails
<1>12. CASE GraphBegin(s)
  BY <1>12, GraphBeginShape, HasTenant DEF GraphBegin
<1>13. CASE GraphCommit(s)
  <2>1. ses[s].t \in Tenants
    BY <1>13, HasTenant DEF GraphCommit
  <2>2. CASE gr[ses[s].t] # ses[s].base
    BY <1>13, <2>1, <2>2, FailShape DEF GraphCommit
  <2>3. CASE gr[ses[s].t] = ses[s].base /\ ses[s].cmd = "all"
    BY <1>13, <2>3, GraphCommitShape
  <2>4. CASE gr[ses[s].t] = ses[s].base /\ ses[s].cmd # "all"
    BY <1>13, <2>4, ExitShape DEF GraphCommit
  <2> QED
    BY <2>2, <2>3, <2>4
<1> QED
  BY <1>2, <1>3, <1>4, <1>5, <1>6, <1>7, <1>8, <1>9, <1>10, <1>11, <1>12, <1>13
  DEF StepOf, Step

OpenOK == \A x \in Sessions : FileOpenOK(x) /\ RoleOpenOK(x)
TenantsOK == \A t \in Tenants : TenantOK(t)

\* A step that leaves the privileges, the files and the open transactions.
LEMMA CalmReach ==
    ASSUME ProvisionInv, NEW s \in Sessions, StepOf(s), ~ AtlasFile(s), ~ GrantRole(s),
           UNCHANGED << rel, role, priv, overlap >>, onboarded' = onboarded \/ SmokeOnboard(s)
    PROVE  OpenOK' /\ TenantsOK'
<1>1. TypeOK /\ ControlOK(s) /\ ReachedOK(s)
  BY DEF ProvisionInv, SessionOK
<1>2. \A x \in Sessions : ses'[x].pc \in {"fileCommit", "roleCommit"} => ses'[x] = ses[x]
  BY <1>1, OpenOnly, OwnStep DEF Own
<1>3. ASSUME NEW x \in Sessions PROVE FileOpenOK(x)' /\ RoleOpenOK(x)'
  <2>1. FileOpenOK(x) /\ RoleOpenOK(x)
    BY DEF ProvisionInv
  <2>2. FileOpenOK(x)'
    BY <1>2, <2>1 DEF FileOpenOK
  <2>3. RoleOpenOK(x)'
    BY <1>2, <2>1 DEF RoleOpenOK, Covered
  <2> QED
    BY <2>2, <2>3
<1>4. ASSUME NEW t \in Tenants PROVE TenantOK(t)'
  <2>1. TenantOK(t) /\ Grows(t)
    BY GrowsStep DEF ProvisionInv
  <2>2. onboarded'[t] => role[t] /\ {AuditFile, PolicyFile} \subseteq priv[t]
    <3>1. CASE onboarded' = onboarded
      BY <2>1, <3>1 DEF TenantOK
    <3>2. CASE SmokeOnboard(s)
      <4>1. role[ses[s].t] /\ {AuditFile, PolicyFile} \subseteq priv[ses[s].t]
        BY <1>1, <3>2 DEF SmokeOnboard, At, ReachedOK
      <4> QED
        BY <1>1, <2>1, <3>2, <4>1 DEF SmokeOnboard, TypeOK, TenantOK
    <3> QED
      BY <3>1, <3>2
  <2> QED
    BY <2>1, <2>2 DEF TenantOK, Grows, Covered
<1> QED
  BY <1>3, <1>4 DEF OpenOK, TenantsOK

\* A role transaction opens: every open file of its tenant is noted.
LEMMA GrantReach ==
    ASSUME ProvisionInv, NEW s \in Sessions, GrantRole(s)
    PROVE  OpenOK' /\ TenantsOK'
<1>1. TypeOK /\ ControlOK(s)
  BY DEF ProvisionInv, SessionOK
<1>2. ses[s].t \in Tenants
  BY <1>1, HasTenant DEF GrantRole, At
<1>3. /\ Own(s) /\ ses'[s].pc = "roleCommit" /\ ses'[s].t = ses[s].t
      /\ ses'[s].grant = 1 .. rel[ses[s].t]
  BY <1>1, <1>2, GrantShape
<1>4. /\ UNCHANGED << graph, role, rel, priv, onboarded >>
      /\ overlap \subseteq overlap'
      /\ \A q \in Sessions : ses[q].pc = "fileCommit" /\ ses[q].t = ses[s].t =>
            << ses[s].t, rel[ses[s].t] + 1 >> \in overlap'
  BY DEF GrantRole, dbvars, At
<1>5. ASSUME NEW x \in Sessions PROVE FileOpenOK(x)' /\ RoleOpenOK(x)'
  <2>1. CASE x = s
    BY <1>3, <1>4, <2>1 DEF FileOpenOK, RoleOpenOK
  <2>2. CASE x # s
    <3>1. FileOpenOK(x) /\ RoleOpenOK(x) /\ ses'[x] = ses[x]
      BY <1>3, <2>2 DEF ProvisionInv, Own
    <3>2. RoleOpenOK(x)'
      BY <1>4, <3>1 DEF RoleOpenOK, Covered
    <3>3. FileOpenOK(x)'
      <4>1. \A q \in Sessions : q # s => ses'[q] = ses[q]
        BY <1>3 DEF Own
      <4> QED
        BY <1>3, <1>4, <3>1, <4>1 DEF FileOpenOK
    <3> QED
      BY <3>2, <3>3
  <2> QED
    BY <2>1, <2>2
<1>6. ASSUME NEW t \in Tenants PROVE TenantOK(t)'
  BY <1>4 DEF ProvisionInv, TenantOK, Covered
<1> QED
  BY <1>5, <1>6 DEF OpenOK, TenantsOK

\* A file opens: every open role transaction of its tenant is noted.
LEMMA FileReach ==
    ASSUME ProvisionInv, NEW s \in Sessions, AtlasFile(s)
    PROVE  OpenOK' /\ TenantsOK'
<1>1. TypeOK /\ ControlOK(s)
  BY DEF ProvisionInv, SessionOK
<1>2. ses[s].t \in Tenants
  BY <1>1, HasTenant DEF AtlasFile, At
<1>3. /\ Own(s) /\ ses'[s].pc = "fileCommit" /\ ses'[s].t = ses[s].t
      /\ ses'[s].grant = IF role[ses[s].t] THEN {rel[ses[s].t] + 1} ELSE {}
  BY <1>1, <1>2, AtlasFileShape
<1>4. /\ UNCHANGED << graph, role, rel, priv, onboarded >>
      /\ overlap \subseteq overlap' /\ rel[ses[s].t] < MaxFile
      /\ \A q \in Sessions : ses[q].pc = "roleCommit" /\ ses[q].t = ses[s].t =>
            << ses[s].t, rel[ses[s].t] + 1 >> \in overlap'
  BY DEF AtlasFile, dbvars, At
<1>5. \A q \in Sessions : q # s => ses'[q] = ses[q]
  BY <1>3 DEF Own
<1>6. ASSUME NEW x \in Sessions PROVE FileOpenOK(x)' /\ RoleOpenOK(x)'
  <2>1. CASE x = s
    BY <1>3, <1>4, <1>5, <2>1 DEF FileOpenOK, RoleOpenOK
  <2>2. CASE x # s
    <3>1. FileOpenOK(x) /\ RoleOpenOK(x) /\ ses'[x] = ses[x]
      BY <1>5, <2>2 DEF ProvisionInv
    <3>2. RoleOpenOK(x)'
      BY <1>4, <3>1 DEF RoleOpenOK, Covered
    <3>3. FileOpenOK(x)'
      BY <1>3, <1>4, <1>5, <3>1 DEF FileOpenOK
    <3> QED
      BY <3>2, <3>3
  <2> QED
    BY <2>1, <2>2
<1>7. ASSUME NEW t \in Tenants PROVE TenantOK(t)'
  BY <1>4 DEF ProvisionInv, TenantOK, Covered
<1> QED
  BY <1>6, <1>7 DEF OpenOK, TenantsOK

\* A file commits: its table is granted, or noted by every role transaction
\* that did not see it.
LEMMA CommitReach ==
    ASSUME ProvisionInv, NEW s \in Sessions, AtlasCommit(s)
    PROVE  OpenOK' /\ TenantsOK'
<1> DEFINE t == ses[s].t
           f == rel[ses[s].t] + 1
           g == ses[s].grant
<1>1. TypeOK /\ ControlOK(s) /\ FileOpenOK(s) /\ At(s, "fileCommit") /\ LockOK
  BY DEF ProvisionInv, SessionOK, AtlasCommit
<1>2. t \in Tenants /\ rel[t] \in Nat
  BY <1>1, FilePending, MaxFileAssumption
<1>3. /\ \A q \in Sessions : q # s => ses'[q] = ses[q]
      /\ ses'[s].pc = "file"
  BY <1>1, AtlasCommitShape DEF Own
<1>4. /\ UNCHANGED << graph, role, onboarded, overlap >>
      /\ rel' = [rel EXCEPT ![t] = f]
      /\ priv' = [priv EXCEPT ![t] = priv[t] \cup g]
  BY DEF AtlasCommit
<1>5. /\ rel'[t] = f /\ priv'[t] = priv[t] \cup g
      /\ \A u \in Tenants : u # t => rel'[u] = rel[u] /\ priv'[u] = priv[u]
  BY <1>1, <1>2, <1>4 DEF TypeOK
<1>6. /\ \/ g = {f}
         \/ /\ g = {}
            /\ role[t] => << t, f >> \in overlap
            /\ \A q \in Sessions : ses[q].pc = "roleCommit" /\ ses[q].t = t =>
                  << t, f >> \in overlap
  BY <1>1 DEF FileOpenOK, At
<1>7. \A u \in Tenants : \A h : Covered(u, h) => h \in priv'[u] \/ << u, h >> \in overlap'
  BY <1>4, <1>5 DEF Covered
<1>8. 1 .. f = (1 .. rel[t]) \cup {f}
  BY <1>2
<1>9. ASSUME NEW x \in Sessions PROVE FileOpenOK(x)'
  <2>1. ses[x].pc = "fileCommit" => x = s
    BY <1>1 DEF LockOK, At
  <2> QED
    BY <1>3, <2>1 DEF FileOpenOK
<1> HIDE DEF t, f, g
<1>10. ASSUME NEW x \in Sessions, ses'[x].pc = "roleCommit"
       PROVE  /\ ses'[x].grant \subseteq 1 .. rel'[ses'[x].t]
              /\ \A h \in 1 .. rel'[ses'[x].t] :
                    \/ h \in ses'[x].grant \/ h \in priv'[ses'[x].t]
                    \/ << ses'[x].t, h >> \in overlap'
  <2>1. ses'[x] = ses[x]
    BY <1>3, <1>10
  <2>2. ses[x].t \in Tenants
    BY <1>10, <2>1 DEF ProvisionInv, SessionOK, ControlOK
  <2>3. /\ ses[x].grant \subseteq 1 .. rel[ses[x].t]
        /\ \A h \in 1 .. rel[ses[x].t] : h \in ses[x].grant \/ Covered(ses[x].t, h)
    BY <1>10, <2>1 DEF ProvisionInv, RoleOpenOK
  <2>4. CASE ses[x].t # t
    BY <1>5, <1>7, <2>1, <2>2, <2>3, <2>4
  <2>5. CASE ses[x].t = t
    <3>1. f \in priv'[t] \/ << t, f >> \in overlap'
      BY <1>4, <1>5, <1>6, <1>10, <2>1, <2>5
    <3> QED
      BY <1>5, <1>7, <1>8, <2>1, <2>2, <2>3, <2>5, <3>1
  <2> QED
    BY <2>4, <2>5
<1>11. ASSUME NEW x \in Sessions PROVE RoleOpenOK(x)'
  <2>1. ses'[x].pc = "roleCommit" => ses'[x] = ses[x]
    BY <1>3
  <2> QED
    BY <1>10, <2>1 DEF RoleOpenOK, Covered
<1>12. ASSUME NEW u \in Tenants PROVE TenantOK(u)'
  <2>1. TenantOK(u)
    BY DEF ProvisionInv
  <2>2. CASE u # t
    BY <1>4, <1>5, <2>1, <2>2 DEF TenantOK, Covered
  <2>3. CASE u = t
    <3>1. priv'[u] \subseteq 1 .. rel'[u] /\ priv[u] \subseteq priv'[u]
      BY <1>5, <1>6, <1>8, <2>1, <2>3 DEF TenantOK
    <3>2. ASSUME role[u], NEW h \in 1 .. rel'[u] PROVE h \in priv'[u] \/ << u, h >> \in overlap'
      BY <1>4, <1>5, <1>6, <1>8, <2>1, <2>3, <3>2 DEF TenantOK, Covered
    <3> QED
      BY <1>4, <2>1, <3>1, <3>2 DEF TenantOK, Covered
  <2> QED
    BY <2>2, <2>3
<1> QED
  BY <1>9, <1>11, <1>12 DEF OpenOK, TenantsOK

\* A role commits: what it does not grant is covered already.
LEMMA RoleReach ==
    ASSUME ProvisionInv, NEW s \in Sessions, CreateRole(s), role[ses[s].t] = ses[s].base
    PROVE  OpenOK' /\ TenantsOK'
<1> DEFINE t == ses[s].t
           g == ses[s].grant
<1>1. TypeOK /\ ControlOK(s) /\ RoleOpenOK(s) /\ ReachedOK(s) /\ At(s, "roleCommit")
  BY DEF ProvisionInv, SessionOK, CreateRole
<1>2. t \in Tenants /\ rel[t] \in Nat
  BY <1>1, HasTenant, MaxFileAssumption DEF At, TypeOK
<1>3. /\ \A q \in Sessions : q # s => ses'[q] = ses[q]
      /\ ses'[s].pc = "idle"
  BY <1>1, ExitShape DEF Own, CreateRole
<1>4. /\ UNCHANGED << graph, rel, onboarded >>
      /\ role' = [role EXCEPT ![t] = TRUE]
      /\ priv' = [priv EXCEPT ![t] = priv[t] \cup g]
      /\ overlap' = overlap \ ({t} \X g)
  BY DEF CreateRole
<1>5. /\ role'[t] /\ priv'[t] = priv[t] \cup g
      /\ \A u \in Tenants : u # t => role'[u] = role[u] /\ priv'[u] = priv[u]
  BY <1>1, <1>2, <1>4 DEF TypeOK
<1>6. /\ g \subseteq 1 .. rel[t]
      /\ \A h \in 1 .. rel[t] : h \in g \/ Covered(t, h)
      /\ graph[t]
  BY <1>1 DEF RoleOpenOK, ReachedOK, At
<1>7. rel[t] + 1 \notin g
  BY <1>2, <1>6
<1>8. ses[s].pc = "roleCommit" /\ ses[s].t = t
  BY <1>1 DEF At
<1> HIDE DEF t, g
<1>9. \A u, h : << u, h >> \in overlap /\ (u # t \/ h \notin g) => << u, h >> \in overlap'
  BY <1>4
<1>10. ASSUME NEW u \in Tenants, NEW h, h \in priv[u] \/ << u, h >> \in overlap
       PROVE  h \in priv'[u] \/ << u, h >> \in overlap'
  BY <1>5, <1>9, <1>10
<1>11. ASSUME NEW x \in Sessions PROVE FileOpenOK(x)'
  <2> SUFFICES ASSUME ses'[x].pc = "fileCommit" PROVE FileOpenOK(x)'
    BY DEF FileOpenOK
  <2>1. ses'[x] = ses[x] /\ ses[x].pc = "fileCommit"
    BY <1>3
  <2>2. ses[x].t \in Tenants /\ FileOpenOK(x)
    BY <2>1 DEF ProvisionInv, SessionOK, ControlOK
  <2>3. CASE ses[x].t = t
    <3>1. ses[x].grant = {} => << t, rel[t] + 1 >> \in overlap'
      BY <1>7, <1>8, <1>9, <2>1, <2>2, <2>3 DEF FileOpenOK
    <3> QED
      BY <1>4, <2>1, <2>2, <2>3, <3>1 DEF FileOpenOK
  <2>4. CASE ses[x].t # t
    <3>1. \A q \in Sessions : ses'[q].pc = "roleCommit" => ses'[q] = ses[q]
      BY <1>3
    <3> QED
      BY <1>4, <1>5, <1>9, <2>1, <2>2, <2>4, <3>1 DEF FileOpenOK
  <2> QED
    BY <2>3, <2>4
<1>12. ASSUME NEW x \in Sessions PROVE RoleOpenOK(x)'
  <2> SUFFICES ASSUME ses'[x].pc = "roleCommit" PROVE RoleOpenOK(x)'
    BY DEF RoleOpenOK
  <2>1. ses'[x] = ses[x] /\ ses[x].pc = "roleCommit"
    BY <1>3
  <2>2. ses[x].t \in Tenants /\ RoleOpenOK(x)
    BY <2>1 DEF ProvisionInv, SessionOK, ControlOK
  <2> QED
    BY <1>4, <1>10, <2>1, <2>2 DEF RoleOpenOK, Covered
<1>13. ASSUME NEW u \in Tenants PROVE TenantOK(u)'
  <2>1. TenantOK(u)
    BY DEF ProvisionInv
  <2>2. CASE u # t
    BY <1>4, <1>5, <1>10, <2>1, <2>2 DEF TenantOK, Covered
  <2>3. CASE u = t
    <3>1. priv'[u] \subseteq 1 .. rel'[u] /\ priv[u] \subseteq priv'[u]
      BY <1>4, <1>5, <1>6, <2>1, <2>3 DEF TenantOK
    <3>2. ASSUME NEW h \in 1 .. rel'[u] PROVE h \in priv'[u] \/ << u, h >> \in overlap'
      BY <1>4, <1>5, <1>6, <1>10, <2>3 DEF Covered
    <3> QED
      BY <1>4, <1>5, <1>6, <2>1, <2>3, <3>1, <3>2 DEF TenantOK, Covered
  <2> QED
    BY <2>2, <2>3
<1> QED
  BY <1>11, <1>12, <1>13 DEF OpenOK, TenantsOK

\* Every step keeps the open transactions and the tenants' privileges.
LEMMA ReachStep ==
    ASSUME ProvisionInv, NEW s \in Sessions, StepOf(s)
    PROVE  OpenOK' /\ TenantsOK'
<1>1. CASE AtlasFile(s) \/ GrantRole(s) \/ AtlasCommit(s)
  BY <1>1, FileReach, GrantReach, CommitReach
<1>2. CASE CreateRole(s) /\ role[ses[s].t] = ses[s].base
  BY <1>2, RoleReach
<1>3. CASE /\ ~ AtlasFile(s) /\ ~ GrantRole(s) /\ ~ AtlasCommit(s)
           /\ ~ (CreateRole(s) /\ role[ses[s].t] = ses[s].base)
  <2>1. UNCHANGED << rel, role, priv, overlap >> /\ (onboarded' = onboarded \/ SmokeOnboard(s))
    BY <1>3, StepKinds DEF Calm, dbvars, RegisterTenant, CreateGraph, CreateRole,
       RevokeAuditLogWrites, GraphCommit, SmokeOnboard
  <2> QED
    BY <1>3, <2>1, CalmReach
<1> QED
  BY <1>1, <1>2, <1>3

----------------------------------------------------------------------------
(* The invariant *)

\* The database starts with the bootstrapped tenants, and no session runs.
LEMMA ProvisionInit == Init => ProvisionInv
<1> SUFFICES ASSUME Init PROVE ProvisionInv
  OBVIOUS
<1>1. TypeOK
  BY NewSessionType, MaxFileAssumption DEF Init, TypeOK
<1>2. \A s \in Sessions : ses[s] = NewSession
  BY DEF Init
<1>3. LockOK
  BY <1>2, NewSessionType, NamesAssumption DEF Init, LockOK
<1>4. \A s \in Sessions : SessionOK(s) /\ FileOpenOK(s) /\ RoleOpenOK(s)
  BY <1>2, NewSessionType
  DEF SessionOK, ControlOK, ReachedOK, LoopOK, FileOpenOK, RoleOpenOK,
      Creating, Migrating, Graphing, Smoking
<1>5. \A t \in Tenants : TenantOK(t)
  <2>1. 1 .. 0 = {}
    OBVIOUS
  <2> QED
    BY <2>1 DEF Init, TenantOK
<1> QED
  BY <1>1, <1>3, <1>4, <1>5 DEF ProvisionInv

\* Every statement of every session keeps the invariant.
LEMMA ProvisionNext == ProvisionInv /\ [Next]_vars => ProvisionInv'
<1> SUFFICES ASSUME ProvisionInv, [Next]_vars PROVE ProvisionInv'
  OBVIOUS
<1>1. ASSUME NEW s \in Sessions, StepOf(s) PROVE ProvisionInv'
  BY <1>1, TypeStep, LockStep, SessionStep, ReachStep DEF ProvisionInv, OpenOK, TenantsOK
<1>2. CASE UNCHANGED vars
  <2>1. TypeOK' /\ LockOK'
    BY <1>2 DEF vars, ProvisionInv, TypeOK, LockOK
  <2>2. ASSUME NEW s \in Sessions PROVE SessionOK(s)' /\ FileOpenOK(s)' /\ RoleOpenOK(s)'
    <3>1. SessionOK(s) /\ FileOpenOK(s) /\ RoleOpenOK(s)
      BY DEF ProvisionInv
    <3> QED
      BY <1>2, <3>1 DEF vars, SessionOK, ControlOK, ReachedOK, LoopOK, Upgraded,
         FileOpenOK, RoleOpenOK, Covered
  <2>3. ASSUME NEW t \in Tenants PROVE TenantOK(t)'
    BY <1>2 DEF vars, ProvisionInv, TenantOK, Covered
  <2> QED
    BY <2>1, <2>2, <2>3 DEF ProvisionInv
<1> QED
  BY <1>1, <1>2 DEF Next, StepOf

\* The invariant holds in every reachable state.
LEMMA ProvisionInvariant == Spec => []ProvisionInv
BY ProvisionInit, ProvisionNext, PTL DEF Spec

----------------------------------------------------------------------------
(* The theorems *)

\* An exit code of 0 is true (cmd/migrate, neksur-cli): for any number of
\* tenants and of sessions that run, fail and are killed beside one another,
\* every tenant a successful run claims is at the last version of both
\* migration sets, and what the provisioning commands claim to create exists.
THEOREM SuccessHolds == Spec => []SuccessIsTrue
<1>1. ASSUME ProvisionInv, NEW s \in Sessions, ses[s].res = "ok"
      PROVE  /\ ses[s].cmd = "all" => \A u \in ses[s].found : rel[u] = MaxFile /\ gr[u]
             /\ ses[s].cmd = "one" => rel[ses[s].t] = MaxFile /\ gr[ses[s].t]
             /\ ses[s].cmd \in {"create", "bootstrap"} => graph[ses[s].t] /\ role[ses[s].t]
             /\ ses[s].cmd = "apply" => rel[ses[s].t] = MaxFile
  BY <1>1 DEF ProvisionInv, SessionOK, LoopOK, Upgraded
<1>2. ProvisionInv => SuccessIsTrue
  BY <1>1 DEF SuccessIsTrue
<1> QED
  BY <1>2, ProvisionInvariant, PTL

\* The tenants' roles reach their tables (tenant/bootstrap.go): whatever the
\* order of CreateRole and the files, only a file whose transaction was open
\* beside CreateRole's can be missed, and an onboarded tenant reaches the
\* tables of the gateway.
THEOREM RolesReachHolds == Spec => []RolesReach
<1>1. ASSUME ProvisionInv PROVE TablesReachable
  BY <1>1 DEF ProvisionInv, TenantOK, Covered, TablesReachable
<1>2. ASSUME ProvisionInv, NEW t \in Tenants, onboarded[t]
      PROVE  /\ graph[t] /\ role[t] /\ {AuditFile, PolicyFile} \subseteq priv[t]
             /\ rel[t] >= AuditFile /\ rel[t] >= PolicyFile
  <2>1. TenantOK(t) /\ rel[t] \in Nat
    BY <1>2, MaxFileAssumption DEF ProvisionInv, TypeOK
  <2>2. /\ graph[t] /\ role[t] /\ {AuditFile, PolicyFile} \subseteq priv[t]
        /\ priv[t] \subseteq 1 .. rel[t]
    BY <1>2, <2>1 DEF TenantOK
  <2>3. AuditFile \in 1 .. rel[t] /\ PolicyFile \in 1 .. rel[t]
    BY <2>2
  <2> QED
    BY <2>1, <2>2, <2>3
<1>3. ProvisionInv => RolesReach
  BY <1>1, <1>2 DEF ProvisionInv, OnboardedIsUsable, RolesReach
<1> QED
  BY <1>3, ProvisionInvariant, PTL

\* The migrations implement SchemaUpgrade (migrate.go, graph.go): atlas with
\* its lock and its retries, ApplyTenantGraph, crashes and sessions running
\* beside one another move a tenant by one whole file or by all graph files,
\* in order and never back.
THEOREM UpgradeHolds == Spec => UpgradeSpec
<1>1. Init => Upgrade!Init
  BY DEF Init, Upgrade!Init
<1>2. ProvisionInv /\ [Next]_vars => [Upgrade!Next]_(Upgrade!vars)
  <2> SUFFICES ASSUME ProvisionInv, [Next]_vars
               PROVE  Upgrade!Next \/ UNCHANGED << rel, gr >>
    BY DEF Upgrade!vars
  <2>1. ASSUME NEW s \in Sessions, AtlasCommit(s) PROVE Upgrade!Next
    <3>1. ses[s].t \in Tenants /\ rel[ses[s].t] < MaxFile
      BY <2>1 DEF ProvisionInv, SessionOK, ControlOK, FileOpenOK, AtlasCommit, At
    <3>2. Upgrade!NextFile(ses[s].t)
      BY <2>1, <3>1 DEF AtlasCommit, Upgrade!NextFile
    <3> QED
      BY <3>1, <3>2 DEF Upgrade!Next
  <2>2. ASSUME NEW s \in Sessions, GraphCommit(s)
        PROVE  Upgrade!Next \/ UNCHANGED << rel, gr >>
    <3>1. ses[s].t \in Tenants /\ rel[ses[s].t] = MaxFile /\ rel' = rel
      BY <2>2 DEF ProvisionInv, SessionOK, ControlOK, ReachedOK, GraphCommit, At, Graphing
    <3>2. gr' = gr \/ gr' = [gr EXCEPT ![ses[s].t] = TRUE]
      BY <2>2 DEF GraphCommit
    <3>3. CASE gr[ses[s].t]
      <4>1. gr \in [Tenants -> BOOLEAN] /\ gr[ses[s].t] = TRUE
        BY <3>1, <3>3 DEF ProvisionInv, TypeOK
      <4>2. [gr EXCEPT ![ses[s].t] = TRUE] = gr
        BY ONLY <4>1
      <4> QED
        BY <3>1, <3>2, <4>2
    <3>4. CASE ~ gr[ses[s].t] /\ gr' # gr
      <4>1. Upgrade!GraphFiles(ses[s].t)
        BY <3>1, <3>2, <3>4 DEF Upgrade!GraphFiles
      <4> QED
        BY <3>1, <4>1 DEF Upgrade!Next
    <3> QED
      BY <3>1, <3>3, <3>4
  <2>3. ASSUME NEW s \in Sessions, StepOf(s), ~ AtlasCommit(s), ~ GraphCommit(s)
        PROVE  UNCHANGED << rel, gr >>
    BY <2>3, StepKinds DEF Calm, dbvars, RegisterTenant, CreateGraph, GrantRole, CreateRole,
       AtlasFile, RevokeAuditLogWrites, SmokeOnboard
  <2> QED
    BY <2>1, <2>2, <2>3 DEF Next, StepOf, vars
<1> QED
  BY <1>1, <1>2, ProvisionInvariant, PTL DEF Spec, UpgradeSpec, Upgrade!Spec
=============================================================================
