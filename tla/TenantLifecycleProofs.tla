----------------------- MODULE TenantLifecycleProofs -----------------------
(***************************************************************************)
(* Safety of the lifecycle transitions and of the move from Pool A to Pool *)
(* B, for any operator sessions, commits and counted tables.               *)
(***************************************************************************)
EXTENDS TenantLifecycle, TLAPS

----------------------------------------------------------------------------
(* The inductive invariant *)

\* The operations between pgDump and the end of MigratePoolAToB.
Dumped   == {"restore", "validate", "flip", "resume"}
Restored == {"validate", "flip", "resume"}

\* What a session of MigratePoolAToB knows at each of its steps: Pool A keeps
\* what it held at the suspension for as long as it has the schema, the dump
\* holds it, and Pool B holds the dump.
MoveOK(s) ==
    /\ session[s].op = "dump" /\ "A" \in schemas => session[s].base \subseteq rows["A"]
    /\ session[s].op \in Dumped => session[s].base \subseteq session[s].dump
    /\ session[s].op \in Restored => "B" \in schemas /\ session[s].dump = rows["B"]
    /\ session[s].op \in {"flip", "resume"} => session[s].checked = DataTables

\* A drop that is still to come finds its tenant deleted, or taken back from
\* deleted by a migration.
DropOK(s) == session[s].op = "drop" => lifecycle_state = "deleted" \/ "revived" \in causes

\* A tenant that points at Pool B has its schema there.
PoolOK == pool = "B" => "B" \in schemas

RecordInv ==
    /\ TypeOK
    /\ \A s \in Sessions : MoveOK(s) /\ DropOK(s)
    /\ PoolOK
    /\ PreSuspendRowsMigrated
    /\ LifecycleAudited
    /\ ServingSchemaKept

----------------------------------------------------------------------------
(* Types *)

\* A tenant is created active, in Pool A, with nobody at work on it.
LEMMA RecordInit == Init => RecordInv
BY DEF Init, RecordInv, TypeOK, MoveOK, DropOK, PoolOK, PreSuspendRowsMigrated,
       LifecycleAudited, ServingSchemaKept, States, Pools, SessionState, Idle, RequestState, Dumped, Restored

\* The operations of one session.
SessionStep(s) ==
    \/ Suspend(s) \/ WindDown(s)
    \/ DeleteTransition(s) \/ DeleteDrop(s)
    \/ MigrateSuspend(s) \/ pgDump(s) \/ pgRestore(s) \/ validateRowCounts(s)
    \/ UpdatePoolAndDSN(s) \/ SetLifecycleState(s) \/ writeMigrationAudit(s)
    \/ RollbackSuspend(s) \/ RollbackPool(s)
    \/ Abort(s)

\* validateRowCounts counts one table more, and goes on to the flip when that
\* was the last one.
LEMMA ValidateMoves ==
    ASSUME TypeOK, NEW s \in Sessions, validateRowCounts(s)
    PROVE  /\ session' \in [Sessions -> SessionState]
           /\ session'[s].op \in {"flip", "validate"}
           /\ session'[s].op = "flip" => session'[s].checked = DataTables
           /\ session'[s].base = session[s].base /\ session'[s].dump = session[s].dump
<1>1. PICK now \in SUBSET DataTables :
        session' = [session EXCEPT ![s].checked = now,
            ![s].op = IF now = DataTables THEN "flip" ELSE "validate"]
  <2>1. PICK t \in DataTables \ session[s].checked :
          session' = [session EXCEPT ![s].checked = session[s].checked \cup {t},
              ![s].op = IF session[s].checked \cup {t} = DataTables THEN "flip" ELSE "validate"]
    BY Zenon DEF validateRowCounts
  <2>2. session[s].checked \cup {t} \in SUBSET DataTables
    BY DEF TypeOK, SessionState
  <2> QED
    BY <2>1, <2>2, Zenon
<1>2. session[s] \in SessionState /\ session \in [Sessions -> SessionState]
  BY DEF TypeOK
<1> QED
  BY <1>1, <1>2 DEF SessionState

\* An operation of a session keeps the types of the row, the schemas and the
\* sessions.
LEMMA SessionTypes ==
    ASSUME TypeOK, NEW s \in Sessions, SessionStep(s)
    PROVE  TypeOK'
<1> USE DEF TypeOK, States, Pools, SessionState, Idle
<1>1. CASE Suspend(s)
  BY <1>1 DEF Suspend, transitionLifecycle
<1>2. CASE WindDown(s)
  BY <1>2 DEF WindDown, transitionLifecycle
<1>3. CASE DeleteTransition(s)
  BY <1>3 DEF DeleteTransition, transitionLifecycle
<1>4. CASE DeleteDrop(s)
  BY <1>4 DEF DeleteDrop
<1>5. CASE MigrateSuspend(s)
  BY <1>5 DEF MigrateSuspend, transitionLifecycle
<1>6. CASE pgDump(s)
  BY <1>6 DEF pgDump
<1>7. CASE pgRestore(s)
  BY <1>7 DEF pgRestore
<1>8. CASE validateRowCounts(s)
  <2>1. session' \in [Sessions -> SessionState]
    BY <1>8, ValidateMoves
  <2> QED
    BY <1>8, <2>1 DEF validateRowCounts
<1>9. CASE UpdatePoolAndDSN(s)
  BY <1>9 DEF UpdatePoolAndDSN
<1>10. CASE SetLifecycleState(s)
  BY <1>10 DEF SetLifecycleState
<1>11. CASE writeMigrationAudit(s)
  BY <1>11 DEF writeMigrationAudit
<1>12. CASE Abort(s)
  BY <1>12 DEF Abort
<1>13. CASE RollbackSuspend(s) \/ RollbackPool(s)
  BY <1>13 DEF RollbackSuspend, RollbackPool, transitionLifecycle
<1> QED
  BY <1>1, <1>2, <1>3, <1>4, <1>5, <1>6, <1>7, <1>8, <1>9, <1>10, <1>11, <1>12, <1>13
  DEF SessionStep

\* The manual procedures and the commits keep the types.
LEMMA OtherTypes ==
    ASSUME TypeOK,
           \/ ManualResume \/ ManualDropPoolB \/ ManualDropPoolA
           \/ \E q \in Requests : ByWorkOSOrgID(q) \/ CommitAccepted(q)
    PROVE  TypeOK'
<1> USE DEF TypeOK, States, Pools
<1>1. CASE ManualResume
  BY <1>1 DEF ManualResume, transitionLifecycle
<1>2. CASE ManualDropPoolB
  BY <1>2 DEF ManualDropPoolB
<1>3. CASE ManualDropPoolA
  BY <1>3 DEF ManualDropPoolA
<1>4. ASSUME NEW q \in Requests, ByWorkOSOrgID(q) PROVE TypeOK'
  BY <1>4 DEF ByWorkOSOrgID, RequestState
<1>5. ASSUME NEW q \in Requests, CommitAccepted(q) PROVE TypeOK'
  BY <1>5 DEF CommitAccepted, RequestState
<1> QED
  BY <1>1, <1>2, <1>3, <1>4, <1>5

----------------------------------------------------------------------------
(* The invariant is inductive *)

\* What an operation of s leaves alone: the other sessions.
LEMMA SessionFrame ==
    ASSUME TypeOK, NEW s \in Sessions, SessionStep(s), NEW x \in Sessions, x # s
    PROVE  session'[x] = session[x]
BY DEF SessionStep, Suspend, WindDown, DeleteTransition, DeleteDrop, MigrateSuspend,
   pgDump, pgRestore, validateRowCounts, UpdatePoolAndDSN, SetLifecycleState,
   writeMigrationAudit, RollbackSuspend, RollbackPool, transitionLifecycle, Abort, TypeOK

\* An operation of any session keeps the invariant.
LEMMA SessionKeeps ==
    ASSUME RecordInv, NEW s \in Sessions, SessionStep(s)
    PROVE  RecordInv'
<1>1. TypeOK /\ TypeOK'
  BY SessionTypes DEF RecordInv
<1>2. \A x \in Sessions : MoveOK(x) /\ DropOK(x)
  BY DEF RecordInv
<1>3. PoolOK /\ PreSuspendRowsMigrated /\ LifecycleAudited /\ ServingSchemaKept
  BY DEF RecordInv
<1>4. \A x \in Sessions : x # s => session'[x] = session[x]
  BY <1>1, SessionFrame
<1>5. SUFFICES /\ \A x \in Sessions : (MoveOK(x) /\ DropOK(x))'
               /\ PoolOK' /\ PreSuspendRowsMigrated' /\ LifecycleAudited' /\ ServingSchemaKept'
  BY <1>1 DEF RecordInv
<1> USE <1>1, <1>2, <1>3, <1>4
<1> USE DEF MoveOK, DropOK, PoolOK, PreSuspendRowsMigrated, LifecycleAudited, ServingSchemaKept,
       Dumped, Restored
<1>6. CASE Suspend(s) \/ WindDown(s)
  BY <1>6 DEF Suspend, WindDown, transitionLifecycle
<1>7. CASE DeleteTransition(s)
  BY <1>7 DEF DeleteTransition, transitionLifecycle, TypeOK
<1>8. CASE DeleteDrop(s)
  BY <1>8 DEF DeleteDrop, TypeOK, Idle, Pools
<1>9. CASE MigrateSuspend(s)
  BY <1>9 DEF MigrateSuspend, transitionLifecycle, TypeOK
<1>10. CASE pgDump(s)
  BY <1>10 DEF pgDump, TypeOK
<1>11. CASE pgRestore(s)
  <2>1. /\ session[s].op = "restore" /\ "B" \notin schemas /\ schemas' = schemas \cup {"B"}
        /\ UNCHANGED << lifecycle_state, pool, lastEvent, movedFrom, causes >>
        /\ rows'["A"] = rows["A"]
    BY <1>11 DEF pgRestore, TypeOK, Pools
  <2>2. pool # "B" /\ \A x \in Sessions : session[x].op \notin Restored
    BY <2>1
  <2>3. \/ /\ session'[s].op = "validate" /\ session'[s].base = session[s].base
           /\ session'[s].dump = session[s].dump /\ session'[s].dump = rows'["B"]
        \/ session'[s] = Idle
    BY <1>11 DEF pgRestore, TypeOK, Pools, SessionState
  <2> QED
    BY <2>1, <2>2, <2>3 DEF Idle
<1>12. CASE validateRowCounts(s)
  <2>1. /\ session[s].op = "validate"
        /\ session'[s].op \in {"flip", "validate"}
        /\ session'[s].op = "flip" => session'[s].checked = DataTables
        /\ session'[s].base = session[s].base /\ session'[s].dump = session[s].dump
    BY <1>12, ValidateMoves DEF validateRowCounts
  <2> QED
    BY <1>12, <2>1 DEF validateRowCounts
<1>13. CASE UpdatePoolAndDSN(s)
  BY <1>13 DEF UpdatePoolAndDSN, TypeOK
<1>14. CASE SetLifecycleState(s)
  <2>1. /\ session[s].op = "resume" /\ session'[s].op = "audit"
        /\ lifecycle_state' = "active"
        /\ UNCHANGED << pool, lastEvent, schemas, rows, movedFrom >>
    BY <1>14 DEF SetLifecycleState, TypeOK, SessionState
  <2>2. /\ lifecycle_state = "deleted" => "revived" \in causes'
        /\ causes \subseteq causes'
    BY <1>14 DEF SetLifecycleState
  <2>3. causes # {} => causes' # {}
    BY <2>2
  <2> QED
    BY <2>1, <2>2, <2>3
<1>15. CASE writeMigrationAudit(s) \/ Abort(s)
  BY <1>15 DEF writeMigrationAudit, Abort, TypeOK, Idle
<1>16. CASE RollbackSuspend(s) \/ RollbackPool(s)
  <2>1. /\ session'[s].op \in {"rollback", "none"}
        /\ UNCHANGED << schemas, rows, movedFrom, causes >>
        /\ pool' \in {pool, "A"}
        /\ \/ UNCHANGED << lifecycle_state, lastEvent >>
           \/ /\ lifecycle_state = "active" /\ lifecycle_state' = "suspended"
              /\ lastEvent' = "suspended"
    BY <1>16 DEF RollbackSuspend, RollbackPool, transitionLifecycle, TypeOK, SessionState, Idle
  <2> QED
    BY <2>1
<1> QED
  BY <1>6, <1>7, <1>8, <1>9, <1>10, <1>11, <1>12, <1>13, <1>14, <1>15, <1>16
  DEF SessionStep

\* The manual procedures, at any moment of the sessions (the drop on Pool B
\* aside), and the commits, which add rows to Pool A only, keep the invariant.
LEMMA OtherKeeps ==
    ASSUME RecordInv,
           \/ ManualResume \/ ManualDropPoolB \/ ManualDropPoolA
           \/ \E q \in Requests : ByWorkOSOrgID(q) \/ CommitAccepted(q)
    PROVE  RecordInv'
<1>1. TypeOK /\ TypeOK'
  BY OtherTypes DEF RecordInv
<1>2. \A x \in Sessions : MoveOK(x) /\ DropOK(x)
  BY DEF RecordInv
<1>3. PoolOK /\ PreSuspendRowsMigrated /\ LifecycleAudited /\ ServingSchemaKept
  BY DEF RecordInv
<1>4. SUFFICES /\ \A x \in Sessions : (MoveOK(x) /\ DropOK(x))'
               /\ PoolOK' /\ PreSuspendRowsMigrated' /\ LifecycleAudited' /\ ServingSchemaKept'
  BY <1>1 DEF RecordInv
<1> USE <1>1, <1>2, <1>3
<1> USE DEF MoveOK, DropOK, PoolOK, PreSuspendRowsMigrated, LifecycleAudited, ServingSchemaKept,
       Dumped, Restored
<1>5. CASE ManualResume
  BY <1>5 DEF ManualResume, transitionLifecycle
<1>6. CASE ManualDropPoolB
  BY <1>6 DEF ManualDropPoolB
<1>7. CASE ManualDropPoolA
  BY <1>7 DEF ManualDropPoolA
<1>8. ASSUME NEW q \in Requests, ByWorkOSOrgID(q)
      PROVE  /\ \A x \in Sessions : (MoveOK(x) /\ DropOK(x))'
             /\ PoolOK' /\ PreSuspendRowsMigrated' /\ LifecycleAudited' /\ ServingSchemaKept'
  BY <1>8 DEF ByWorkOSOrgID
<1>9. ASSUME NEW q \in Requests, CommitAccepted(q)
      PROVE  /\ \A x \in Sessions : (MoveOK(x) /\ DropOK(x))'
             /\ PoolOK' /\ PreSuspendRowsMigrated' /\ LifecycleAudited' /\ ServingSchemaKept'
  <2>1. rows'["B"] = rows["B"] /\ rows["A"] \subseteq rows'["A"]
    BY <1>9 DEF CommitAccepted, TypeOK, Pools
  <2> QED
    BY <1>9, <2>1 DEF CommitAccepted
<1> QED
  BY <1>5, <1>6, <1>7, <1>8, <1>9

\* Next, split into the operations of the sessions and the rest.
LEMMA NextSplit ==
    ASSUME Next
    PROVE  \/ \E s \in Sessions : SessionStep(s)
           \/ ManualResume \/ ManualDropPoolB \/ ManualDropPoolA
           \/ \E q \in Requests : ByWorkOSOrgID(q) \/ CommitAccepted(q)
BY DEF Next, SessionStep

\* Every step keeps the invariant.
LEMMA RecordNext == RecordInv /\ [Next]_vars => RecordInv'
<1> SUFFICES ASSUME RecordInv, [Next]_vars PROVE RecordInv'
  OBVIOUS
<1>1. CASE Next
  BY <1>1, NextSplit, SessionKeeps, OtherKeeps
<1>2. CASE UNCHANGED vars
  BY <1>2 DEF vars, RecordInv, TypeOK, MoveOK, DropOK, PoolOK, PreSuspendRowsMigrated,
     LifecycleAudited, ServingSchemaKept
<1> QED
  BY <1>1, <1>2

\* The inductive invariant holds in every reachable state.
LEMMA RecordInvariant == Spec => []RecordInv
BY RecordInit, RecordNext, PTL DEF Spec

----------------------------------------------------------------------------
(* The theorems *)

\* RecordSound, for any number of sessions, commits and tables: a move loses
\* no row Pool A held when it began, nothing is repointed before a full count,
\* and every state but active is the one the audit log records
\* (pool_b_migrate.go:138-209, lifecycle.go:85-190).
THEOREM RecordHolds == Spec => []RecordSound
<1>1. RecordInv => RecordSound
  BY DEF RecordInv, RecordSound, MoveOK, ParityBeforeFlip, Restored
<1> QED
  BY <1>1, RecordInvariant, PTL

\* DeletedLeftByMigrationOnly: the conditions of the UPDATE statements
\* (lifecycle.go:135-190) keep a deleted tenant deleted; only the resume of a
\* migration (pool_b_migrate.go:184) has none.
THEOREM DeletedHolds == Spec => DeletedLeftByMigrationOnly
<1>1. ASSUME RecordInv, [Next]_vars,
             lifecycle_state = "deleted", lifecycle_state' # "deleted"
      PROVE  \E s \in Sessions : session[s].op = "resume" /\ session'[s].op = "audit"
  <2>1. TypeOK /\ Next
    BY <1>1 DEF RecordInv, vars
  <2>2. ASSUME NEW s \in Sessions, SessionStep(s) PROVE SetLifecycleState(s)
    BY <1>1, <2>2 DEF SessionStep, Suspend, WindDown, DeleteTransition, DeleteDrop,
       MigrateSuspend, pgDump, pgRestore, validateRowCounts, UpdatePoolAndDSN,
       writeMigrationAudit, RollbackSuspend, RollbackPool, Abort, transitionLifecycle
  <2>3. \E s \in Sessions : SessionStep(s)
    BY <1>1, <2>1, NextSplit DEF ManualResume, ManualDropPoolB, ManualDropPoolA,
       ByWorkOSOrgID, CommitAccepted, transitionLifecycle
  <2>4. PICK s \in Sessions : SetLifecycleState(s)
    BY <2>2, <2>3
  <2> QED
    BY <2>1, <2>4 DEF SetLifecycleState, TypeOK, SessionState
<1>2. RecordInv /\ [Next]_vars =>
        [lifecycle_state = "deleted" /\ lifecycle_state' # "deleted" =>
           \E s \in Sessions : session[s].op = "resume" /\ session'[s].op = "audit"]_vars
  BY <1>1
<1> QED
  BY <1>2, RecordInvariant, PTL DEF Spec, DeletedLeftByMigrationOnly

\* ServingSchemaKept: the drop of Delete runs in a transaction of its own and
\* re-reads nothing (lifecycle.go:104-130).  A tenant that is not deleted still
\* has the schema the gateway writes to, unless a migration took it back from
\* deleted (pool_b_migrate.go:184) or Pool A's retention ended.
THEOREM ServingHolds == Spec => []ServingSchemaKept
<1>1. RecordInv => ServingSchemaKept
  BY DEF RecordInv
<1> QED
  BY <1>1, RecordInvariant, PTL
=============================================================================
