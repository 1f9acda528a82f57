------------------------ MODULE CatalogGatewayProofs ------------------------
(***************************************************************************)
(* Safety of the commit path for any number of requests, tables, policies, *)
(* specs and table-changes: the inductive invariant of CatalogGateway and  *)
(* the properties that follow from it.                                     *)
(***************************************************************************)
EXTENDS CatalogGateway, TLAPS

----------------------------------------------------------------------------
(* The inductive invariant *)

Gate    == {"load", "hook", "fetch", "eval", "reject"}
Forward == {"forward", "audit", "ingest"}

\* A request being served is decoded, unanswered and inside its change list.
ServedOK(r) ==
    /\ pc[r] # "done" => status[r] = NoStatus
    /\ pc[r] \in {"idle", "creds"} => pos[r] = 1
    /\ pc[r] \in {"creds"} \cup Gate \cup Forward =>
          req[r] \in Request /\ pos[r] \in 1 .. req[r].n
    /\ req[r].kind = "single" => req[r].n = 1

Control == \A r \in Requests : ServedOK(r)

\* Change i of r was loaded, and every policy loaded for it allowed it.
Approved(r, i) ==
    /\ meta[r][i] # NoMeta
    /\ \A p \in loaded[r][i] : Decide(p, meta[r][i], req[r].changes[i]) = "allow"

\* How far the policy gate has got with r.
GateOK(r) ==
    /\ pc[r] \in Gate => \A i \in 1 .. (pos[r] - 1) : Approved(r, i)
    /\ pc[r] \in {"hook", "fetch", "eval"} => meta[r][pos[r]] # NoMeta
    /\ pc[r] = "eval" =>
          \A p \in loaded[r][pos[r]] : p \in todo[r] \/ Verdict(r, p) = "allow"
    /\ pc[r] \in Forward => \A i \in 1 .. req[r].n : Approved(r, i)

Gated == \A r \in Requests : GateOK(r)

\* A request that changed the upstream is past the gate for good.
AppliedOK(e) ==
    /\ pc[e.req] \in Forward \cup {"done"}
    /\ status[e.req] \in {NoStatus, 200, 409, 502}
    /\ \A i \in 1 .. req[e.req].n : Approved(e.req, i)

Past == \A e \in applied : AppliedOK(e)

\* m is not newer than table t, and if it is as new it is the current metadata.
Current(m, t) ==
    /\ m.ver <= catalog[t].ver
    /\ m.ver = catalog[t].ver => m = catalog[t]

\* What r requires and what it has loaded lie in the past of the catalog.
VersionOK(r) ==
    /\ pc[r] \in {"idle", "creds"} => \A i \in Positions : meta[r][i] = NoMeta
    /\ \A i \in 1 .. req[r].n :
          /\ req[r].changes[i].base <= catalog[req[r].changes[i].ref].ver
          /\ meta[r][i] # NoMeta =>
                /\ req[r].changes[i].base <= meta[r][i].ver
                /\ Current(meta[r][i], req[r].changes[i].ref)

Versions == \A r \in Requests : VersionOK(r)

----------------------------------------------------------------------------
(* Shapes *)

\* The fields of a decoded request (CommitRequest and
\* MultiTableCommitRequest): between one and MaxRefs changes.
LEMMA RequestShape ==
    ASSUME NEW q \in Request
    PROVE  /\ q.kind \in {"single", "multi"}
           /\ q.engine \in Engines
           /\ q.n \in 1 .. MaxRefs
           /\ q.changes \in [1 .. q.n -> Change]
           /\ \A i \in 1 .. q.n : /\ q.changes[i] \in Change
                                  /\ q.changes[i].ref \in Tables
                                  /\ q.changes[i].base \in NoBase .. MaxVersion
                                  /\ q.changes[i].spec \in Specs \cup {KeepSpec}
<1>1. PICK n \in 1 .. MaxRefs : q \in RequestOf(n)
  BY DEF Request
<1>2. QED
  BY <1>1, MaxRefsAssumption DEF RequestOf, Change

\* A request slot nothing has arrived at has no table-change.
LEMMA NoRequestEmpty == 1 .. NoRequest.n = {}
<1>1. NoRequest.n = 0
  BY DEF NoRequest
<1> QED
  BY <1>1

\* A table-change the handler is at names a table of the catalog.
LEMMA ChangeShape ==
    ASSUME TypeOK, Control, NEW r \in Requests,
           pc[r] \in {"creds"} \cup Gate \cup Forward
    PROVE  /\ req[r] \in Request
           /\ req[r].n \in 1 .. MaxRefs
           /\ pos[r] \in 1 .. req[r].n
           /\ ChangeOf(r) \in Change
           /\ ChangeOf(r).ref \in Tables
           /\ ChangeOf(r).base \in NoBase .. MaxVersion
           /\ ChangeOf(r).spec \in Specs \cup {KeepSpec}
<1>1. req[r] \in Request /\ pos[r] \in 1 .. req[r].n
  BY DEF Control, ServedOK
<1>2. QED
  BY <1>1, RequestShape DEF ChangeOf

----------------------------------------------------------------------------
(* Types *)

\* The gateway starts with its types and with no request being served.
LEMMA TypeInit == Init => TypeOK /\ Control
<1> SUFFICES ASSUME Init PROVE TypeOK /\ Control
  OBVIOUS
<1>1. TypeOK
  BY SpecsAssumption, MaxRefsAssumption
  DEF Init, TypeOK, Meta, Positions, Steps, NoSpec, NoStatus
<1>2. Control
  BY DEF Init, Control, ServedOK, Gate, Forward, NoRequest
<1> QED
  BY <1>1, <1>2

PcStatusOK ==
    /\ pc \in [Requests -> Steps]
    /\ status \in [Requests -> Statuses \cup {NoStatus}]

\* Writing the status line and moving to the next call keep their types.
LEMMA RespondTypes ==
    ASSUME TypeOK, NEW r \in Requests, NEW code \in Statuses, Respond(r, code)
    PROVE  PcStatusOK'
BY DEF TypeOK, PcStatusOK, Respond, Steps

\* Moving to the next call keeps the types.
LEMMA GotoTypes ==
    ASSUME TypeOK, NEW r \in Requests, NEW step \in Steps, Goto(r, step)
    PROVE  PcStatusOK'
BY DEF TypeOK, PcStatusOK, Goto

\* A step of the handler of r keeps the types.  The cases are the calls the
\* handler makes.
LEMMA TypeStep ==
    ASSUME TypeOK, Control, NEW r \in Requests,
           RefuseAtGate(r) \/ HandlerStep(r) \/ \E q \in Request : Arrive(r, q)
    PROVE  TypeOK'
<1> USE DEF Ledgers, env
<1>1. ASSUME NEW q \in Request, Arrive(r, q) PROVE TypeOK'
  <2>1. PcStatusOK'
    BY <1>1, GotoTypes DEF Arrive, Steps
  <2> QED
    BY <1>1, <2>1 DEF Arrive, TypeOK, PcStatusOK
<1>2. CASE RefuseAtGate(r)
  <2>1. PcStatusOK'
    BY <1>2, RespondTypes DEF RefuseAtGate, Statuses
  <2> QED
    BY <1>2, <2>1 DEF RefuseAtGate, TypeOK, PcStatusOK
<1>3. CASE ResolveAdapter(r)
  <2>1. PcStatusOK'
    BY <1>3, RespondTypes, GotoTypes DEF ResolveAdapter, Statuses, Steps
  <2> QED
    BY <1>3, <2>1 DEF ResolveAdapter, TypeOK, PcStatusOK
<1>4. CASE LoadTable(r)
  <2>1. ChangeOf(r).ref \in Tables
    BY <1>4, ChangeShape DEF LoadTable, Gate
  <2>2. AfterLoad(r) \in Steps
    BY DEF AfterLoad, Steps
  <2>3. PcStatusOK'
    BY <1>4, <2>2, RespondTypes, GotoTypes DEF LoadTable, Statuses
  <2>4. meta' \in [Requests -> [Positions -> Meta \cup {NoMeta}]]
    <3>1. /\ meta \in [Requests -> [Positions -> Meta \cup {NoMeta}]]
          /\ catalog[ChangeOf(r).ref] \in Meta
          /\ pos[r] \in Positions
      BY <2>1 DEF TypeOK
    <3>2. meta' = [meta EXCEPT ![r][pos[r]] = catalog[ChangeOf(r).ref]] \/ meta' = meta
      BY <1>4 DEF LoadTable
    <3> QED
      BY <3>1, <3>2
  <2> QED
    BY <1>4, <2>3, <2>4 DEF LoadTable, TypeOK, PcStatusOK
<1>5. CASE WriteCoordinatorPreCommit(r)
  <2>1. ChangeOf(r).ref \in Tables
    BY <1>5, ChangeShape DEF WriteCoordinatorPreCommit, Gate
  <2>2. PcStatusOK'
    BY <1>5, RespondTypes, GotoTypes DEF WriteCoordinatorPreCommit, Statuses, Steps
  <2>3. hookSpec' \in [Requests -> Specs \cup {NoSpec}]
    BY <1>5, <2>1 DEF WriteCoordinatorPreCommit, TypeOK
  <2> QED
    BY <1>5, <2>2, <2>3 DEF WriteCoordinatorPreCommit, TypeOK, PcStatusOK
<1>6. CASE LoadPoliciesForTable(r)
  <2>1. ChangeOf(r).ref \in Tables
    BY <1>6, ChangeShape DEF LoadPoliciesForTable, Gate
  <2>2. PcStatusOK'
    BY <1>6, RespondTypes, GotoTypes DEF LoadPoliciesForTable, Statuses, Steps
  <2>3. /\ loaded' \in [Requests -> [Positions -> SUBSET Policies]]
        /\ todo' \in [Requests -> SUBSET Policies]
    <3>1. /\ loaded \in [Requests -> [Positions -> SUBSET Policies]]
          /\ todo \in [Requests -> SUBSET Policies]
          /\ bound[ChangeOf(r).ref] \in SUBSET Policies
          /\ pos[r] \in Positions
      BY <2>1 DEF TypeOK
    <3>2. \/ /\ loaded' = [loaded EXCEPT ![r][pos[r]] = bound[ChangeOf(r).ref]]
             /\ todo' = [todo EXCEPT ![r] = bound[ChangeOf(r).ref]]
          \/ loaded' = loaded /\ todo' = todo
      BY <1>6 DEF LoadPoliciesForTable
    <3>3. loaded' \in [Requests -> [Positions -> SUBSET Policies]]
      BY ONLY <3>1, <3>2, r \in Requests
    <3>4. todo' \in [Requests -> SUBSET Policies]
      BY ONLY <3>1, <3>2, r \in Requests
    <3> QED
      BY <3>3, <3>4
  <2> QED
    BY <1>6, <2>2, <2>3 DEF LoadPoliciesForTable, TypeOK, PcStatusOK
<1>7. CASE Evaluate(r)
  <2>1. PcStatusOK'
    BY <1>7, RespondTypes, GotoTypes DEF Evaluate, Statuses, Steps
  <2>2. todo' \in [Requests -> SUBSET Policies]
    BY <1>7 DEF Evaluate, TypeOK
  <2> QED
    BY <1>7, <2>1, <2>2 DEF Evaluate, TypeOK, PcStatusOK
<1>8. CASE ApproveRef(r)
  <2>1. req[r].n \in 1 .. MaxRefs
    BY <1>8, ChangeShape DEF ApproveRef, Gate
  <2>2. PcStatusOK'
    BY <1>8, GotoTypes DEF ApproveRef, Steps
  <2>3. pos' \in [Requests -> Positions]
    <3>1. /\ pos \in [Requests -> Positions]
          /\ \/ pos' = [pos EXCEPT ![r] = 1]
             \/ pos[r] < req[r].n /\ pos' = [pos EXCEPT ![r] = pos[r] + 1]
      BY <1>8 DEF ApproveRef, TypeOK
    <3>2. pos[r] < req[r].n => pos[r] + 1 \in Positions
      BY <2>1, <3>1, MaxRefsAssumption DEF Positions
    <3>3. 1 \in Positions
      BY MaxRefsAssumption DEF Positions
    <3> QED
      BY <3>1, <3>2, <3>3
  <2> QED
    BY <1>8, <2>2, <2>3 DEF ApproveRef, TypeOK, PcStatusOK
<1>9. CASE RejectDenied(r)
  <2>1. PcStatusOK'
    BY <1>9, RespondTypes, GotoTypes DEF RejectDenied, Statuses, Steps
  <2>2. audit' \subseteq [req : Requests, pos : Positions, decision : {"APPROVED", "REJECTED"}]
    BY <1>9 DEF RejectDenied, EmitWriteEvent, AuditRow, TypeOK
  <2> QED
    BY <1>9, <2>1, <2>2 DEF RejectDenied, TypeOK, PcStatusOK
<1>10. CASE CommitTable(r)
  <2>1. /\ ChangeOf(r).ref \in Tables
        /\ ChangeOf(r).spec \in Specs \cup {KeepSpec}
    BY <1>10, ChangeShape DEF CommitTable, Forward
  <2>2. ErrorStatuses(ChangeOf(r)) \subseteq Statuses
    BY DEF ErrorStatuses, Statuses
  <2>3. PcStatusOK'
    BY <1>10, <2>2, RespondTypes, GotoTypes DEF CommitTable, Statuses, Steps
  <2>4. ASSUME Apply(r)
        PROVE  /\ catalog' \in [Tables -> Meta]
               /\ applied' \subseteq [req : Requests, pos : Positions, prev : Meta]
    <3>1. catalog[ChangeOf(r).ref] \in Meta
      BY <2>1 DEF TypeOK
    <3>2. catalog' \in [Tables -> Meta]
      BY <2>1, <2>4, <3>1 DEF Apply, Meta, TypeOK
    <3> QED
      BY <2>4, <3>1, <3>2 DEF Apply, TypeOK
  <2>5. /\ catalog' \in [Tables -> Meta]
        /\ applied' \subseteq [req : Requests, pos : Positions, prev : Meta]
    BY <1>10, <2>4 DEF CommitTable, TypeOK
  <2> QED
    BY <1>10, <2>3, <2>5 DEF CommitTable, TypeOK, PcStatusOK
<1>11. CASE AuditApproved(r)
  <2>1. PcStatusOK'
    BY <1>11, GotoTypes DEF AuditApproved, Steps
  <2>2. audit' \subseteq [req : Requests, pos : Positions, decision : {"APPROVED", "REJECTED"}]
    BY <1>11 DEF AuditApproved, EmitWriteEvent, AuditRow, TypeOK
  <2> QED
    BY <1>11, <2>1, <2>2 DEF AuditApproved, TypeOK, PcStatusOK
<1>12. CASE IngestSnapshot(r)
  <2>1. req[r].n \in 1 .. MaxRefs
    BY <1>12, ChangeShape DEF IngestSnapshot, Forward
  <2>2. PcStatusOK'
    BY <1>12, RespondTypes, GotoTypes DEF IngestSnapshot, Statuses, Steps
  <2>3. pos' \in [Requests -> Positions]
    BY <1>12, <2>1, MaxRefsAssumption DEF IngestSnapshot, TypeOK, Positions
  <2>4. ingested' \subseteq [req : Requests, pos : Positions]
    BY <1>12 DEF IngestSnapshot, TypeOK
  <2> QED
    BY <1>12, <2>2, <2>3, <2>4 DEF IngestSnapshot, TypeOK, PcStatusOK
<1> QED
  BY <1>1, <1>2, <1>3, <1>4, <1>5, <1>6, <1>7, <1>8, <1>9, <1>10, <1>11, <1>12
  DEF HandlerStep

\* A change made outside the gateway keeps the types.
LEMMA TypeEnvironment ==
    ASSUME TypeOK, NEW t \in Tables,
           \/ BypassCommit(t)
           \/ \E p \in Policies : ChangePolicy(t, p)
           \/ \E s \in Specs : ActivateSpec(t, s)
    PROVE  TypeOK'
<1> USE DEF Ledgers
<1>1. CASE BypassCommit(t)
  <2>1. catalog' \in [Tables -> Meta]
    BY <1>1 DEF BypassCommit, Meta, TypeOK
  <2> QED
    BY <1>1, <2>1 DEF BypassCommit, TypeOK
<1>2. ASSUME NEW p \in Policies, ChangePolicy(t, p) PROVE TypeOK'
  <2>1. bound' \in [Tables -> SUBSET Policies]
    BY <1>2 DEF ChangePolicy, TypeOK
  <2> QED
    BY <1>2, <2>1 DEF ChangePolicy, TypeOK
<1>3. ASSUME NEW s \in Specs, ActivateSpec(t, s) PROVE TypeOK'
  <2>1. active' \in [Tables -> Specs \cup {NoSpec}]
    BY <1>3 DEF ActivateSpec, TypeOK
  <2> QED
    BY <1>3, <2>1 DEF ActivateSpec, TypeOK
<1> QED
  BY <1>1, <1>2, <1>3

----------------------------------------------------------------------------
(* Control *)

\* What a step of the handler of r leaves alone: the locals of every other
\* request.
Frame(r) ==
    \A x \in Requests \ {r} :
        /\ req'[x] = req[x]
        /\ pc'[x] = pc[x]
        /\ pos'[x] = pos[x]
        /\ meta'[x] = meta[x]
        /\ loaded'[x] = loaded[x]
        /\ todo'[x] = todo[x]
        /\ hookSpec'[x] = hookSpec[x]
        /\ status'[x] = status[x]

\* Handlers share no locals: ServeHTTP keeps everything on its own stack.
LEMMA StepFrame ==
    ASSUME TypeOK, NEW r \in Requests,
           RefuseAtGate(r) \/ HandlerStep(r) \/ \E q \in Request : Arrive(r, q)
    PROVE  Frame(r)
<1> USE DEF Ledgers, env, Frame, Respond, Goto, TypeOK
<1>1. ASSUME NEW q \in Request, Arrive(r, q) PROVE Frame(r)
  BY <1>1 DEF Arrive
<1>2. CASE RefuseAtGate(r)
  BY <1>2 DEF RefuseAtGate
<1>3. CASE ResolveAdapter(r)
  BY <1>3 DEF ResolveAdapter
<1>4. CASE LoadTable(r)
  BY <1>4 DEF LoadTable
<1>5. CASE WriteCoordinatorPreCommit(r)
  BY <1>5 DEF WriteCoordinatorPreCommit
<1>6. CASE LoadPoliciesForTable(r)
  BY <1>6 DEF LoadPoliciesForTable
<1>7. CASE Evaluate(r)
  BY <1>7 DEF Evaluate
<1>8. CASE ApproveRef(r)
  BY <1>8 DEF ApproveRef
<1>9. CASE RejectDenied(r)
  BY <1>9 DEF RejectDenied
<1>10. CASE CommitTable(r)
  BY <1>10 DEF CommitTable
<1>11. CASE AuditApproved(r)
  BY <1>11 DEF AuditApproved
<1>12. CASE IngestSnapshot(r)
  BY <1>12 DEF IngestSnapshot
<1> QED
  BY <1>1, <1>2, <1>3, <1>4, <1>5, <1>6, <1>7, <1>8, <1>9, <1>10, <1>11, <1>12
  DEF HandlerStep

\* The answer leaves nothing to serve.
LEMMA RespondServed ==
    ASSUME TypeOK, NEW r \in Requests, NEW code, Respond(r, code), ServedOK(r),
           req'[r] = req[r]
    PROVE  ServedOK(r)'
BY DEF Respond, ServedOK, TypeOK, Gate, Forward

\* Neither does a panic, which unwinds the handler without an answer.
LEMMA PanicServed ==
    ASSUME TypeOK, NEW r \in Requests, Goto(r, "done"), ServedOK(r),
           req'[r] = req[r]
    PROVE  ServedOK(r)'
BY DEF Goto, ServedOK, TypeOK, Gate, Forward

\* A call that goes on inside the change list keeps the request served.
LEMMA GotoServed ==
    ASSUME TypeOK, NEW r \in Requests, NEW step \in Gate \cup Forward, Goto(r, step),
           pc[r] \in {"creds"} \cup Gate \cup Forward, ServedOK(r),
           req'[r] = req[r], pos'[r] \in 1 .. req[r].n
    PROVE  ServedOK(r)'
BY DEF Goto, ServedOK, TypeOK, Gate, Forward

\* A step of any handler keeps every request inside its change list.
LEMMA ControlStep ==
    ASSUME TypeOK, Control, NEW r \in Requests,
           RefuseAtGate(r) \/ HandlerStep(r) \/ \E q \in Request : Arrive(r, q)
    PROVE  Control'
<1>1. SUFFICES ServedOK(r)'
  <2>1. ASSUME NEW x \in Requests, x # r PROVE ServedOK(x)'
    BY <2>1, StepFrame DEF Frame, Control, ServedOK
  <2> QED
    BY <2>1 DEF Control
<1>2. ServedOK(r)
  BY DEF Control
<1> USE DEF Ledgers, env
<1>3. ASSUME NEW q \in Request, Arrive(r, q) PROVE ServedOK(r)'
  BY <1>2, <1>3, RequestShape
  DEF Arrive, Goto, Wellformed, TypeOK, ServedOK, Gate, Forward
<1>4. CASE RefuseAtGate(r)
  BY <1>2, <1>4, RespondServed DEF RefuseAtGate
<1>5. CASE pc[r] \in {"creds"} \cup Gate \cup Forward
  <2>1. req[r] \in Request /\ req[r].n \in 1 .. MaxRefs /\ pos[r] \in 1 .. req[r].n
    BY <1>5, ChangeShape
  <2>2. CASE ResolveAdapter(r)
    BY <1>2, <1>5, <2>1, <2>2, RespondServed, GotoServed DEF ResolveAdapter, Gate
  <2>3. CASE LoadTable(r)
    <3>1. AfterLoad(r) \in Gate
      BY DEF AfterLoad, Gate
    <3> QED
      BY <1>2, <1>5, <2>1, <2>3, <3>1, RespondServed, GotoServed DEF LoadTable
  <2>4. CASE WriteCoordinatorPreCommit(r)
    BY <1>2, <1>5, <2>1, <2>4, RespondServed, GotoServed
    DEF WriteCoordinatorPreCommit, Gate
  <2>5. CASE LoadPoliciesForTable(r)
    BY <1>2, <1>5, <2>1, <2>5, RespondServed, GotoServed DEF LoadPoliciesForTable, Gate
  <2>6. CASE Evaluate(r)
    BY <1>2, <1>5, <2>1, <2>6, RespondServed, GotoServed DEF Evaluate, Gate
  <2>7. CASE ApproveRef(r)
    <3>1. pos'[r] \in 1 .. req[r].n
      BY <2>1, <2>7 DEF ApproveRef, TypeOK
    <3> QED
      BY <1>2, <1>5, <2>7, <3>1, GotoServed DEF ApproveRef, Gate, Forward
  <2>8. CASE RejectDenied(r)
    BY <1>2, <2>8, RespondServed, PanicServed DEF RejectDenied
  <2>9. CASE CommitTable(r)
    BY <1>2, <1>5, <2>1, <2>9, RespondServed, GotoServed DEF CommitTable, Forward
  <2>10. CASE AuditApproved(r)
    BY <1>2, <1>5, <2>1, <2>10, GotoServed, PanicServed DEF AuditApproved, Forward
  <2>11. CASE IngestSnapshot(r)
    <3>1. CASE pos[r] < req[r].n
      <4>1. pos'[r] \in 1 .. req[r].n
        BY <2>1, <2>11, <3>1 DEF IngestSnapshot, TypeOK
      <4> QED
        BY <1>2, <1>5, <2>11, <3>1, <4>1, GotoServed DEF IngestSnapshot, Forward
    <3>2. CASE ~ (pos[r] < req[r].n)
      BY <1>2, <2>11, <3>2, RespondServed DEF IngestSnapshot
    <3> QED
      BY <3>1, <3>2
  <2>12. CASE RefuseAtGate(r) \/ \E q \in Request : Arrive(r, q)
    BY <1>3, <1>4, <2>12
  <2> QED
    BY <2>2, <2>3, <2>4, <2>5, <2>6, <2>7, <2>8, <2>9, <2>10, <2>11, <2>12 DEF HandlerStep
<1>6. CASE pc[r] \notin {"creds"} \cup Gate \cup Forward
  <2>1. ~ HandlerStep(r)
    BY <1>6 DEF HandlerStep, ResolveAdapter, LoadTable, WriteCoordinatorPreCommit,
       LoadPoliciesForTable, Evaluate, ApproveRef, RejectDenied, CommitTable,
       AuditApproved, IngestSnapshot, Gate, Forward
  <2> QED
    BY <1>3, <1>4, <2>1
<1> QED
  BY <1>5, <1>6

\* The environment leaves the requests alone.
Quiet == UNCHANGED << req, pc, pos, meta, loaded, todo, hookSpec, status, Ledgers >>

\* Other engines and administrators do not touch a request being served.
LEMMA EnvironmentQuiet ==
    ASSUME NEW t \in Tables,
           \/ BypassCommit(t)
           \/ \E p \in Policies : ChangePolicy(t, p)
           \/ \E s \in Specs : ActivateSpec(t, s)
    PROVE  Quiet
BY DEF BypassCommit, ChangePolicy, ActivateSpec, Quiet, Ledgers

\* A step outside the handlers keeps the control state.
LEMMA ControlQuiet == ASSUME Control, Quiet PROVE Control'
BY DEF Control, ServedOK, Quiet, Ledgers

TypeInv == TypeOK /\ Control

\* Types and control state together are inductive.
LEMMA TypeInvNext == TypeInv /\ [Next]_vars => TypeInv'
<1> SUFFICES ASSUME TypeOK, Control, [Next]_vars PROVE TypeOK' /\ Control'
  BY DEF TypeInv
<1>1. ASSUME NEW r \in Requests,
             RefuseAtGate(r) \/ HandlerStep(r) \/ \E q \in Request : Arrive(r, q)
      PROVE  TypeOK' /\ Control'
  BY <1>1, TypeStep, ControlStep
<1>2. ASSUME NEW t \in Tables,
             \/ BypassCommit(t)
             \/ \E p \in Policies : ChangePolicy(t, p)
             \/ \E s \in Specs : ActivateSpec(t, s)
      PROVE  TypeOK' /\ Control'
  BY <1>2, TypeEnvironment, EnvironmentQuiet, ControlQuiet
<1>3. CASE UNCHANGED vars
  BY <1>3 DEF vars, TypeOK, Control, ServedOK
<1> QED
  BY <1>1, <1>2, <1>3 DEF Next

\* Type correctness: whatever requests, bypass commits and administrators do,
\* every variable of the gateway keeps its type, and a handler never looks at
\* a table-change its request does not have (handler.go, multi_table.go).
THEOREM TypeCorrect == Spec => []TypeOK
<1>1. Init => TypeInv
  BY TypeInit DEF TypeInv
<1>2. TypeInv => TypeOK
  BY DEF TypeInv
<1> QED
  BY <1>1, <1>2, TypeInvNext, PTL DEF Spec

----------------------------------------------------------------------------
(* The policy gate *)

\* Loaded metadata differs from none.
LEMMA LoadedMeta == ASSUME NEW m \in Meta PROVE m # NoMeta
BY DEF Meta, NoMeta

\* An answered request has no gate left to pass.
LEMMA RespondGate ==
    ASSUME TypeOK, NEW r \in Requests, NEW code, Respond(r, code)
    PROVE  GateOK(r)'
BY DEF Respond, GateOK, TypeOK, Gate, Forward

\* A step of any handler keeps the progress of the policy gate.
LEMMA GatedStep ==
    ASSUME TypeOK, Control, Gated, NEW r \in Requests,
           RefuseAtGate(r) \/ HandlerStep(r) \/ \E q \in Request : Arrive(r, q)
    PROVE  Gated'
<1>1. SUFFICES GateOK(r)'
  <2>1. ASSUME NEW x \in Requests, x # r PROVE GateOK(x)'
    BY <2>1, StepFrame DEF Frame, Gated, GateOK, Approved, Verdict, ChangeOf
  <2> QED
    BY <2>1 DEF Gated
<1>2. GateOK(r) /\ ServedOK(r) /\ pos[r] \in Nat
  BY DEF Gated, Control, TypeOK, Positions
<1> USE DEF Ledgers, env
<1>3. ASSUME NEW q \in Request, Arrive(r, q) PROVE GateOK(r)'
  BY <1>3 DEF Arrive, Goto, GateOK, TypeOK, Gate, Forward
<1>4. CASE RefuseAtGate(r)
  BY <1>4, RespondGate DEF RefuseAtGate
<1>5. CASE ResolveAdapter(r)
  <2>1. CASE Goto(r, "load")
    BY <1>2, <1>5, <2>1
    DEF ResolveAdapter, Goto, GateOK, ServedOK, TypeOK, Gate, Forward
  <2> QED
    BY <1>5, <2>1, RespondGate DEF ResolveAdapter
<1>6. CASE LoadTable(r)
  <2>1. CASE Goto(r, AfterLoad(r)) /\ meta' = [meta EXCEPT ![r][pos[r]] = catalog[ChangeOf(r).ref]]
    <3>1. catalog[ChangeOf(r).ref] # NoMeta
      BY <1>6, ChangeShape, LoadedMeta DEF LoadTable, TypeOK, Gate
    <3>2. pc'[r] \in {"hook", "fetch"} /\ pc[r] = "load"
      BY <1>6, <2>1 DEF LoadTable, AfterLoad, Goto, TypeOK
    <3>3. /\ meta'[r][pos[r]] # NoMeta
          /\ \A i \in 1 .. (pos[r] - 1) : meta'[r][i] = meta[r][i]
      BY <1>2, <2>1, <3>1 DEF TypeOK
    <3> QED
      BY <1>2, <1>6, <3>2, <3>3 DEF LoadTable, GateOK, Approved, Gate, Forward
  <2> QED
    BY <1>6, <2>1, RespondGate DEF LoadTable
<1>7. CASE WriteCoordinatorPreCommit(r)
  <2>1. CASE Goto(r, "fetch")
    BY <1>2, <1>7, <2>1
    DEF WriteCoordinatorPreCommit, Goto, GateOK, Approved, TypeOK, Gate, Forward
  <2> QED
    BY <1>7, <2>1, RespondGate DEF WriteCoordinatorPreCommit
<1>8. CASE LoadPoliciesForTable(r)
  <2>1. CASE /\ Goto(r, "eval")
             /\ loaded' = [loaded EXCEPT ![r][pos[r]] = bound[ChangeOf(r).ref]]
             /\ todo' = [todo EXCEPT ![r] = bound[ChangeOf(r).ref]]
    <3>1. pc'[r] = "eval" /\ pc[r] = "fetch"
      BY <1>8, <2>1 DEF LoadPoliciesForTable, Goto, TypeOK
    <3>2. /\ loaded'[r][pos[r]] = todo'[r]
          /\ \A i \in 1 .. (pos[r] - 1) : loaded'[r][i] = loaded[r][i]
      BY <1>2, <2>1 DEF TypeOK
    <3> QED
      BY <1>2, <1>8, <3>1, <3>2
      DEF LoadPoliciesForTable, GateOK, Approved, Gate, Forward
  <2> QED
    BY <1>8, <2>1, RespondGate DEF LoadPoliciesForTable
<1>9. CASE Evaluate(r)
  <2>1. PICK p \in todo[r] :
          \/ /\ Verdict(r, p) = "allow"
             /\ todo' = [todo EXCEPT ![r] = @ \ {p}]
             /\ Goto(r, "eval")
          \/ Goto(r, "reject")
          \/ Respond(r, 503)
    BY <1>9 DEF Evaluate
  <2>2. CASE /\ Verdict(r, p) = "allow"
             /\ todo' = [todo EXCEPT ![r] = @ \ {p}]
             /\ Goto(r, "eval")
    <3>1. pc'[r] = "eval" /\ pc[r] = "eval" /\ todo'[r] = todo[r] \ {p}
      BY <1>9, <2>2 DEF Evaluate, Goto, TypeOK
    <3> QED
      BY <1>2, <1>9, <2>2, <3>1
      DEF Evaluate, GateOK, Approved, Verdict, ChangeOf, Gate, Forward
  <2>3. CASE Goto(r, "reject")
    BY <1>2, <1>9, <2>3
    DEF Evaluate, Goto, GateOK, Approved, TypeOK, Gate, Forward
  <2> QED
    BY <2>1, <2>2, <2>3, RespondGate
<1>10. CASE ApproveRef(r)
  <2>1. \A i \in 1 .. pos[r] : Approved(r, i)
    BY <1>2, <1>10 DEF ApproveRef, GateOK, Approved, Verdict, ChangeOf, Gate
  <2>2. UNCHANGED << req, meta, loaded >>
    BY <1>10 DEF ApproveRef
  <2>3. CASE pos[r] < req[r].n
    <3>1. pc'[r] = "load" /\ pos'[r] = pos[r] + 1
      BY <1>10, <2>3 DEF ApproveRef, Goto, TypeOK
    <3> QED
      BY <1>2, <2>1, <2>2, <3>1 DEF GateOK, Approved, Gate, Forward
  <2>4. CASE ~ (pos[r] < req[r].n)
    <3>1. pc'[r] = "forward" /\ pos[r] = req[r].n
      <4>1. pos[r] \in 1 .. req[r].n /\ req[r].n \in 1 .. MaxRefs
        BY <1>10, ChangeShape DEF ApproveRef, Gate
      <4>2. pos[r] = req[r].n
        BY <2>4, <4>1, MaxRefsAssumption
      <4> QED
        BY <1>10, <2>4, <4>2 DEF ApproveRef, Goto, TypeOK
    <3> QED
      BY <1>2, <2>1, <2>2, <3>1 DEF GateOK, Approved, Gate, Forward
  <2> QED
    BY <2>3, <2>4
<1>11. CASE RejectDenied(r)
  <2>1. CASE Goto(r, "done")
    BY <2>1 DEF Goto, GateOK, TypeOK, Gate, Forward
  <2> QED
    BY <1>11, <2>1, RespondGate DEF RejectDenied
<1>12. CASE CommitTable(r)
  <2>1. CASE Goto(r, "audit")
    BY <1>2, <1>12, <2>1
    DEF CommitTable, Goto, GateOK, Approved, TypeOK, Gate, Forward
  <2> QED
    BY <1>12, <2>1, RespondGate DEF CommitTable
<1>13. CASE AuditApproved(r)
  BY <1>2, <1>13 DEF AuditApproved, Goto, GateOK, Approved, TypeOK, Gate, Forward
<1>14. CASE IngestSnapshot(r)
  <2>1. CASE Goto(r, "forward")
    BY <1>2, <1>14, <2>1
    DEF IngestSnapshot, Goto, GateOK, Approved, TypeOK, Gate, Forward
  <2> QED
    BY <1>14, <2>1, RespondGate DEF IngestSnapshot
<1> QED
  BY <1>3, <1>4, <1>5, <1>6, <1>7, <1>8, <1>9, <1>10, <1>11, <1>12, <1>13, <1>14
  DEF HandlerStep

\* A policy bound or removed later does not change what was loaded.
LEMMA GatedQuiet == ASSUME Gated, Quiet PROVE Gated'
BY DEF Gated, GateOK, Approved, Verdict, ChangeOf, Quiet, Ledgers

----------------------------------------------------------------------------
(* Past the gate *)

\* Once the forwards have begun, what was loaded for r does not change again.
LEMMA LateFrame ==
    ASSUME NEW r \in Requests, pc[r] \in Forward \cup {"done"},
           RefuseAtGate(r) \/ HandlerStep(r) \/ \E q \in Request : Arrive(r, q)
    PROVE  /\ CommitTable(r) \/ AuditApproved(r) \/ IngestSnapshot(r)
           /\ UNCHANGED << req, meta, loaded, hookSpec >>
<1>1. CommitTable(r) \/ AuditApproved(r) \/ IngestSnapshot(r)
  BY DEF HandlerStep, Arrive, RefuseAtGate, ResolveAdapter, LoadTable,
     WriteCoordinatorPreCommit, LoadPoliciesForTable, Evaluate, ApproveRef,
     RejectDenied, Forward
<1> QED
  BY <1>1 DEF CommitTable, AuditApproved, IngestSnapshot

\* The upstream is changed by an accepted CommitTable call and by nothing else.
LEMMA NewApplied ==
    ASSUME NEW r \in Requests,
           RefuseAtGate(r) \/ HandlerStep(r) \/ \E q \in Request : Arrive(r, q),
           NEW e \in applied', e \notin applied
    PROVE  /\ CommitTable(r) /\ Apply(r)
           /\ e = [req |-> r, pos |-> pos[r], prev |-> catalog[ChangeOf(r).ref]]
<1>1. applied' # applied
  OBVIOUS
<1>2. CommitTable(r)
  BY <1>1 DEF HandlerStep, Arrive, RefuseAtGate, ResolveAdapter, LoadTable,
     WriteCoordinatorPreCommit, LoadPoliciesForTable, Evaluate, ApproveRef,
     RejectDenied, AuditApproved, IngestSnapshot, Ledgers
<1>3. Apply(r)
  BY <1>1, <1>2 DEF CommitTable
<1> QED
  BY <1>2, <1>3 DEF Apply

\* The statuses a forwarded request can end with.
LEMMA LateStatus ==
    ASSUME TypeOK, NEW r \in Requests, status[r] \in {NoStatus, 200, 409, 502},
           CommitTable(r) \/ AuditApproved(r) \/ IngestSnapshot(r)
    PROVE  /\ pc'[r] \in Forward \cup {"done"}
           /\ status'[r] \in {NoStatus, 200, 409, 502}
<1>1. CASE CommitTable(r)
  <2>1. ErrorStatuses(ChangeOf(r)) \subseteq {409, 502}
    BY DEF ErrorStatuses
  <2>2. Goto(r, "audit") \/ \E code \in {409, 502} : Respond(r, code)
    BY <1>1, <2>1 DEF CommitTable
  <2> QED
    BY <2>2 DEF Goto, Respond, TypeOK, Forward
<1>2. CASE AuditApproved(r)
  BY <1>2 DEF AuditApproved, Goto, TypeOK, Forward
<1>3. CASE IngestSnapshot(r)
  <2>1. Goto(r, "forward") \/ Respond(r, 200)
    BY <1>3 DEF IngestSnapshot
  <2> QED
    BY <2>1 DEF Goto, Respond, TypeOK, Forward
<1> QED
  BY <1>1, <1>2, <1>3

\* CommitTable is reached past the gate only, and no later step goes back.
LEMMA PastStep ==
    ASSUME TypeOK, Control, Gated, Past, NEW r \in Requests,
           RefuseAtGate(r) \/ HandlerStep(r) \/ \E q \in Request : Arrive(r, q)
    PROVE  Past'
<1> SUFFICES ASSUME NEW e \in applied' PROVE AppliedOK(e)'
  BY DEF Past
<1>1. CASE e \in applied /\ e.req # r
  <2>1. e.req \in Requests /\ AppliedOK(e)
    BY <1>1 DEF TypeOK, Past
  <2> QED
    BY <1>1, <2>1, StepFrame DEF Frame, AppliedOK, Approved
<1>2. CASE e \in applied /\ e.req = r
  <2>1. AppliedOK(e)
    BY <1>2 DEF Past
  <2>2. /\ UNCHANGED << req, meta, loaded >>
        /\ CommitTable(r) \/ AuditApproved(r) \/ IngestSnapshot(r)
    BY <1>2, <2>1, LateFrame DEF AppliedOK
  <2>3. pc'[r] \in Forward \cup {"done"} /\ status'[r] \in {NoStatus, 200, 409, 502}
    BY <1>2, <2>1, <2>2, LateStatus DEF AppliedOK
  <2> QED
    BY <1>2, <2>1, <2>2, <2>3 DEF AppliedOK, Approved
<1>3. CASE e \notin applied
  <2>1. CommitTable(r) /\ e.req = r
    BY <1>3, NewApplied
  <2>2. pc[r] = "forward" /\ UNCHANGED << req, meta, loaded >>
    BY <2>1 DEF CommitTable
  <2>3. status[r] = NoStatus /\ \A i \in 1 .. req[r].n : Approved(r, i)
    BY <2>2 DEF Gated, GateOK, Control, ServedOK, Forward
  <2>4. pc'[r] \in Forward \cup {"done"} /\ status'[r] \in {NoStatus, 200, 409, 502}
    BY <2>1, <2>3, LateStatus
  <2> QED
    BY <2>1, <2>2, <2>3, <2>4 DEF AppliedOK, Approved
<1> QED
  BY <1>1, <1>2, <1>3

\* A step outside the handlers keeps what was applied past the gate.
LEMMA PastQuiet == ASSUME Past, Quiet PROVE Past'
BY DEF Past, AppliedOK, Approved, Quiet, Ledgers

----------------------------------------------------------------------------
(* Versions *)

\* Every table only moves forward.
CatalogAdvances ==
    \A t \in Tables : catalog'[t] = catalog[t] \/ catalog'[t].ver > catalog[t].ver

\* CommitTable replaces the metadata of a table by a newer one.
LEMMA StepAdvances ==
    ASSUME TypeOK, Control, NEW r \in Requests,
           RefuseAtGate(r) \/ HandlerStep(r) \/ \E q \in Request : Arrive(r, q)
    PROVE  CatalogAdvances
<1>1. CASE catalog' = catalog
  BY <1>1 DEF CatalogAdvances
<1>2. CASE catalog' # catalog
  <2>1. CommitTable(r)
    BY <1>2 DEF HandlerStep, Arrive, RefuseAtGate, ResolveAdapter, LoadTable,
       WriteCoordinatorPreCommit, LoadPoliciesForTable, Evaluate, ApproveRef,
       RejectDenied, AuditApproved, IngestSnapshot, env
  <2>2. Apply(r)
    BY <1>2, <2>1 DEF CommitTable
  <2>3. ChangeOf(r).ref \in Tables
    BY <2>1, ChangeShape DEF CommitTable, Forward
  <2> QED
    BY <2>2, <2>3 DEF Apply, CatalogAdvances, TypeOK, Meta
<1> QED
  BY <1>1, <1>2

\* A commit of another engine replaces the metadata by a newer one.
LEMMA EnvironmentAdvances ==
    ASSUME TypeOK, NEW t \in Tables,
           \/ BypassCommit(t)
           \/ \E p \in Policies : ChangePolicy(t, p)
           \/ \E s \in Specs : ActivateSpec(t, s)
    PROVE  CatalogAdvances
<1>1. CASE BypassCommit(t)
  BY <1>1 DEF BypassCommit, CatalogAdvances, TypeOK, Meta
<1>2. CASE catalog' = catalog
  BY <1>2 DEF CatalogAdvances
<1> QED
  BY <1>1, <1>2 DEF ChangePolicy, ActivateSpec

\* What a request loaded stays in the past of a catalog that moves forward.
LEMMA VersionKept ==
    ASSUME TypeOK, TypeOK', CatalogAdvances, NEW x \in Requests, VersionOK(x),
           req'[x] = req[x], meta'[x] = meta[x],
           pc'[x] \in {"idle", "creds"} => pc[x] \in {"idle", "creds"}
    PROVE  VersionOK(x)'
<1>1. ASSUME NEW i \in 1 .. req[x].n
      PROVE  LET t == req[x].changes[i].ref
                 b == req[x].changes[i].base
             IN  /\ b <= catalog'[t].ver
                 /\ meta[x][i] # NoMeta =>
                       /\ b <= meta[x][i].ver
                       /\ meta[x][i].ver <= catalog'[t].ver
                       /\ meta[x][i].ver = catalog'[t].ver => meta[x][i] = catalog'[t]
  <2>1. req[x] \in Request
    <3>1. req[x] \in Request \cup {NoRequest}
      BY DEF TypeOK
    <3>2. req[x] # NoRequest
      BY <1>1, NoRequestEmpty
    <3> QED
      BY <3>1, <3>2
  <2>2. /\ req[x].changes[i].ref \in Tables
        /\ req[x].changes[i].base \in NoBase .. MaxVersion
        /\ i \in Positions
    BY <1>1, <2>1, RequestShape, MaxRefsAssumption DEF Positions
  <2>3. /\ catalog[req[x].changes[i].ref].ver \in Nat
        /\ catalog'[req[x].changes[i].ref].ver \in Nat
        /\ meta[x][i] # NoMeta => meta[x][i].ver \in Nat
    BY <2>2 DEF TypeOK, Meta
  <2> QED
    BY <1>1, <2>2, <2>3, MaxVersionAssumption
    DEF CatalogAdvances, VersionOK, Current, NoBase
<1> QED
  BY <1>1 DEF VersionOK, Current

\* A step of any handler keeps the versions in order.
LEMMA VersionsStep ==
    ASSUME TypeOK, TypeOK', Control, Versions, NEW r \in Requests,
           RefuseAtGate(r) \/ HandlerStep(r) \/ \E q \in Request : Arrive(r, q)
    PROVE  Versions'
<1>1. CatalogAdvances
  BY StepAdvances
<1>2. SUFFICES VersionOK(r)'
  <2>1. ASSUME NEW x \in Requests, x # r PROVE VersionOK(x)'
    BY <1>1, <2>1, StepFrame, VersionKept DEF Frame, Versions
  <2> QED
    BY <2>1 DEF Versions
<1>3. VersionOK(r)
  BY DEF Versions
<1> USE DEF Ledgers, env
<1>4. ASSUME NEW q \in Request, Arrive(r, q) PROVE VersionOK(r)'
  <2>1. /\ req'[r] = q /\ pc[r] = "idle" /\ pc'[r] = "creds"
        /\ UNCHANGED << meta, catalog >> /\ Wellformed(q)
    BY <1>4 DEF Arrive, Goto, TypeOK
  <2>2. \A i \in Positions : meta[r][i] = NoMeta
    BY <1>3, <2>1 DEF VersionOK
  <2>3. q.n \in 1 .. MaxRefs
    BY RequestShape
  <2> QED
    BY <2>1, <2>2, <2>3, MaxRefsAssumption DEF VersionOK, Wellformed, Positions
<1>5. CASE LoadTable(r) /\ meta' # meta
  <2>1. /\ meta' = [meta EXCEPT ![r][pos[r]] = catalog[ChangeOf(r).ref]]
        /\ UNCHANGED << req, catalog >>
        /\ pc'[r] \notin {"idle", "creds"}
    BY <1>5 DEF LoadTable, Goto, AfterLoad, TypeOK
  <2>2. pos[r] \in 1 .. req[r].n /\ req[r].n \in 1 .. MaxRefs
    BY <1>5, ChangeShape DEF LoadTable, Gate
  <2>3. ASSUME NEW i \in 1 .. req[r].n
        PROVE  /\ req[r].changes[i].base <= catalog[req[r].changes[i].ref].ver
               /\ meta'[r][i] # NoMeta =>
                     /\ req[r].changes[i].base <= meta'[r][i].ver
                     /\ Current(meta'[r][i], req[r].changes[i].ref)
    <3>1. CASE i = pos[r]
      <4>1. meta'[r][i] = catalog[req[r].changes[i].ref]
        BY <2>1, <2>2, <3>1, MaxRefsAssumption DEF TypeOK, Positions, ChangeOf
      <4>2. catalog[req[r].changes[i].ref] \in Meta
        BY <1>5, <3>1, ChangeShape DEF LoadTable, Gate, ChangeOf, TypeOK
      <4> QED
        BY <1>3, <4>1, <4>2 DEF VersionOK, Current, Meta
    <3>2. CASE i # pos[r]
      <4>1. meta'[r][i] = meta[r][i]
        BY <2>1, <3>2 DEF TypeOK
      <4> QED
        BY <1>3, <4>1 DEF VersionOK
    <3> QED
      BY <3>1, <3>2
  <2> QED
    BY <2>1, <2>3 DEF VersionOK, Current
<1>6. CASE meta' = meta /\ ~ \E q \in Request : Arrive(r, q)
  <2>1. req' = req
    BY <1>6 DEF HandlerStep, RefuseAtGate, ResolveAdapter, LoadTable,
       WriteCoordinatorPreCommit, LoadPoliciesForTable, Evaluate, ApproveRef,
       RejectDenied, CommitTable, AuditApproved, IngestSnapshot
  <2>2. pc'[r] \notin {"idle", "creds"}
    BY <1>6 DEF HandlerStep, RefuseAtGate, ResolveAdapter, LoadTable,
       WriteCoordinatorPreCommit, LoadPoliciesForTable, Evaluate, ApproveRef,
       RejectDenied, CommitTable, AuditApproved, IngestSnapshot,
       Goto, Respond, AfterLoad, TypeOK
  <2> QED
    BY <1>1, <1>3, <1>6, <2>1, <2>2, VersionKept
<1>7. CASE meta' # meta /\ ~ \E q \in Request : Arrive(r, q)
  <2>1. LoadTable(r)
    BY <1>7 DEF HandlerStep, RefuseAtGate, ResolveAdapter,
       WriteCoordinatorPreCommit, LoadPoliciesForTable, Evaluate, ApproveRef,
       RejectDenied, CommitTable, AuditApproved, IngestSnapshot
  <2> QED
    BY <1>5, <1>7, <2>1
<1> QED
  BY <1>4, <1>6, <1>7

\* A step outside the handlers keeps the versions in order.
LEMMA VersionsQuiet ==
    ASSUME TypeOK, TypeOK', CatalogAdvances, Versions, Quiet
    PROVE  Versions'
BY VersionKept DEF Versions, Quiet

\* The window between LoadTable and CommitTable is closed by the requirement.
LEMMA GuardedStep ==
    ASSUME TypeOK, Control, Gated, Past, Versions, GuardedOnEvaluated,
           NEW r \in Requests,
           RefuseAtGate(r) \/ HandlerStep(r) \/ \E q \in Request : Arrive(r, q)
    PROVE  GuardedOnEvaluated'
<1> SUFFICES ASSUME NEW e \in applied', req'[e.req].changes[e.pos].base # NoBase
             PROVE  e.prev = meta'[e.req][e.pos]
  BY DEF GuardedOnEvaluated
<1>1. CASE e \in applied /\ e.req # r
  <2>1. e.req \in Requests
    BY <1>1 DEF TypeOK
  <2> QED
    BY <1>1, <2>1, StepFrame DEF Frame, GuardedOnEvaluated
<1>2. CASE e \in applied /\ e.req = r
  <2>1. pc[r] \in Forward \cup {"done"}
    BY <1>2 DEF Past, AppliedOK
  <2> QED
    BY <1>2, <2>1, LateFrame DEF GuardedOnEvaluated
<1>3. CASE e \notin applied
  <2>1. /\ CommitTable(r) /\ Apply(r)
        /\ e = [req |-> r, pos |-> pos[r], prev |-> catalog[ChangeOf(r).ref]]
    BY <1>3, NewApplied
  <2>2. pc[r] = "forward" /\ UNCHANGED << req, meta >>
    BY <2>1 DEF CommitTable
  <2>3. /\ pos[r] \in 1 .. req[r].n /\ ChangeOf(r).ref \in Tables
        /\ req[r].n \in 1 .. MaxRefs
    BY <2>2, ChangeShape DEF Forward
  <2>4. meta[r][pos[r]] # NoMeta
    BY <2>2, <2>3 DEF Gated, GateOK, Approved, Forward
  <2>5. /\ ChangeOf(r).base <= meta[r][pos[r]].ver
        /\ Current(meta[r][pos[r]], ChangeOf(r).ref)
    BY <2>3, <2>4 DEF Versions, VersionOK, ChangeOf
  <2>6. ChangeOf(r).base = catalog[ChangeOf(r).ref].ver
    BY <2>1, <2>2 DEF Apply, ChangeOf
  <2>7. /\ meta[r][pos[r]].ver \in Nat
        /\ catalog[ChangeOf(r).ref].ver \in Nat
    BY <2>3, <2>4, MaxRefsAssumption DEF TypeOK, Meta, Positions
  <2>8. meta[r][pos[r]] = catalog[ChangeOf(r).ref]
    BY <2>5, <2>6, <2>7 DEF Current
  <2> QED
    BY <2>1, <2>2, <2>8
<1> QED
  BY <1>1, <1>2, <1>3

\* A step outside the handlers applies nothing for a request.
LEMMA GuardedQuiet == ASSUME GuardedOnEvaluated, Quiet PROVE GuardedOnEvaluated'
BY DEF GuardedOnEvaluated, Quiet, Ledgers

----------------------------------------------------------------------------
(* The theorems *)

SafetyInv == TypeOK /\ Control /\ Gated /\ Past /\ Versions /\ GuardedOnEvaluated

\* The inductive invariant holds before the first request.
LEMMA SafetyInit == Init => SafetyInv
<1> SUFFICES ASSUME Init PROVE SafetyInv
  OBVIOUS
<1>1. TypeOK /\ Control
  BY TypeInit
<1>2. Gated
  BY DEF Init, Gated, GateOK, Gate, Forward
<1>3. Past /\ GuardedOnEvaluated
  BY DEF Init, Past, GuardedOnEvaluated
<1>4. Versions
  BY NoRequestEmpty DEF Init, Versions, VersionOK
<1> QED
  BY <1>1, <1>2, <1>3, <1>4 DEF SafetyInv

\* Every step of the gateway and its environment keeps the invariant.
LEMMA SafetyNext == SafetyInv /\ [Next]_vars => SafetyInv'
<1> SUFFICES ASSUME SafetyInv, [Next]_vars PROVE SafetyInv'
  OBVIOUS
<1> USE DEF SafetyInv
<1>1. TypeOK' /\ Control'
  BY TypeInvNext DEF TypeInv
<1>2. ASSUME NEW r \in Requests,
             RefuseAtGate(r) \/ HandlerStep(r) \/ \E q \in Request : Arrive(r, q)
      PROVE  SafetyInv'
  BY <1>1, <1>2, GatedStep, PastStep, VersionsStep, GuardedStep
<1>3. ASSUME NEW t \in Tables,
             \/ BypassCommit(t)
             \/ \E p \in Policies : ChangePolicy(t, p)
             \/ \E s \in Specs : ActivateSpec(t, s)
      PROVE  SafetyInv'
  <2>1. Quiet /\ CatalogAdvances
    BY <1>3, EnvironmentQuiet, EnvironmentAdvances
  <2> QED
    BY <1>1, <2>1, GatedQuiet, PastQuiet, VersionsQuiet, GuardedQuiet
<1>4. CASE UNCHANGED vars
  <2>1. Quiet /\ CatalogAdvances
    BY <1>4 DEF vars, Quiet, Ledgers, CatalogAdvances
  <2> QED
    BY <1>1, <2>1, GatedQuiet, PastQuiet, VersionsQuiet, GuardedQuiet
<1> QED
  BY <1>2, <1>3, <1>4 DEF Next

\* The inductive invariant holds in every reachable state.
LEMMA SafetyInvariant == Spec => []SafetyInv
BY SafetyInit, SafetyNext, PTL DEF Spec

\* Reject-all (multi_table.go step 3, handler.go step 5): nothing of a
\* transaction reaches the upstream unless every loaded policy has allowed
\* every one of its changes, for any policies and any number of changes.
THEOREM RejectAllHolds == Spec => []RejectAll
<1>1. SafetyInv => RejectAll
  BY DEF SafetyInv, Past, AppliedOK, Approved, RejectAll
<1> QED
  BY <1>1, SafetyInvariant, PTL

\* Fail closed (handler.go, D-1.09): a request answered with any of the
\* refusals before the forward has not changed the upstream.
THEOREM FailClosedHolds == Spec => []FailClosed
<1>1. SafetyInv => FailClosed
  BY DEF SafetyInv, Past, AppliedOK, FailClosed
<1> QED
  BY <1>1, SafetyInvariant, PTL

\* No time-of-check-to-time-of-use gap for a commit that carries a version
\* requirement: it replaces the metadata LoadTable gave to the policies,
\* however many requests and bypass commits race with it.
THEOREM GuardedHolds == Spec => []GuardedOnEvaluated
<1>1. SafetyInv => GuardedOnEvaluated
  BY DEF SafetyInv
<1> QED
  BY <1>1, SafetyInvariant, PTL
----------------------------------------------------------------------------
(* What the upstream accepted, the audit rows and the answer *)

HookPassed == {"fetch", "eval", "reject"} \cup Forward

\* How much of r the upstream has accepted at each step of its handler, and
\* what an answer says of it.
ProgressOK(r) ==
    /\ pc[r] = "forward" => AppliedBy(r) = 1 .. (pos[r] - 1)
    /\ pc[r] \in {"audit", "ingest"} => AppliedBy(r) = 1 .. pos[r]
    /\ pc[r] = "done" => \E k \in 0 .. req[r].n : AppliedBy(r) = 1 .. k
    /\ status[r] = 200 => AppliedBy(r) = 1 .. req[r].n
    /\ status[r] = 409 => AppliedBy(r) \in {1 .. (pos[r] - 1), 1 .. pos[r]}
    /\ pc[r] = "done" /\ status[r] = NoStatus => AppliedBy(r) \in {{}, 1 .. pos[r]}

\* The write-coordinator has compared the spec of what it was given.
HookOK(r) ==
    SpecStore /\ Coordinated(r) /\ req[r].kind = "single"
              /\ (pc[r] \in HookPassed \/ AppliedBy(r) # {}) =>
        specMatches(meta[r][1].spec, hookSpec[r])

\* A row is about a change that was accepted, or about an answered refusal.
RowOK(a) ==
    IF a.decision = "APPROVED"
    THEN a.pos \in AppliedBy(a.req)
    ELSE pc[a.req] = "done" /\ AppliedBy(a.req) = {}

DenialOK(r) ==
    status[r] = 403 =>
        \/ AuditRow(r, "REJECTED") \in audit
        \/ SpecStore /\ ~ specMatches(meta[r][pos[r]].spec, hookSpec[r])

LedgerInv ==
    /\ \A r \in Requests : ProgressOK(r) /\ HookOK(r) /\ DenialOK(r)
    /\ \A a \in audit : RowOK(a)
    /\ \A g \in ingested : g.pos \in AppliedBy(g.req)

\* An accepted commit adds the change the handler is at to the record of its
\* own request.
LEMMA ApplyAdds ==
    ASSUME NEW r \in Requests, Apply(r)
    PROVE  /\ AppliedBy(r)' = AppliedBy(r) \cup {pos[r]}
           /\ \A x \in Requests : x # r => AppliedBy(x)' = AppliedBy(x)
<1>1. PICK m : applied' = applied \cup {[req |-> r, pos |-> pos[r], prev |-> m]}
  BY DEF Apply
<1> DEFINE new == [req |-> r, pos |-> pos[r], prev |-> m]
<1>2. new.req = r /\ new.pos = pos[r]
  OBVIOUS
<1>3. applied' = applied \cup {new}
  BY <1>1
<1> HIDE DEF new
<1>4. ASSUME NEW x \in Requests, x # r PROVE AppliedBy(x)' = AppliedBy(x)
  <2>1. {y \in applied' : y.req = x} = {y \in applied : y.req = x}
    BY <1>2, <1>3, <1>4
  <2> QED
    BY <2>1 DEF AppliedBy
<1>5. AppliedBy(r)' = AppliedBy(r) \cup {pos[r]}
  <2>1. {y \in applied' : y.req = r} = {y \in applied : y.req = r} \cup {new}
    BY <1>2, <1>3
  <2> QED
    BY <1>2, <2>1 DEF AppliedBy
<1> QED
  BY <1>4, <1>5

\* Only CommitTable changes the upstream's record, and of its own request only.
LEMMA AppliedStep ==
    ASSUME NEW r \in Requests,
           RefuseAtGate(r) \/ HandlerStep(r) \/ \E q \in Request : Arrive(r, q)
    PROVE  /\ \A x \in Requests : x # r => AppliedBy(x)' = AppliedBy(x)
           /\ ~ CommitTable(r) => AppliedBy(r)' = AppliedBy(r)
<1>1. CASE applied' = applied
  BY <1>1 DEF AppliedBy
<1>2. CASE applied' # applied
  <2>1. CommitTable(r)
    BY <1>2 DEF HandlerStep, Arrive, RefuseAtGate, ResolveAdapter, LoadTable,
       WriteCoordinatorPreCommit, LoadPoliciesForTable, Evaluate, ApproveRef,
       RejectDenied, AuditApproved, IngestSnapshot, Ledgers
  <2>2. Apply(r)
    BY <1>2, <2>1 DEF CommitTable
  <2> QED
    BY <2>1, <2>2, ApplyAdds
<1> QED
  BY <1>1, <1>2

\* EmitWriteEvent is called by RejectDenied and AuditApproved, each for the
\* change the handler is at; no row is ever changed or removed.
LEMMA AuditStep ==
    ASSUME NEW r \in Requests,
           RefuseAtGate(r) \/ HandlerStep(r) \/ \E q \in Request : Arrive(r, q)
    PROVE  /\ audit \subseteq audit'
           /\ \A a \in audit' : a \notin audit =>
                 \/ RejectDenied(r) /\ a = AuditRow(r, "REJECTED")
                 \/ AuditApproved(r) /\ a = AuditRow(r, "APPROVED")
<1>1. CASE audit' = audit
  BY <1>1
<1>2. CASE audit' # audit
  <2>1. RejectDenied(r) \/ AuditApproved(r)
    BY <1>2 DEF HandlerStep, Arrive, RefuseAtGate, ResolveAdapter, LoadTable,
       WriteCoordinatorPreCommit, LoadPoliciesForTable, Evaluate, ApproveRef,
       CommitTable, IngestSnapshot, Ledgers
  <2> QED
    BY <2>1 DEF RejectDenied, AuditApproved, EmitWriteEvent
<1> QED
  BY <1>1, <1>2

\* Snapshots are merged by IngestSnapshot for the change the handler is at.
LEMMA IngestStep ==
    ASSUME NEW r \in Requests,
           RefuseAtGate(r) \/ HandlerStep(r) \/ \E q \in Request : Arrive(r, q)
    PROVE  /\ ingested \subseteq ingested'
           /\ \A g \in ingested' : g \notin ingested =>
                 IngestSnapshot(r) /\ g = [req |-> r, pos |-> pos[r]]
<1>1. CASE ingested' = ingested
  BY <1>1
<1>2. CASE ingested' # ingested
  <2>1. IngestSnapshot(r)
    BY <1>2 DEF HandlerStep, Arrive, RefuseAtGate, ResolveAdapter, LoadTable,
       WriteCoordinatorPreCommit, LoadPoliciesForTable, Evaluate, ApproveRef,
       RejectDenied, CommitTable, AuditApproved, Ledgers
  <2> QED
    BY <2>1 DEF IngestSnapshot
<1> QED
  BY <1>1, <1>2

\* Nothing has been accepted of a request that is not past the gate.
LEMMA NothingYet ==
    ASSUME TypeOK, Past, NEW r \in Requests, pc[r] \notin Forward \cup {"done"}
    PROVE  AppliedBy(r) = {}
BY DEF Past, AppliedOK, AppliedBy

\* Up to the forwards a handler answers with neither 200 nor 409, and it
\* enters the forwards at the first change.
LEMMA EarlyStep ==
    ASSUME TypeOK, Control, NEW r \in Requests, pc[r] \notin Forward \cup {"done"},
           RefuseAtGate(r) \/ HandlerStep(r) \/ \E q \in Request : Arrive(r, q)
    PROVE  /\ status'[r] \notin {200, 409}
           /\ pc'[r] \notin {"audit", "ingest"}
           /\ pc'[r] = "forward" => pos'[r] = 1
<1>1. status[r] = NoStatus
  BY DEF Control, ServedOK
<1> USE <1>1 DEF Goto, Respond, TypeOK, NoStatus, Forward
<1>2. ASSUME NEW q \in Request, Arrive(r, q)
      PROVE  pc'[r] = "creds" /\ status'[r] = NoStatus
  BY <1>2 DEF Arrive
<1>3. CASE RefuseAtGate(r)
  BY <1>3 DEF RefuseAtGate
<1>4. CASE ResolveAdapter(r)
  BY <1>4 DEF ResolveAdapter
<1>5. CASE LoadTable(r)
  BY <1>5 DEF LoadTable, AfterLoad
<1>6. CASE WriteCoordinatorPreCommit(r)
  BY <1>6 DEF WriteCoordinatorPreCommit
<1>7. CASE LoadPoliciesForTable(r)
  BY <1>7 DEF LoadPoliciesForTable
<1>8. CASE Evaluate(r)
  BY <1>8 DEF Evaluate
<1>9. CASE ApproveRef(r)
  BY <1>9 DEF ApproveRef
<1>10. CASE RejectDenied(r)
  BY <1>10 DEF RejectDenied
<1>11. ~ CommitTable(r) /\ ~ AuditApproved(r) /\ ~ IngestSnapshot(r)
  BY DEF CommitTable, AuditApproved, IngestSnapshot
<1> QED
  BY <1>2, <1>3, <1>4, <1>5, <1>6, <1>7, <1>8, <1>9, <1>10, <1>11 DEF HandlerStep

\* A handler that has answered makes no further call.
LEMMA DoneIsDone ==
    ASSUME NEW r \in Requests,
           RefuseAtGate(r) \/ HandlerStep(r) \/ \E q \in Request : Arrive(r, q)
    PROVE  pc[r] # "done"
BY DEF HandlerStep, Arrive, RefuseAtGate, ResolveAdapter, LoadTable,
   WriteCoordinatorPreCommit, LoadPoliciesForTable, Evaluate, ApproveRef,
   RejectDenied, CommitTable, AuditApproved, IngestSnapshot

----------------------------------------------------------------------------
(* Progress *)

\* The handler of r keeps count of what the upstream accepted of r.
LEMMA ProgressStep ==
    ASSUME TypeOK, TypeOK', Control, Past, NEW r \in Requests, ProgressOK(r),
           RefuseAtGate(r) \/ HandlerStep(r) \/ \E q \in Request : Arrive(r, q)
    PROVE  ProgressOK(r)'
<1>1. CASE pc[r] \notin Forward \cup {"done"}
  <2>1. AppliedBy(r)' = {}
    <3>1. ~ CommitTable(r)
      BY <1>1 DEF CommitTable, Forward
    <3> QED
      BY <1>1, <3>1, NothingYet, AppliedStep
  <2>2. /\ status'[r] \notin {200, 409}
        /\ pc'[r] \notin {"audit", "ingest"}
        /\ pc'[r] = "forward" => pos'[r] = 1
    BY <1>1, EarlyStep
  <2>3. 0 \in 0 .. req'[r].n
    <3>1. req'[r] \in Request \/ req'[r] = NoRequest
      BY DEF TypeOK
    <3>2. NoRequest.n = 0
      BY DEF NoRequest
    <3>3. \A q \in Request : q.n \in Nat
      BY RequestShape, MaxRefsAssumption
    <3>4. req'[r].n \in Nat
      BY <3>1, <3>2, <3>3
    <3> QED
      BY <3>4
  <2>4. 1 .. 0 = {} /\ 1 - 1 = 0
    OBVIOUS
  <2> QED
    BY <2>1, <2>2, <2>3, <2>4 DEF ProgressOK
<1>2. CASE pc[r] \in Forward
  <2>1. /\ req[r].n \in Nat
        /\ pos[r] \in 1 .. req[r].n
        /\ status[r] = NoStatus
    BY <1>2, ChangeShape, MaxRefsAssumption DEF Forward, Control, ServedOK
  <2>2. req' = req
    BY <1>2, LateFrame
  <2>3. CASE CommitTable(r)
    <3>1. AppliedBy(r) = 1 .. (pos[r] - 1) /\ pos' = pos
      BY <2>3 DEF CommitTable, ProgressOK
    <3>2. CASE Apply(r)
      <4>1. AppliedBy(r)' = 1 .. pos[r]
        <5>1. AppliedBy(r)' = (1 .. (pos[r] - 1)) \cup {pos[r]}
          BY <3>1, <3>2, ApplyAdds
        <5>2. (1 .. (pos[r] - 1)) \cup {pos[r]} = 1 .. pos[r]
          BY <2>1
        <5> QED
          BY <5>1, <5>2
      <4>2. CASE Goto(r, "audit")
        BY <2>1, <3>1, <4>1, <4>2 DEF Goto, TypeOK, NoStatus, ProgressOK
      <4>3. CASE \E code \in ErrorStatuses(ChangeOf(r)) : Respond(r, code)
        <5>1. pc'[r] = "done" /\ status'[r] \in {409, 502}
          BY <4>3 DEF Respond, ErrorStatuses, TypeOK
        <5>2. status'[r] # 200 /\ status'[r] # NoStatus
          BY <5>1 DEF NoStatus
        <5>3. pos[r] \in 0 .. req[r].n
          BY <2>1
        <5> QED
          BY <2>2, <3>1, <4>1, <5>1, <5>2, <5>3 DEF ProgressOK
      <4>4. CASE Respond(r, 409) /\ ChangeOf(r).base \notin {NoBase, catalog[ChangeOf(r).ref].ver}
        BY <3>2, <4>4 DEF Apply
      <4> QED
        BY <2>3, <4>2, <4>3, <4>4 DEF CommitTable
    <3>3. CASE ~ Apply(r)
      <4>1. /\ applied' = applied
            /\ \/ Respond(r, 409)
               \/ \E code \in ErrorStatuses(ChangeOf(r)) : Respond(r, code)
        BY <2>3, <3>3 DEF CommitTable
      <4>2. pc'[r] = "done" /\ status'[r] \in {409, 502}
        BY <4>1 DEF Respond, ErrorStatuses, TypeOK
      <4>3. AppliedBy(r)' = 1 .. (pos[r] - 1)
        BY <3>1, <4>1 DEF AppliedBy
      <4>4. pos[r] - 1 \in 0 .. req[r].n
        BY <2>1
      <4> QED
        BY <2>2, <3>1, <4>2, <4>3, <4>4 DEF ProgressOK, NoStatus
    <3> QED
      BY <3>2, <3>3
  <2>4. CASE AuditApproved(r)
    <3>1. /\ pc[r] = "audit" /\ pc'[r] \in {"ingest", "done"}
          /\ status'[r] = NoStatus /\ pos' = pos
      BY <2>1, <2>4 DEF AuditApproved, Goto, TypeOK
    <3>2. AppliedBy(r)' = 1 .. pos[r]
      BY <2>4 DEF AuditApproved, AppliedBy, ProgressOK
    <3>3. pos[r] \in 0 .. req[r].n
      BY <2>1
    <3> QED
      BY <2>2, <3>1, <3>2, <3>3 DEF ProgressOK, NoStatus
  <2>5. CASE IngestSnapshot(r)
    <3>1. pc[r] = "ingest" /\ AppliedBy(r)' = 1 .. pos[r]
      BY <2>5 DEF IngestSnapshot, AppliedBy, ProgressOK
    <3>2. CASE pos[r] < req[r].n
      <4>1. /\ pc'[r] = "forward" /\ status'[r] = NoStatus
            /\ pos'[r] = pos[r] + 1
        BY <2>1, <2>5, <3>2 DEF IngestSnapshot, Goto, TypeOK
      <4>2. pos'[r] - 1 = pos[r]
        BY <2>1, <4>1
      <4> QED
        BY <3>1, <4>1, <4>2 DEF ProgressOK, NoStatus
    <3>3. CASE ~ (pos[r] < req[r].n)
      <4>1. pc'[r] = "done" /\ status'[r] = 200
        BY <2>5, <3>3 DEF IngestSnapshot, Respond, TypeOK
      <4>2. pos[r] = req[r].n /\ pos[r] \in 0 .. req[r].n
        BY <2>1, <3>3
      <4> QED
        BY <2>2, <3>1, <4>1, <4>2 DEF ProgressOK, NoStatus
    <3> QED
      BY <3>2, <3>3
  <2> QED
    BY <1>2, <2>3, <2>4, <2>5, LateFrame
<1>3. pc[r] # "done"
  BY DoneIsDone
<1> QED
  BY <1>1, <1>2, <1>3

----------------------------------------------------------------------------
(* The write-coordinator hook *)

\* Past the hook, the spec it compared is that of the metadata it was given.
LEMMA HookStep ==
    ASSUME TypeOK, Control, Past, NEW r \in Requests, HookOK(r),
           RefuseAtGate(r) \/ HandlerStep(r) \/ \E q \in Request : Arrive(r, q)
    PROVE  HookOK(r)'
<1>1. CASE pc[r] \in Forward
  <2>1. UNCHANGED << req, meta, hookSpec >>
    BY <1>1, LateFrame
  <2> QED
    BY <1>1, <2>1 DEF HookOK, HookPassed, Coordinated
<1>2. CASE pc[r] \notin Forward
  <2>1. AppliedBy(r)' = {}
    <3>1. pc[r] # "done" /\ ~ CommitTable(r)
      BY <1>2, DoneIsDone DEF CommitTable, Forward
    <3> QED
      BY <1>2, <3>1, NothingYet, AppliedStep
  <2> SUFFICES ASSUME SpecStore, Coordinated(r)', req'[r].kind = "single",
                      pc'[r] \in HookPassed
               PROVE  specMatches(meta'[r][1].spec, hookSpec'[r])
    BY <2>1 DEF HookOK, specMatches
  <2>2. ~ \E q \in Request : Arrive(r, q)
    BY DEF Arrive, Goto, TypeOK, HookPassed, Forward
  <2>3. ~ RefuseAtGate(r)
    BY DEF RefuseAtGate, Respond, TypeOK, HookPassed, Forward
  <2>4. ~ ResolveAdapter(r)
    BY DEF ResolveAdapter, Goto, Respond, TypeOK, HookPassed, Forward
  <2>5. ~ LoadTable(r)
    <3> SUFFICES ASSUME LoadTable(r) PROVE FALSE
      OBVIOUS
    <3>1. req' = req
      BY DEF LoadTable
    <3>2. AfterLoad(r) = "hook"
      BY <3>1 DEF AfterLoad
    <3> QED
      BY <3>2 DEF LoadTable, Goto, Respond, TypeOK, HookPassed, Forward
  <2>6. CASE WriteCoordinatorPreCommit(r)
    <3>1. pc[r] = "hook" /\ UNCHANGED << req, pos, meta >> /\ Coordinated(r)
      BY <2>6 DEF WriteCoordinatorPreCommit, Coordinated
    <3>2. hookSpec'[r] = active[ChangeOf(r).ref]
      BY <2>6, <3>1 DEF WriteCoordinatorPreCommit, TypeOK
    <3>3. ~ \E code : Respond(r, code)
      BY DEF Respond, TypeOK, HookPassed, Forward
    <3>4. specMatches(meta[r][pos[r]].spec, active[ChangeOf(r).ref])
      BY <2>6, <3>1, <3>3 DEF WriteCoordinatorPreCommit
    <3>5. pos[r] = 1
      <4>1. req[r].kind = "single" /\ pos[r] \in 1 .. req[r].n
        BY <3>1 DEF Control, ServedOK, Gate
      <4> QED
        BY <4>1 DEF Control, ServedOK
    <3> QED
      BY <3>1, <3>2, <3>4, <3>5
  <2>7. CASE LoadPoliciesForTable(r) \/ Evaluate(r) \/ ApproveRef(r) \/ RejectDenied(r)
    <3>1. UNCHANGED << req, meta, hookSpec >> /\ pc[r] \in HookPassed
      BY <2>7 DEF LoadPoliciesForTable, Evaluate, ApproveRef, RejectDenied, HookPassed
    <3> QED
      BY <3>1 DEF HookOK, Coordinated
  <2>8. ~ CommitTable(r) /\ ~ AuditApproved(r) /\ ~ IngestSnapshot(r)
    BY <1>2 DEF CommitTable, AuditApproved, IngestSnapshot, Forward
  <2> QED
    BY <2>2, <2>3, <2>4, <2>5, <2>6, <2>7, <2>8 DEF HandlerStep
<1> QED
  BY <1>1, <1>2

----------------------------------------------------------------------------
(* The audit rows *)

\* A denial is answered 403 with its row, a spec mismatch with the specs.
LEMMA DenialStep ==
    ASSUME TypeOK, Control, NEW r \in Requests,
           RefuseAtGate(r) \/ HandlerStep(r) \/ \E q \in Request : Arrive(r, q)
    PROVE  DenialOK(r)'
<1>1. status[r] = NoStatus
  BY DoneIsDone DEF Control, ServedOK
<1> SUFFICES ASSUME status'[r] = 403
             PROVE  \/ AuditRow(r, "REJECTED")' \in audit'
                    \/ SpecStore /\ ~ specMatches(meta'[r][pos'[r]].spec, hookSpec'[r])
  BY DEF DenialOK
<1>2. CASE RejectDenied(r)
  <2>1. PICK result \in Emissions :
          /\ EmitWriteEvent(r, "REJECTED", result)
          /\ \/ result = "ok" /\ Respond(r, 403)
             \/ result = "error" /\ Respond(r, 503)
             \/ result = "panic" /\ Goto(r, "done")
    BY <1>2 DEF RejectDenied
  <2>2. result = "ok"
    BY <1>1, <2>1 DEF Respond, Goto, TypeOK, NoStatus
  <2>3. AuditRow(r, "REJECTED") \in audit' /\ pos' = pos
    BY <1>2, <2>1, <2>2 DEF EmitWriteEvent, RejectDenied
  <2> QED
    BY <2>3 DEF AuditRow
<1>3. CASE WriteCoordinatorPreCommit(r)
  <2>1. /\ Coordinated(r) /\ SpecStore
        /\ ~ specMatches(meta[r][pos[r]].spec, active[ChangeOf(r).ref])
    BY <1>1, <1>3 DEF WriteCoordinatorPreCommit, Goto, Respond, TypeOK, NoStatus
  <2>2. hookSpec'[r] = active[ChangeOf(r).ref] /\ UNCHANGED << meta, pos >>
    BY <1>3, <2>1 DEF WriteCoordinatorPreCommit, TypeOK
  <2> QED
    BY <2>1, <2>2
<1> USE DEF Goto, Respond, TypeOK, NoStatus
<1>4. ~ \E q \in Request : Arrive(r, q)
  BY <1>1 DEF Arrive
<1>5. ~ RefuseAtGate(r)
  BY <1>1 DEF RefuseAtGate
<1>6. ~ ResolveAdapter(r)
  BY <1>1 DEF ResolveAdapter
<1>7. ~ LoadTable(r)
  BY <1>1 DEF LoadTable
<1>8. ~ LoadPoliciesForTable(r)
  BY <1>1 DEF LoadPoliciesForTable
<1>9. ~ Evaluate(r)
  BY <1>1 DEF Evaluate
<1>10. ~ ApproveRef(r)
  BY <1>1 DEF ApproveRef
<1>11. ~ CommitTable(r)
  BY <1>1 DEF CommitTable, ErrorStatuses
<1>12. ~ AuditApproved(r)
  BY <1>1 DEF AuditApproved
<1>13. ~ IngestSnapshot(r)
  BY <1>1 DEF IngestSnapshot
<1> QED
  BY <1>2, <1>3, <1>4, <1>5, <1>6, <1>7, <1>8, <1>9, <1>10, <1>11, <1>12, <1>13
  DEF HandlerStep

\* A row and a snapshot stay true: what the upstream accepted stays accepted,
\* and a handler that wrote a REJECTED row has returned.
LEMMA RowStep ==
    ASSUME TypeOK, Control, Past, LedgerInv, NEW r \in Requests,
           RefuseAtGate(r) \/ HandlerStep(r) \/ \E q \in Request : Arrive(r, q)
    PROVE  /\ \A a \in audit' : RowOK(a)'
           /\ \A g \in ingested' : g.pos \in AppliedBy(g.req)'
<1>1. \A x \in Requests : AppliedBy(x) \subseteq AppliedBy(x)'
  <2>1. AppliedBy(r) \subseteq AppliedBy(r)'
    <3>1. CASE CommitTable(r)
      <4>1. CASE Apply(r)
        BY <4>1, ApplyAdds
      <4>2. CASE ~ Apply(r)
        BY <3>1, <4>2 DEF CommitTable, AppliedBy
      <4> QED
        BY <4>1, <4>2
    <3> QED
      BY <3>1, AppliedStep
  <2> QED
    BY <2>1, AppliedStep
<1>2. ASSUME NEW a \in audit PROVE RowOK(a)'
  <2>1. RowOK(a) /\ a.req \in Requests
    BY DEF LedgerInv, TypeOK
  <2>2. CASE a.decision = "APPROVED"
    BY <1>1, <2>1, <2>2 DEF RowOK
  <2>3. CASE a.decision # "APPROVED"
    <3>1. pc[a.req] = "done" /\ AppliedBy(a.req) = {}
      BY <2>1, <2>3 DEF RowOK
    <3>2. a.req # r
      BY <3>1, DoneIsDone
    <3>3. pc'[a.req] = "done" /\ AppliedBy(a.req)' = {}
      BY <2>1, <3>1, <3>2, StepFrame, AppliedStep DEF Frame
    <3> QED
      BY <2>3, <3>3 DEF RowOK
  <2> QED
    BY <2>2, <2>3
<1>3. ASSUME NEW a \in audit', a \notin audit PROVE RowOK(a)'
  <2>1. CASE RejectDenied(r) /\ a = AuditRow(r, "REJECTED")
    <3>1. a.req = r /\ a.decision = "REJECTED"
      BY <2>1 DEF AuditRow
    <3>2. pc[r] = "reject" /\ applied' = applied /\ pc'[r] = "done"
      BY <2>1 DEF RejectDenied, Respond, Goto, TypeOK
    <3>3. AppliedBy(r)' = {}
      BY <3>2, NothingYet DEF Forward, AppliedBy
    <3> QED
      BY <3>1, <3>2, <3>3 DEF RowOK
  <2>2. CASE AuditApproved(r) /\ a = AuditRow(r, "APPROVED")
    <3>1. a.req = r /\ a.decision = "APPROVED" /\ a.pos = pos[r]
      BY <2>2 DEF AuditRow
    <3>2. pc[r] = "audit"
      BY <2>2 DEF AuditApproved
    <3>3. pos[r] \in AppliedBy(r)
      BY <3>2 DEF LedgerInv, ProgressOK, TypeOK, Positions
    <3> QED
      BY <1>1, <3>1, <3>3 DEF RowOK
  <2> QED
    BY <1>3, <2>1, <2>2, AuditStep
<1>4. ASSUME NEW g \in ingested' PROVE g.pos \in AppliedBy(g.req)'
  <2>1. CASE g \in ingested
    BY <1>1, <2>1 DEF LedgerInv, TypeOK
  <2>2. CASE g \notin ingested
    <3>1. IngestSnapshot(r) /\ g.req = r /\ g.pos = pos[r]
      BY <2>2, IngestStep
    <3>2. pos[r] \in AppliedBy(r)
      BY <3>1 DEF IngestSnapshot, LedgerInv, ProgressOK, TypeOK, Positions
    <3> QED
      BY <1>1, <3>1, <3>2
  <2> QED
    BY <2>1, <2>2
<1> QED
  BY <1>2, <1>3, <1>4

\* A step of the handler of r keeps the ledger of every request.
LEMMA LedgerStep ==
    ASSUME SafetyInv, SafetyInv', LedgerInv, NEW r \in Requests,
           RefuseAtGate(r) \/ HandlerStep(r) \/ \E q \in Request : Arrive(r, q)
    PROVE  LedgerInv'
<1> USE DEF SafetyInv
<1>1. ProgressOK(r) /\ HookOK(r)
  BY DEF LedgerInv
<1>2. ProgressOK(r)' /\ HookOK(r)' /\ DenialOK(r)'
  BY <1>1, ProgressStep, HookStep, DenialStep
<1>3. ASSUME NEW x \in Requests, x # r PROVE ProgressOK(x)' /\ HookOK(x)' /\ DenialOK(x)'
  <2>1. ProgressOK(x) /\ HookOK(x) /\ DenialOK(x)
    BY DEF LedgerInv
  <2>2. /\ req'[x] = req[x] /\ pc'[x] = pc[x] /\ pos'[x] = pos[x]
        /\ meta'[x] = meta[x] /\ hookSpec'[x] = hookSpec[x] /\ status'[x] = status[x]
        /\ AppliedBy(x)' = AppliedBy(x)
    BY <1>3, StepFrame, AppliedStep DEF Frame
  <2>3. ProgressOK(x)'
    BY <2>1, <2>2 DEF ProgressOK, ChangeOf
  <2>4. HookOK(x)'
    BY <2>1, <2>2 DEF HookOK, Coordinated
  <2>5. DenialOK(x)'
    BY <2>1, <2>2, AuditStep DEF DenialOK, AuditRow
  <2> QED
    BY <2>3, <2>4, <2>5
<1> QED
  BY <1>2, <1>3, RowStep DEF LedgerInv

\* Nothing is accepted, written or answered before the first request.
LEMMA LedgerInit == Init => LedgerInv
<1> SUFFICES ASSUME Init PROVE LedgerInv
  OBVIOUS
<1>1. ASSUME NEW r \in Requests PROVE ProgressOK(r)
  <2>1. pc[r] = "idle" /\ status[r] = 0
    BY DEF Init, NoStatus
  <2> QED
    BY <2>1 DEF ProgressOK
<1>2. ASSUME NEW r \in Requests PROVE HookOK(r)
  <2>1. req[r] = NoRequest
    BY DEF Init
  <2>2. NoRequest.kind = "none"
    BY DEF NoRequest
  <2> QED
    BY <2>1, <2>2 DEF HookOK
<1>3. \A r \in Requests : DenialOK(r)
  BY DEF Init, DenialOK, NoStatus
<1> QED
  BY <1>1, <1>2, <1>3 DEF Init, LedgerInv

\* A step outside the handlers leaves the ledgers and the requests alone.
LEMMA LedgerQuiet == ASSUME LedgerInv, Quiet PROVE LedgerInv'
<1> USE DEF Quiet, Ledgers
<1>1. \A x : AppliedBy(x)' = AppliedBy(x)
  BY DEF AppliedBy
<1>2. ASSUME NEW x \in Requests PROVE ProgressOK(x)' /\ HookOK(x)' /\ DenialOK(x)'
  BY <1>1 DEF LedgerInv, ProgressOK, HookOK, DenialOK, ChangeOf, Coordinated, AuditRow
<1>3. ASSUME NEW a \in audit' PROVE RowOK(a)'
  BY <1>1 DEF LedgerInv, RowOK
<1> QED
  BY <1>1, <1>2, <1>3 DEF LedgerInv

\* Every step keeps the ledger.
LEMMA LedgerNext == SafetyInv /\ LedgerInv /\ [Next]_vars => LedgerInv'
<1> SUFFICES ASSUME SafetyInv, LedgerInv, [Next]_vars PROVE LedgerInv'
  OBVIOUS
<1>1. SafetyInv'
  BY SafetyNext
<1>2. ASSUME NEW r \in Requests,
             RefuseAtGate(r) \/ HandlerStep(r) \/ \E q \in Request : Arrive(r, q)
      PROVE  LedgerInv'
  BY <1>1, <1>2, LedgerStep
<1>3. ASSUME NEW t \in Tables,
             \/ BypassCommit(t)
             \/ \E p \in Policies : ChangePolicy(t, p)
             \/ \E s \in Specs : ActivateSpec(t, s)
      PROVE  LedgerInv'
  BY <1>3, EnvironmentQuiet, LedgerQuiet
<1>4. CASE UNCHANGED vars
  <2>1. Quiet
    BY <1>4 DEF vars, Quiet, Ledgers
  <2> QED
    BY <2>1, LedgerQuiet
<1> QED
  BY <1>2, <1>3, <1>4 DEF Next

\* The ledger invariant holds in every reachable state.
LEMMA LedgerInvariant == Spec => [](SafetyInv /\ LedgerInv)
BY SafetyInit, SafetyNext, LedgerInit, LedgerNext, PTL DEF Spec

----------------------------------------------------------------------------
(* The theorems about the ledger *)

\* The audit trail and the snapshot graph claim nothing the upstream did not
\* accept, and a REJECTED row means nothing was accepted (audit.go, handler.go
\* steps 5 to 8), whatever audit transactions fail after their COMMIT.
THEOREM AuditTruthfulHolds == Spec => []AuditTruthful
<1>1. LedgerInv => AuditTruthful
  BY DEF LedgerInv, RowOK, AuditTruthful
<1> QED
  BY <1>1, LedgerInvariant, PTL

\* CR-05 (handler.go): a policy's denial is answered 403 only with its row
\* durable; the only 403 without one is the partition spec mismatch.
THEOREM DenialsAuditedHolds == Spec => []DenialsAudited
<1>1. LedgerInv => DenialsAudited
  BY DEF LedgerInv, DenialOK, DenialsAudited
<1> QED
  BY <1>1, LedgerInvariant, PTL

\* Independent upstream commits (multi_table.go, step 4): what the upstream
\* accepted of a transaction is an initial segment of its changes, the whole
\* of it when the answer is 200, known but for the failing change when it is
\* 409, and all up to the last or nothing when the audit panicked.
THEOREM AppliedPrefixHolds == Spec => []AppliedPrefix
<1>1. ASSUME SafetyInv, LedgerInv, NEW r \in Requests
      PROVE  \A i \in AppliedBy(r) : 1 .. i \subseteq AppliedBy(r)
  <2>1. ASSUME AppliedBy(r) # {} PROVE \E k \in Int : AppliedBy(r) = 1 .. k
    <3>1. pc[r] \in Forward \cup {"done"}
      BY <1>1, <2>1, NothingYet DEF SafetyInv
    <3>2. pos[r] \in Int /\ pos[r] - 1 \in Int
      BY <1>1 DEF SafetyInv, TypeOK, Positions
    <3> QED
      BY <1>1, <3>1, <3>2 DEF LedgerInv, ProgressOK, Forward
  <2> QED
    BY <2>1
<1>2. ASSUME LedgerInv, NEW r \in Requests
      PROVE  /\ status[r] = 200 => AppliedBy(r) = 1 .. req[r].n
             /\ status[r] = 409 => AppliedBy(r) \in {1 .. (pos[r] - 1), 1 .. pos[r]}
             /\ pc[r] = "done" /\ status[r] = NoStatus => AppliedBy(r) \in {{}, 1 .. pos[r]}
  <2>1. ProgressOK(r)
    BY <1>2 DEF LedgerInv
  <2> QED
    BY <2>1, Zenon DEF ProgressOK
<1>3. SafetyInv /\ LedgerInv => AppliedPrefix
  BY <1>1, <1>2, Zenon DEF AppliedPrefix
<1> QED
  BY <1>3, LedgerInvariant, PTL

\* The write-coordinator's guarantee (write_coordinator_hook.go): with the
\* spec store wired, a guarded Trino or Dremio commit replaces metadata of the
\* spec that was active when the hook ran, whatever commits race with it.
THEOREM ActiveSpecHolds == Spec => []ActiveSpecRespected
<1>1. ASSUME SafetyInv, LedgerInv, NEW e \in applied,
             SpecStore, Coordinated(e.req), req[e.req].kind = "single",
             req[e.req].changes[e.pos].base # NoBase
      PROVE  specMatches(e.prev.spec, hookSpec[e.req])
  <2>1. e.req \in Requests /\ e.pos \in AppliedBy(e.req)
    BY <1>1 DEF SafetyInv, TypeOK, AppliedBy
  <2>2. specMatches(meta[e.req][1].spec, hookSpec[e.req])
    BY <1>1, <2>1 DEF LedgerInv, HookOK
  <2>3. e.prev = meta[e.req][e.pos]
    BY <1>1 DEF SafetyInv, GuardedOnEvaluated
  <2>4. e.pos = 1
    <3>1. pc[e.req] \in Forward \cup {"done"} /\ req[e.req].n = 1
      BY <1>1, <2>1 DEF SafetyInv, Past, AppliedOK, Control, ServedOK
    <3>2. pc[e.req] \in Forward => pos[e.req] = 1
      BY <1>1, <2>1, <3>1 DEF SafetyInv, Control, ServedOK
    <3>3. \E k \in 0 .. 1 : AppliedBy(e.req) = 1 .. k
      BY <1>1, <2>1, <3>1, <3>2 DEF LedgerInv, ProgressOK, Forward
    <3> QED
      BY <2>1, <3>3
  <2> QED
    BY <2>2, <2>3, <2>4
<1>2. SafetyInv /\ LedgerInv => ActiveSpecRespected
  BY <1>1 DEF ActiveSpecRespected
<1> QED
  BY <1>2, LedgerInvariant, PTL

\* The handler's return ends a request, after http.Error or WriteHeader or by
\* a panic: neither its status nor what it applied or audited changes.
THEOREM AnsweredIsFinalHolds == Spec => AnsweredIsFinal
<1> DEFINE Kept(r) == /\ status'[r] = status[r]
                      /\ AppliedBy(r)' = AppliedBy(r)
                      /\ {a \in audit' : a.req = r} = {a \in audit : a.req = r}
<1>1. ASSUME SafetyInv, Next, NEW r \in Requests,
             pc[r] = "done" \/ status[r] # NoStatus
      PROVE  Kept(r)
  <2>1. pc[r] = "done"
    BY <1>1 DEF SafetyInv, Control, ServedOK
  <2>2. ASSUME NEW x \in Requests,
               RefuseAtGate(x) \/ HandlerStep(x) \/ \E q \in Request : Arrive(x, q)
        PROVE  Kept(r)
    <3>1. x # r
      BY <2>1, <2>2, DoneIsDone
    <3>2. status'[r] = status[r] /\ AppliedBy(r)' = AppliedBy(r)
      BY <1>1, <2>2, <3>1, StepFrame, AppliedStep DEF Frame, SafetyInv
    <3>3. {a \in audit' : a.req = r} = {a \in audit : a.req = r}
      BY <2>2, <3>1, AuditStep DEF AuditRow
    <3> QED
      BY <3>2, <3>3
  <2>3. ASSUME Quiet PROVE Kept(r)
    BY <2>3 DEF Quiet, Ledgers, AppliedBy
  <2> QED
    BY <1>1, <2>2, <2>3, EnvironmentQuiet DEF Next
<1>2. SafetyInv /\ [Next]_vars =>
         [\A r \in Requests : pc[r] = "done" \/ status[r] # NoStatus => Kept(r)]_vars
  BY <1>1
<1> QED
  BY <1>2, SafetyInvariant, PTL DEF Spec, AnsweredIsFinal
=============================================================================
