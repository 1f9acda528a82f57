------------------------- MODULE ServerStateProofs -------------------------
(***************************************************************************)
(* Safety of what the server process keeps in memory: the cache of data    *)
(* keys (BatchKeys), the cache of vended credentials (CredentialVending),  *)
(* the reloaded license and certificate (HotReload), and the programs and  *)
(* inputs a CEL policy is evaluated on (CelFacts), each for any number of  *)
(* callers, any capacity, any lifetimes and any bounds.  The four share no *)
(* state; each has a specification of its own.                             *)
(***************************************************************************)
EXTENDS CredentialVending, BatchKeys, HotReload, CelFacts, FiniteSetTheorems, TLAPS

\* An LRU that gives up a key for another one keeps within its capacity.
LEMMA RoomMade ==
    ASSUME NEW D, IsFiniteSet(D), NEW N \in Nat, Cardinality(D) <= N, NEW v \in D, NEW k
    PROVE  IsFiniteSet((D \ {v}) \cup {k}) /\ Cardinality((D \ {v}) \cup {k}) <= N
  <1>1. Cardinality(D) \in Nat
    BY FS_CardinalityType
  <1> DEFINE rest == D \ {v}
  <1>2. IsFiniteSet(rest) /\ Cardinality(rest) = Cardinality(D) - 1
    BY FS_RemoveElement
  <1> HIDE DEF rest
  <1>3. IsFiniteSet(rest \cup {k}) /\ Cardinality(rest \cup {k}) \in {Cardinality(rest), Cardinality(rest) + 1}
    BY <1>2, FS_AddElement
  <1> QED
    BY <1>1, <1>2, <1>3 DEF rest

-----------------------------------------------------------------------------
(* Data keys: one generation per batch                                     *)

KPCs == {"idle", "get", "remove", "lock", "generate", "set", "done"}

Threads == [pc : KPCs, key : KKeys, locked : BOOLEAN, dek : Nat]

\* The parts of the state the argument is about keep their types.
KTypes ==
    /\ kclock \in Int
    /\ kcached \in SUBSET KKeys
    /\ kentry \in [KKeys -> [dek : Nat, exp : Int]]
    /\ kmu \in SUBSET KThreads
    /\ kthread \in [KThreads -> Threads]
    /\ kdeks \in [KKeys -> Nat]

\* The mutex has one holder, and only its holder generates and stores.
Exclusive ==
    /\ \A t \in KThreads : kthread[t].locked <=> t \in kmu
    /\ \A t, u \in kmu : t = u
    /\ \A t \in KThreads : kthread[t].pc \in {"generate", "set"} => t \in kmu
    /\ \A t \in KThreads : kthread[t].pc \in {"idle", "lock", "done"} => t \notin kmu

\* A stored key still in force is in the cache or is known to have left it.
InForce(k) == kentry[k].dek > 0 /\ Unexpired(k)
Kept == \A k \in KKeys : InForce(k) => k \in kcached \cup klost

\* A caller about to generate has seen that no key is in force, and nobody else
\* can store one before it does.
Checked ==
    \A t \in KThreads : kthread[t].pc = "generate" /\ InForce(kthread[t].key) => kthread[t].key \in klost

KInv == KTypes /\ Exclusive /\ Kept /\ Checked /\ OneKeyPerBatch

-----------------------------------------------------------------------------
LEMMA IdleTyped == KIdle \in Threads
  BY KAssumption DEF KIdle, Threads, KPCs

\* What KKeysAfterAdd leaves in the cache.
LEMMA AddKeeps ==
    ASSUME NEW k \in KKeys, NEW c \in KKeysAfterAdd(k), kcached \in SUBSET KKeys
    PROVE  c \in SUBSET KKeys /\ k \in c /\ c \subseteq kcached \cup {k}
  BY DEF KKeysAfterAdd

\* Initially nothing is cached and no key is in force.
LEMMA KInitInv == KInit => KInv
  <1> SUFFICES ASSUME KInit PROVE KInv
    OBVIOUS
  <1>1. KTypes
    BY IdleTyped DEF KInit, KTypes
  <1>2. Exclusive
    BY DEF KInit, Exclusive, KIdle
  <1>3. Kept /\ Checked /\ OneKeyPerBatch
    BY DEF KInit, Kept, Checked, InForce, OneKeyPerBatch, KIdle
  <1> QED
    BY <1>1, <1>2, <1>3 DEF KInv

\* Time only takes keys out of force.
LEMMA TickInv == KInv /\ KTick => KInv'
  <1> SUFFICES ASSUME KInv, KTick PROVE KInv'
    OBVIOUS
  <1>1. KTypes'
    BY DEF KInv, KTypes, KTick
  <1>2. Exclusive'
    BY DEF KInv, Exclusive, KTick
  <1>3. \A k \in KKeys : InForce(k)' => InForce(k)
    BY DEF KInv, KTypes, InForce, Unexpired, KTick
  <1>4. Kept' /\ Checked' /\ OneKeyPerBatch'
    BY <1>3 DEF KInv, KTypes, Threads, Kept, Checked, OneKeyPerBatch, KTick
  <1> QED
    BY <1>1, <1>2, <1>4 DEF KInv

\* A step of one caller replaces its own record and no other.
LEMMA ThreadUpdate ==
    ASSUME KTypes, NEW t \in KThreads, NEW n \in Threads,
           kthread' = [kthread EXCEPT ![t] = n]
    PROVE  /\ kthread' \in [KThreads -> Threads]
           /\ kthread'[t] = n
           /\ \A u \in KThreads : u # t => kthread'[u] = kthread[u]
  BY DEF KTypes

\* A call starts: the caller holds no lock and nothing of the cache changes.
LEMMA StartInv ==
    ASSUME NEW t \in KThreads, NEW k \in KKeys, KInv, GetOrGenerate(t, k)
    PROVE  KInv'
  <1> DEFINE n == [pc |-> "get", key |-> k, locked |-> FALSE, dek |-> 0]
  <1>1. n \in Threads
    BY DEF Threads, KPCs
  <1>2. kthread' = [kthread EXCEPT ![t] = n]
    BY DEF GetOrGenerate
  <1>3. /\ kthread' \in [KThreads -> Threads]
        /\ kthread'[t] = n
        /\ \A u \in KThreads : u # t => kthread'[u] = kthread[u]
    BY <1>1, <1>2, ThreadUpdate DEF KInv
  <1>4. t \notin kmu
    BY DEF KInv, Exclusive, GetOrGenerate
  <1>5. UNCHANGED << kclock, kcached, kentry, kmu, kdeks, kagain, klost >>
    BY DEF GetOrGenerate
  <1>6. KTypes'
    BY <1>3, <1>5 DEF KInv, KTypes
  <1>7. Exclusive'
    BY <1>3, <1>4, <1>5 DEF KInv, Exclusive
  <1>8. Kept' /\ Checked' /\ OneKeyPerBatch'
    BY <1>3, <1>5 DEF KInv, Kept, Checked, InForce, Unexpired, OneKeyPerBatch
  <1> QED
    BY <1>6, <1>7, <1>8 DEF KInv

\* What one caller's step has to show when it stores no key: how the lock
\* moves, that no key in force leaves the cache unnoticed, and that it only goes
\* on to generate when it saw none.
LEMMA StepInv ==
    ASSUME KInv, NEW t \in KThreads, NEW n \in Threads,
           kthread' = [kthread EXCEPT ![t] = n],
           UNCHANGED << kclock, kentry >>,
           kcached' \in SUBSET KKeys, kdeks' \in [KKeys -> Nat],
           kmu' = kmu \/ kmu' = {} \/ kmu' = {t}, kmu' \in SUBSET {t} \/ t \notin kmu,
           kmu' # kmu => kmu \in SUBSET {t},
           n.locked <=> t \in kmu',
           n.pc \in {"generate", "set"} => t \in kmu',
           n.pc \in {"idle", "lock", "done"} => t \notin kmu',
           klost \subseteq klost', kcached \subseteq kcached' \cup {k \in KKeys : ~InForce(k)} \cup klost',
           n.pc = "generate" /\ InForce(n.key) => n.key \in klost',
           kagain' \subseteq klost'
    PROVE  KInv'
  <1>1. /\ kthread' \in [KThreads -> Threads]
        /\ kthread'[t] = n
        /\ \A u \in KThreads : u # t => kthread'[u] = kthread[u]
    BY ThreadUpdate DEF KInv
  <1>2. KTypes'
    BY <1>1 DEF KInv, KTypes
  <1>3. \A u \in KThreads : u # t => (u \in kmu' <=> u \in kmu)
    OBVIOUS
  <1>4. Exclusive'
    <2>1. \A u \in KThreads : kthread'[u].locked <=> u \in kmu'
      BY <1>1, <1>3, Zenon DEF KInv, Exclusive
    <2>2. \A u, v \in kmu' : u = v
      BY DEF KInv, Exclusive
    <2>3. \A u \in KThreads : kthread'[u].pc \in {"generate", "set"} => u \in kmu'
      BY <1>1, <1>3, Zenon DEF KInv, Exclusive
    <2>4. \A u \in KThreads : kthread'[u].pc \in {"idle", "lock", "done"} => u \notin kmu'
      BY <1>1, <1>3, Zenon DEF KInv, Exclusive
    <2> QED
      BY <2>1, <2>2, <2>3, <2>4 DEF Exclusive
  <1>5. \A k \in KKeys : InForce(k)' <=> InForce(k)
    BY DEF InForce, Unexpired
  <1>6. Kept'
    BY <1>5 DEF KInv, Kept
  <1>7. Checked'
    <2> SUFFICES ASSUME NEW u \in KThreads, kthread'[u].pc = "generate", InForce(kthread[u].key)'
                 PROVE  kthread'[u].key \in klost'
      BY DEF Checked, InForce, Unexpired
    <2>1. kthread'[u].key \in KKeys
      BY <1>1 DEF Threads
    <2>2. InForce(kthread'[u].key)
      BY DEF InForce, Unexpired
    <2> QED
      BY <1>1, <2>1, <2>2 DEF KInv, Checked
  <1> QED
    BY <1>2, <1>4, <1>6, <1>7 DEF KInv, OneKeyPerBatch

\* What is known of the caller that takes a step.
LEMMA Caller ==
    ASSUME KInv, NEW t \in KThreads
    PROVE  /\ kthread[t] \in Threads
           /\ kthread[t].key \in KKeys /\ kthread[t].dek \in Nat /\ kthread[t].locked \in BOOLEAN
           /\ kthread[t].locked <=> t \in kmu
           /\ kthread[t].pc \in {"generate", "set"} => t \in kmu
           /\ t \in kmu => kmu \subseteq {t}
           /\ kmu \in SUBSET KThreads /\ kcached \in SUBSET KKeys /\ kdeks \in [KKeys -> Nat]
           /\ kagain \subseteq klost
  <1>1. kthread[t] \in Threads
    BY DEF KInv, KTypes
  <1>2. kthread[t].key \in KKeys /\ kthread[t].dek \in Nat /\ kthread[t].locked \in BOOLEAN
    BY <1>1 DEF Threads
  <1> QED
    BY <1>1, <1>2 DEF KInv, KTypes, Exclusive, OneKeyPerBatch

\* A lookup: a miss is a step towards the lock or, under it, towards a new key
\* when none is in force; a hit returns and unlocks.
LEMMA GetInv == ASSUME KInv, NEW t \in KThreads, KGet(t) PROVE KInv'
  <1> DEFINE k == kthread[t].key
  <1> DEFINE n(p, l, d) == [pc |-> p, key |-> k, locked |-> l, dek |-> d]
  <1>1. \A p \in KPCs, l \in BOOLEAN, d \in Nat : n(p, l, d) \in Threads
    BY Caller DEF Threads
  <1>2. UNCHANGED << kclock, kcached, kentry, kdeks, kagain, klost >>
    BY DEF KGet
  <1>3. CASE k \notin kcached /\ KGoto(t, KAfterMiss(t)) /\ UNCHANGED kmu
    <2>1. InForce(k) => k \in klost
      BY <1>3, Caller DEF KInv, Kept
    <2>2. CASE kthread[t].locked
      <3>1. kthread' = [kthread EXCEPT ![t] = n("generate", kthread[t].locked, kthread[t].dek)]
        BY <1>3, <2>2 DEF KGoto, KNow, KAfterMiss
      <3> QED
        BY <1>1, <1>2, <1>3, <2>1, <2>2, <3>1, Caller, StepInv DEF KPCs
    <2>3. CASE ~kthread[t].locked
      <3>1. kthread' = [kthread EXCEPT ![t] = n("lock", kthread[t].locked, kthread[t].dek)]
        BY <1>3, <2>3 DEF KGoto, KNow, KAfterMiss
      <3> QED
        BY <1>1, <1>2, <1>3, <2>3, <3>1, Caller, StepInv DEF KPCs
    <2> QED
      BY <2>2, <2>3
  <1>4. CASE k \in kcached /\ ~Unexpired(k) /\ KGoto(t, "remove") /\ UNCHANGED kmu
    <2>1. kthread' = [kthread EXCEPT ![t] = n("remove", kthread[t].locked, kthread[t].dek)]
      BY <1>4 DEF KGoto, KNow
    <2> QED
      BY <1>1, <1>2, <1>4, <2>1, Caller, StepInv DEF KPCs
  <1>5. CASE k \in kcached /\ Unexpired(k) /\ KReturn(t, kentry[k].dek)
    <2>1. kthread' = [kthread EXCEPT ![t] = n("done", FALSE, kentry[k].dek)] /\ kmu' = kmu \ {t}
      BY <1>5 DEF KReturn, KNow
    <2>2. kentry[k].dek \in Nat
      BY Caller DEF KInv, KTypes
    <2> QED
      BY <1>1, <1>2, <2>1, <2>2, Caller, StepInv DEF KPCs
  <1> QED
    BY <1>3, <1>4, <1>5 DEF KGet

\* A removal takes the entry out; one still in force is noted.
LEMMA RemoveInv == ASSUME KInv, NEW t \in KThreads, KRemove(t) PROVE KInv'
  <1> DEFINE k == kthread[t].key
  <1> DEFINE n(p) == [pc |-> p, key |-> k, locked |-> kthread[t].locked, dek |-> kthread[t].dek]
  <1>1. \A p \in KPCs : n(p) \in Threads
    BY Caller DEF Threads
  <1>2. /\ UNCHANGED << kclock, kentry, kmu, kdeks, kagain >>
        /\ kcached' = kcached \ {k}
        /\ klost' = klost \cup {x \in {k} \cap kcached : Unexpired(x)}
    BY DEF KRemove
  <1>3. InForce(k) => k \in klost'
    BY <1>2, Caller DEF KInv, Kept, InForce
  <1>4. kcached \subseteq kcached' \cup {x \in KKeys : ~InForce(x)} \cup klost'
    BY <1>2, <1>3, Caller
  <1>5. CASE kthread[t].locked
    <2>1. kthread' = [kthread EXCEPT ![t] = n("generate")]
      BY <1>5 DEF KRemove, KGoto, KNow, KAfterMiss
    <2> QED
      BY <1>1, <1>2, <1>3, <1>4, <1>5, <2>1, Caller, StepInv DEF KPCs
  <1>6. CASE ~kthread[t].locked
    <2>1. kthread' = [kthread EXCEPT ![t] = n("lock")]
      BY <1>6 DEF KRemove, KGoto, KNow, KAfterMiss
    <2> QED
      BY <1>1, <1>2, <1>4, <1>6, <2>1, Caller, StepInv DEF KPCs
  <1> QED
    BY <1>5, <1>6

\* The lock is free when it is taken, and the second look follows.
LEMMA LockInv == ASSUME KInv, NEW t \in KThreads, KLock(t) PROVE KInv'
  <1> DEFINE n == [pc |-> "get", key |-> kthread[t].key, locked |-> TRUE, dek |-> kthread[t].dek]
  <1>1. n \in Threads
    BY Caller DEF Threads, KPCs
  <1>2. /\ kthread' = [kthread EXCEPT ![t] = n]
        /\ kmu = {} /\ kmu' = {t}
        /\ UNCHANGED << kclock, kcached, kentry, kdeks, kagain, klost >>
    BY DEF KLock, KNow
  <1> QED
    BY <1>1, <1>2, Caller, StepInv

\* The key is generated under the lock, where none in force was seen.
LEMMA GenerateInv == ASSUME KInv, NEW t \in KThreads, GenerateDataKey(t) PROVE KInv'
  <1> DEFINE k == kthread[t].key
  <1> DEFINE n == [pc |-> "set", key |-> k, locked |-> kthread[t].locked, dek |-> kdeks[k] + 1]
  <1>1. n \in Threads /\ kdeks' \in [KKeys -> Nat]
    BY Caller DEF Threads, KPCs, GenerateDataKey
  <1>2. /\ kthread' = [kthread EXCEPT ![t] = n]
        /\ UNCHANGED << kclock, kcached, kentry, kmu, klost >>
    BY DEF GenerateDataKey, KNow
  <1>3. kagain' \subseteq klost'
    BY Caller DEF GenerateDataKey, KInv, Checked, InForce
  <1>4. t \in kmu
    BY Caller DEF GenerateDataKey
  <1> QED
    BY <1>1, <1>2, <1>3, <1>4, Caller, StepInv

\* A failed generation stores nothing and unlocks.
LEMMA FailInv == ASSUME KInv, NEW t \in KThreads, GenerateFails(t) PROVE KInv'
  <1> DEFINE n == [pc |-> "done", key |-> kthread[t].key, locked |-> FALSE, dek |-> 0]
  <1>1. n \in Threads
    BY Caller DEF Threads, KPCs
  <1>2. /\ kthread' = [kthread EXCEPT ![t] = n]
        /\ kmu' = kmu \ {t}
        /\ UNCHANGED << kclock, kcached, kentry, kdeks, kagain, klost >>
    BY DEF GenerateFails, KReturn, KNow
  <1> QED
    BY <1>1, <1>2, Caller, StepInv

\* The holder of the lock stores its key: nobody else is generating, and what
\* the LRU gave up for it is noted.
LEMMA SetInv == ASSUME KInv, NEW t \in KThreads, KSet(t) PROVE KInv'
  <1> DEFINE k == kthread[t].key
  <1> DEFINE n == [pc |-> "done", key |-> k, locked |-> FALSE, dek |-> kthread[t].dek]
  <1>1. n \in Threads
    BY Caller DEF Threads, KPCs
  <1>2. /\ kthread' = [kthread EXCEPT ![t] = n]
        /\ kmu' = kmu \ {t}
        /\ kentry' = [kentry EXCEPT ![k] = [dek |-> kthread[t].dek, exp |-> kclock + KTTL]]
        /\ klost' = klost \cup {x \in kcached \ kcached' : Unexpired(x)}
        /\ UNCHANGED << kclock, kdeks, kagain >>
    BY DEF KSet, KReturn, KNow
  <1>3. /\ kthread' \in [KThreads -> Threads]
        /\ kthread'[t] = n
        /\ \A u \in KThreads : u # t => kthread'[u] = kthread[u]
    BY <1>1, <1>2, ThreadUpdate DEF KInv
  <1>4. t \in kmu /\ kmu' = {}
    BY <1>2, Caller DEF KSet
  <1>5. kcached' \in SUBSET KKeys /\ k \in kcached'
    BY Caller, AddKeeps DEF KSet
  <1>6. [dek |-> kthread[t].dek, exp |-> kclock + KTTL] \in [dek : Nat, exp : Int]
    BY Caller, KAssumption DEF KInv, KTypes
  <1>7. KTypes'
    BY <1>2, <1>3, <1>4, <1>5, <1>6, Caller DEF KInv, KTypes
  <1>8. \A u \in KThreads : u # t => u \notin kmu
    BY <1>4, Caller
  <1>9. Exclusive'
    <2>1. \A u \in KThreads : ~kthread'[u].locked
      <3>1. ~kthread'[t].locked
        BY <1>3
      <3> QED
        BY <1>3, <1>8, <3>1, Zenon DEF KInv, Exclusive
    <2>2. \A u \in KThreads : kthread'[u].pc \notin {"generate", "set"}
      BY <1>3, <1>8 DEF KInv, Exclusive
    <2> QED
      BY <1>4, <2>1, <2>2 DEF Exclusive
  <1>10. \A x \in KKeys : x # k => (InForce(x)' <=> InForce(x))
    BY <1>2 DEF InForce, Unexpired, KInv, KTypes
  <1>11. Kept'
    BY <1>2, <1>5, <1>10 DEF KInv, Kept, InForce
  <1>12. Checked'
    BY <1>3, <1>8 DEF KInv, Exclusive, Checked
  <1>13. OneKeyPerBatch'
    BY <1>2, Caller DEF OneKeyPerBatch
  <1> QED
    BY <1>7, <1>9, <1>11, <1>12, <1>13 DEF KInv

\* Every step keeps the argument of OneKeyPerBatch.
LEMMA KNextInv == KInv /\ [KNext]_kvars => KInv'
  <1> SUFFICES ASSUME KInv, [KNext]_kvars PROVE KInv'
    OBVIOUS
  <1>1. CASE KTick
    BY <1>1, TickInv
  <1>2. ASSUME NEW t \in KThreads, KStep(t) PROVE KInv'
    BY <1>2, GetInv, RemoveInv, LockInv, GenerateInv, FailInv, SetInv DEF KStep
  <1>3. ASSUME NEW t \in KThreads, NEW k \in KKeys, GetOrGenerate(t, k) PROVE KInv'
    BY <1>3, StartInv
  <1>4. CASE UNCHANGED kvars
    BY <1>4 DEF kvars, KInv, KTypes, Exclusive, Kept, Checked, InForce, Unexpired, OneKeyPerBatch
  <1> QED
    BY <1>1, <1>2, <1>3, <1>4 DEF KNext

-----------------------------------------------------------------------------
(* Data keys: the capacity and the numbers                                 *)

\* A key in the cache or in hand is one that was generated, and the bounds hold.
KShape ==
    /\ kclock \in 0 .. KMaxTime
    /\ IsFiniteSet(kcached) /\ Cardinality(kcached) <= KCacheSize
    /\ \A k \in KKeys : kentry[k].dek <= kdeks[k] /\ kdeks[k] <= KMaxDeks
    /\ \A t \in KThreads : kthread[t].dek <= kdeks[kthread[t].key]

\* Initially no key was generated.
LEMMA KShapeInit == KInit => KShape
  <1> SUFFICES ASSUME KInit PROVE KShape
    OBVIOUS
  <1>1. IsFiniteSet({}) /\ Cardinality({}) = 0
    BY FS_EmptySet
  <1>2. KCacheSize \in Nat /\ KMaxTime \in Nat /\ KMaxDeks \in Nat
    BY KAssumption
  <1>3. KIdle.dek = 0 /\ KIdle.key \in KKeys
    BY IdleTyped DEF KIdle, Threads
  <1> QED
    BY <1>1, <1>2, <1>3 DEF KInit, KShape

\* What a step of one caller has to show.
LEMMA KShapeStep ==
    ASSUME KInv, KShape, NEW t \in KThreads, NEW n \in Threads,
           kthread' = [kthread EXCEPT ![t] = n], UNCHANGED kclock,
           IsFiniteSet(kcached'), Cardinality(kcached') <= KCacheSize,
           kdeks' \in [KKeys -> Nat],
           \A k \in KKeys : kentry'[k].dek <= kdeks'[k] /\ kdeks'[k] <= KMaxDeks /\ kdeks[k] <= kdeks'[k],
           n.dek <= kdeks'[n.key]
    PROVE  KShape'
  <1>1. /\ kthread'[t] = n
        /\ \A u \in KThreads : u # t => kthread'[u] = kthread[u]
    BY ThreadUpdate DEF KInv
  <1>2. ASSUME NEW u \in KThreads PROVE kthread'[u].dek <= kdeks'[kthread'[u].key]
    <2>1. CASE u = t
      BY <1>1, <2>1
    <2>2. CASE u # t
      <3>1. kthread'[u] = kthread[u]
        BY <1>1, <2>2
      <3>2. kthread[u].key \in KKeys /\ kthread[u].dek \in Nat
        BY Caller
      <3>3. kthread[u].dek <= kdeks[kthread[u].key] /\ kdeks[kthread[u].key] <= kdeks'[kthread[u].key]
        BY <3>2 DEF KShape
      <3>4. kdeks[kthread[u].key] \in Nat /\ kdeks'[kthread[u].key] \in Nat
        BY <3>2 DEF KInv, KTypes
      <3> QED
        BY <3>1, <3>2, <3>3, <3>4
    <2> QED
      BY <2>1, <2>2
  <1> QED
    BY <1>2 DEF KShape

\* The steps that leave the cached keys and the count of generations alone.
LEMMA KShapeLook ==
    ASSUME KInv, KShape, NEW t \in KThreads, KGet(t) \/ KLock(t) \/ GenerateFails(t)
    PROVE  KShape'
  <1> DEFINE k == kthread[t].key
             n(p, l, d) == [pc |-> p, key |-> k, locked |-> l, dek |-> d]
  <1>1. UNCHANGED << kclock, kcached, kentry, kdeks >>
    BY DEF KGet, KLock, GenerateFails
  <1>2. /\ k \in KKeys /\ kthread[t].dek \in Nat /\ kthread[t].locked \in BOOLEAN
        /\ kdeks \in [KKeys -> Nat] /\ kentry[k].dek \in Nat
        /\ kthread[t].dek <= kdeks[k] /\ kentry[k].dek <= kdeks[k]
    BY Caller DEF KShape, KInv, KTypes
  <1>3. PICK p \in KPCs, l \in BOOLEAN, d \in {kthread[t].dek, kentry[k].dek, 0} :
            kthread' = [kthread EXCEPT ![t] = n(p, l, d)]
    <2>1. CASE KLock(t)
      BY <2>1 DEF KLock, KNow, KPCs
    <2>2. CASE GenerateFails(t)
      BY <2>2 DEF GenerateFails, KReturn, KNow, KPCs
    <2>3. CASE KGet(t)
      <3>1. CASE KGoto(t, KAfterMiss(t))
        BY <1>2, <3>1 DEF KGoto, KNow, KAfterMiss, KPCs
      <3>2. CASE KGoto(t, "remove")
        BY <1>2, <3>2 DEF KGoto, KNow, KPCs
      <3>3. CASE KReturn(t, kentry[k].dek)
        BY <3>3 DEF KReturn, KNow, KPCs
      <3> QED
        BY <2>3, <3>1, <3>2, <3>3 DEF KGet
    <2> QED
      BY <2>1, <2>2, <2>3
  <1>4. d \in Nat /\ d <= kdeks[k]
    BY <1>2, <1>3
  <1>5. n(p, l, d) \in Threads /\ n(p, l, d).dek = d /\ n(p, l, d).key = k
    BY <1>2, <1>4 DEF Threads
  <1>6. PICK m \in Threads : kthread' = [kthread EXCEPT ![t] = m] /\ m.dek = d /\ m.key = k
    BY <1>3, <1>5
  <1> HIDE DEF n
  <1>7. \A x \in KKeys : kentry'[x].dek <= kdeks'[x] /\ kdeks'[x] <= KMaxDeks /\ kdeks[x] <= kdeks'[x]
    BY <1>1, <1>2 DEF KShape
  <1> QED
    BY <1>1, <1>2, <1>4, <1>6, <1>7, KShapeStep DEF KShape

\* The steps that change the cached keys or the count of generations.
LEMMA KShapeChange ==
    ASSUME KInv, KShape, NEW t \in KThreads, KRemove(t) \/ GenerateDataKey(t) \/ KSet(t)
    PROVE  KShape'
  <1> DEFINE k == kthread[t].key
             n(p, l, d) == [pc |-> p, key |-> k, locked |-> l, dek |-> d]
  <1>1. /\ k \in KKeys /\ kthread[t].dek \in Nat /\ kthread[t].locked \in BOOLEAN
        /\ kdeks \in [KKeys -> Nat] /\ kentry \in [KKeys -> [dek : Nat, exp : Int]]
        /\ kthread[t].dek <= kdeks[k] /\ KCacheSize \in Nat /\ KMaxDeks \in Nat
        /\ IsFiniteSet(kcached) /\ Cardinality(kcached) <= KCacheSize
    BY Caller, KAssumption DEF KShape, KInv, KTypes
  <1>2. \A x \in KKeys : kentry[x].dek <= kdeks[x] /\ kdeks[x] <= KMaxDeks
    BY DEF KShape
  <1>3. \A p \in KPCs, l \in BOOLEAN, d \in Nat :
            n(p, l, d) \in Threads /\ n(p, l, d).dek = d /\ n(p, l, d).key = k
    BY <1>1 DEF Threads
  <1>4. CASE KRemove(t)
    <2>1. kcached' = kcached \ {k} /\ UNCHANGED << kclock, kentry, kdeks >>
      BY <1>4 DEF KRemove
    <2>2. PICK p \in KPCs : kthread' = [kthread EXCEPT ![t] = n(p, kthread[t].locked, kthread[t].dek)]
      BY <1>1, <1>4 DEF KRemove, KGoto, KNow, KAfterMiss, KPCs
    <2> DEFINE m == n(p, kthread[t].locked, kthread[t].dek)
    <2>3. m \in Threads /\ m.dek = kthread[t].dek /\ m.key = k
      BY <1>1, <1>3
    <2>3a. kthread' = [kthread EXCEPT ![t] = m]
      BY <2>2
    <2> HIDE DEF m, n
    <2>4. IsFiniteSet(kcached') /\ Cardinality(kcached') <= Cardinality(kcached)
      <3>1. kcached' \in SUBSET kcached
        BY <2>1
      <3> QED
        BY <1>1, <3>1, FS_Subset
    <2>5. Cardinality(kcached') \in Nat /\ Cardinality(kcached) \in Nat
      BY <1>1, <2>4, FS_CardinalityType
    <2>6. Cardinality(kcached') <= KCacheSize
      BY <1>1, <2>4, <2>5
    <2>7. \A x \in KKeys : kentry'[x].dek <= kdeks'[x] /\ kdeks'[x] <= KMaxDeks /\ kdeks[x] <= kdeks'[x]
      BY <1>1, <1>2, <2>1
    <2>8. kdeks' \in [KKeys -> Nat] /\ m.dek <= kdeks'[m.key]
      BY <1>1, <2>1, <2>3
    <2> QED
      BY <2>1, <2>2, <2>3, <2>4, <2>6, <2>7, <2>8, <2>3a, KShapeStep
  <1>5. CASE GenerateDataKey(t)
    <2>1. /\ UNCHANGED << kclock, kcached, kentry >> /\ kdeks[k] < KMaxDeks
          /\ kdeks' = [kdeks EXCEPT ![k] = kdeks[k] + 1]
          /\ kthread' = [kthread EXCEPT ![t] = n("set", kthread[t].locked, kdeks[k] + 1)]
      BY <1>5 DEF GenerateDataKey, KNow
    <2>2. kdeks[k] \in Nat /\ kdeks[k] + 1 \in Nat /\ "set" \in KPCs
      BY <1>1 DEF KPCs
    <2> DEFINE m == n("set", kthread[t].locked, kdeks[k] + 1)
    <2>3. m \in Threads /\ m.dek = kdeks[k] + 1 /\ m.key = k
      BY <1>1, <1>3, <2>2
    <2>3a. kthread' = [kthread EXCEPT ![t] = m]
      BY <2>1
    <2> HIDE DEF m, n
    <2>4. kdeks' \in [KKeys -> Nat] /\ m.dek <= kdeks'[m.key]
      BY <1>1, <2>1, <2>2, <2>3
    <2>5. \A x \in KKeys : kentry'[x].dek <= kdeks'[x] /\ kdeks'[x] <= KMaxDeks /\ kdeks[x] <= kdeks'[x]
      BY <1>1, <1>2, <2>1
    <2>6. IsFiniteSet(kcached') /\ Cardinality(kcached') <= KCacheSize
      BY <1>1, <2>1
    <2> QED
      BY <2>1, <2>3, <2>4, <2>5, <2>6, <2>3a, KShapeStep
  <1>6. CASE KSet(t)
    <2>1. /\ UNCHANGED << kclock, kdeks >> /\ kcached' \in KKeysAfterAdd(k)
          /\ kentry' = [kentry EXCEPT ![k] = [dek |-> kthread[t].dek, exp |-> kclock + KTTL]]
          /\ kthread' = [kthread EXCEPT ![t] = n("done", FALSE, kthread[t].dek)]
      BY <1>6 DEF KSet, KReturn, KNow
    <2>2. "done" \in KPCs
      BY DEF KPCs
    <2> DEFINE m == n("done", FALSE, kthread[t].dek)
    <2>3. m \in Threads /\ m.dek = kthread[t].dek /\ m.key = k
      BY <1>1, <1>3, <2>2
    <2>3a. kthread' = [kthread EXCEPT ![t] = m]
      BY <2>1
    <2> HIDE DEF m, n
    <2>4. IsFiniteSet(kcached') /\ Cardinality(kcached') <= KCacheSize
      <3>1. CASE Cardinality(kcached \cup {k}) <= KCacheSize
        <4>1. kcached' = kcached \cup {k}
          BY <2>1, <3>1 DEF KKeysAfterAdd
        <4> QED
          BY <1>1, <3>1, <4>1, FS_AddElement
      <3>2. CASE ~ (Cardinality(kcached \cup {k}) <= KCacheSize)
        <4>1. PICK v \in kcached : kcached' = (kcached \ {v}) \cup {k}
          BY <2>1, <3>2 DEF KKeysAfterAdd
        <4> QED
          BY <1>1, <4>1, RoomMade
      <3> QED
        BY <3>1, <3>2
    <2>5. \A x \in KKeys : kentry'[x].dek = IF x = k THEN kthread[t].dek ELSE kentry[x].dek
      BY <1>1, <2>1
    <2>6. \A x \in KKeys : kentry'[x].dek <= kdeks'[x] /\ kdeks'[x] <= KMaxDeks /\ kdeks[x] <= kdeks'[x]
      BY <1>1, <1>2, <2>1, <2>5
    <2>7. kdeks' \in [KKeys -> Nat] /\ m.dek <= kdeks'[m.key]
      BY <1>1, <2>1, <2>3
    <2> QED
      BY <2>1, <2>3, <2>4, <2>6, <2>7, <2>3a, KShapeStep
  <1> QED
    BY <1>4, <1>5, <1>6

\* Every step keeps the capacity and the numbers.
LEMMA KShapeNext == KInv /\ KShape /\ [KNext]_kvars => KShape'
  <1> SUFFICES ASSUME KInv, KShape, [KNext]_kvars PROVE KShape'
    OBVIOUS
  <1>1. CASE KTick
    <2>1. kclock \in Int /\ kclock >= 0 /\ kclock < KMaxTime /\ KMaxTime \in Nat /\ kclock' = kclock + 1
      BY <1>1, KAssumption DEF KTick, KShape
    <2>2. UNCHANGED << kcached, kentry, kthread, kdeks >>
      BY <1>1 DEF KTick
    <2> QED
      BY <2>1, <2>2 DEF KShape
  <1>2. ASSUME NEW t \in KThreads, KStep(t) PROVE KShape'
    BY <1>2, KShapeLook, KShapeChange DEF KStep
  <1>3. ASSUME NEW t \in KThreads, NEW k \in KKeys, GetOrGenerate(t, k) PROVE KShape'
    <2>1. PICK n \in Threads : kthread' = [kthread EXCEPT ![t] = n] /\ n.dek = 0 /\ n.key = k
      <3> DEFINE n == [pc |-> "get", key |-> k, locked |-> FALSE, dek |-> 0]
      <3>1. n \in Threads /\ n.dek = 0 /\ n.key = k
        BY DEF Threads, KPCs
      <3>2. kthread' = [kthread EXCEPT ![t] = n]
        BY <1>3 DEF GetOrGenerate
      <3> HIDE DEF n
      <3> QED
        BY <3>1, <3>2
    <2>2. UNCHANGED << kclock, kcached, kentry, kdeks >> /\ kdeks \in [KKeys -> Nat]
      BY <1>3 DEF GetOrGenerate, KInv, KTypes
    <2>3. \A x \in KKeys : kentry'[x].dek <= kdeks'[x] /\ kdeks'[x] <= KMaxDeks /\ kdeks[x] <= kdeks'[x]
      BY <2>2 DEF KShape
    <2> QED
      BY <2>1, <2>2, <2>3, KShapeStep DEF KShape
  <1>4. CASE UNCHANGED kvars
    BY <1>4 DEF kvars, KShape
  <1> QED
    BY <1>1, <1>2, <1>3, <1>4 DEF KNext

\* For any goroutines, batches, capacity and lifetime, a batch gets a second data
\* key while its first is in force only if the first left the cache early, the
\* mutex has one holder and the LRU keeps within its capacity
\* (BatchCache.GetOrGenerate: the lock and the second look; BatchCache.Set).
THEOREM OneKeyHolds == KSpec => []KeysSound
  <1>1. KInv /\ KShape => KeysSound
    <2> SUFFICES ASSUME KInv, KShape PROVE KeysSound
      OBVIOUS
    <2>1. Cardinality(kmu) <= 1
      <3>1. CASE kmu = {}
        BY <3>1, FS_EmptySet
      <3>2. CASE kmu # {}
        <4>1. PICK t : kmu = {t}
          BY <3>2 DEF KInv, Exclusive
        <4> QED
          BY <4>1, FS_Singleton
      <3> QED
        BY <3>1, <3>2
    <2>2. \A k \in KKeys : kentry[k].dek \in 0 .. kdeks[k] /\ kdeks[k] \in 0 .. KMaxDeks
      <3> SUFFICES ASSUME NEW k \in KKeys
                   PROVE  kentry[k].dek \in 0 .. kdeks[k] /\ kdeks[k] \in 0 .. KMaxDeks
        OBVIOUS
      <3>1. kentry[k].dek \in Nat /\ kdeks[k] \in Nat /\ KMaxDeks \in Nat
        BY KAssumption DEF KInv, KTypes
      <3> QED
        BY <3>1 DEF KShape
    <2>3. kcached \subseteq KKeys /\ kmu \subseteq KThreads /\ OneKeyPerBatch
      BY DEF KInv, KTypes
    <2> QED
      BY <2>1, <2>2, <2>3 DEF KeysSound, KTypeOK, KShape
  <1> QED
    BY <1>1, KInitInv, KNextInv, KShapeInit, KShapeNext, PTL DEF KSpec

-----------------------------------------------------------------------------
(* Vended credentials                                                      *)

VPCs == {"idle", "row", "lookup", "issue", "remove", "add", "done"}
VCodes == {0, 200, 404, 501, 503}

Request == [pc : VPCs, tenant : VTenants, cat : VCatalogs, table : VTables, region : VRegions,
            status : VCodes, creds : SUBSET Creds, spent : Int, left : Int]

\* Credentials c were issued for tenant, table and region of x.
IssuedFor(c, x) == c.tenant = x.tenant /\ c.table = x.table /\ c.region = x.region

\* An entry e under key k at time now.
VEntryOK(k, e, now) ==
    /\ e.creds \in Creds /\ e.at \in 1 .. now
    /\ << e.creds.tenant, e.creds.table, e.creds.region >> = k

\* What a request holds fits its state.
VReqOK(q) ==
    /\ \A c \in q.creds : IssuedFor(c, q)
    /\ q.left >= q.spent
    /\ q.pc # "done" => q.status = 0
    /\ q.pc \notin {"add", "done"} => q.creds = {}
    /\ q.pc = "add" => q.creds # {}
    /\ q.pc = "done" => q.status # 0 /\ (q.creds # {} <=> q.status = 200)

VKeys == VTenants \X VTables \X VRegions

VCacheOK ==
    /\ vclock \in 1 .. VMaxTime
    /\ DOMAIN ventry \subseteq VKeys
    /\ IsFiniteSet(DOMAIN ventry) /\ Cardinality(DOMAIN ventry) <= VCacheSize
    /\ \A k \in DOMAIN ventry : VEntryOK(k, ventry[k], vclock)

VInv ==
    /\ VCacheOK
    /\ vreq \in [VRequests -> Request]
    /\ \A r \in VRequests : VReqOK(vreq[r])

\* A request as it starts.
LEMMA NewRequestOK ==
    ASSUME NEW t \in VTenants, NEW c \in VCatalogs, NEW tab \in VTables, NEW g \in VRegions
    PROVE  NewRequest(t, c, tab, g) \in Request /\ VReqOK(NewRequest(t, c, tab, g))
  BY DEF NewRequest, Request, VReqOK, VPCs, VCodes

\* Initially nothing is cached and no request is under way.
LEMMA VInitInv == VInit => VInv
  <1> SUFFICES ASSUME VInit PROVE VInv
    OBVIOUS
  <1>1. IsFiniteSet({}) /\ Cardinality({}) = 0
    BY FS_EmptySet
  <1>2. VCacheSize \in Nat \ {0} /\ VMaxTime \in Nat \ {0}
    BY VAssumption
  <1>3. DOMAIN ventry = {}
    BY DEF VInit
  <1>4. VCacheOK
    BY <1>1, <1>2, <1>3 DEF VInit, VCacheOK
  <1>5. VTenants # {} /\ VCatalogs # {} /\ VTables # {} /\ VRegions # {}
    BY VAssumption
  <1>6. PICK t \in VTenants, c \in VCatalogs, tab \in VTables, g \in VRegions :
            VIdle = [NewRequest(t, c, tab, g) EXCEPT !.pc = "idle"]
    BY <1>5 DEF VIdle
  <1>7. VIdle \in Request /\ VReqOK(VIdle)
    BY <1>6 DEF NewRequest, Request, VReqOK, VPCs, VCodes
  <1> QED
    BY <1>4, <1>7 DEF VInit, VInv

\* What a step of one request has to show.
LEMMA VStep ==
    ASSUME VInv, NEW r \in VRequests, NEW z \in Request,
           vreq' = [vreq EXCEPT ![r] = z], VReqOK(z), VCacheOK'
    PROVE  VInv'
  BY DEF VInv

\* The answer with an error.
LEMMA RespondOK ==
    ASSUME VInv, NEW r \in VRequests, NEW s \in VCodes \ {0, 200},
           vreq[r].pc \in {"row", "lookup", "issue"}, Respond(r, s), VCacheOK'
    PROVE  VInv'
  <1> DEFINE z == [vreq[r] EXCEPT !.pc = "done", !.status = s]
  <1>1. vreq[r] \in Request /\ VReqOK(vreq[r])
    BY DEF VInv
  <1>2. vreq' = [vreq EXCEPT ![r] = z]
    BY DEF Respond
  <1>3. /\ z \in Request /\ z.pc = "done" /\ z.status = s /\ z.creds = vreq[r].creds
        /\ z.left = vreq[r].left /\ z.spent = vreq[r].spent
    BY <1>1 DEF Request, VPCs
  <1> HIDE DEF z
  <1>4. vreq[r].creds = {} /\ vreq[r].left >= vreq[r].spent
    BY <1>1 DEF VReqOK
  <1>5. VReqOK(z)
    BY <1>3, <1>4 DEF VReqOK
  <1> QED
    BY <1>2, <1>3, <1>5, VStep

\* A step to another state of a request that holds no credentials.
LEMMA GotoOK ==
    ASSUME VInv, NEW r \in VRequests, NEW p \in {"lookup", "issue", "remove"},
           vreq[r].pc \in {"row", "lookup", "remove"}, VGoto(r, p), VCacheOK'
    PROVE  VInv'
  <1> DEFINE z == [vreq[r] EXCEPT !.pc = p]
  <1>1. vreq[r] \in Request /\ VReqOK(vreq[r])
    BY DEF VInv
  <1>2. vreq' = [vreq EXCEPT ![r] = z]
    BY DEF VGoto
  <1>3. /\ z \in Request /\ z.pc = p /\ z.status = vreq[r].status /\ z.creds = vreq[r].creds
        /\ z.left = vreq[r].left /\ z.spent = vreq[r].spent
    BY <1>1 DEF Request, VPCs
  <1> HIDE DEF z
  <1>4. vreq[r].creds = {} /\ vreq[r].left >= vreq[r].spent /\ vreq[r].status = 0
    BY <1>1 DEF VReqOK
  <1>5. VReqOK(z)
    BY <1>3, <1>4 DEF VReqOK
  <1> QED
    BY <1>2, <1>3, <1>5, VStep

\* Cache.Get returns an entry only in the first half of its life in the cache.
LEMMA FreshHalf ==
    ASSUME NEW now \in Int, NEW at \in Int, NEW exp \in Int, at <= now,
           now <= exp, now <= at + (exp - at) \div 2
    PROVE  exp - now >= now - at
  OBVIOUS

\* A step that leaves cache and clock alone keeps the cache sound.
LEMMA VSameCache ==
    ASSUME VInv, UNCHANGED << vclock, ventry >>
    PROVE  VCacheOK'
  BY DEF VInv, VCacheOK

\* Time passes: an entry stays stamped with a time that has been.
LEMMA VTickOK == VInv /\ VTick => VInv'
  <1> SUFFICES ASSUME VInv, VTick PROVE VInv'
    OBVIOUS
  <1>1. VMaxTime \in Nat /\ vclock \in 1 .. VMaxTime
    BY VAssumption DEF VInv, VCacheOK
  <1>2. vclock' \in 1 .. VMaxTime /\ vclock <= vclock' /\ vclock \in Int /\ vclock' \in Int
    BY <1>1 DEF VTick
  <1>3. ASSUME NEW k \in DOMAIN ventry PROVE VEntryOK(k, ventry[k], vclock')
    <2>1. VEntryOK(k, ventry[k], vclock)
      BY <1>3 DEF VInv, VCacheOK
    <2> QED
      BY <2>1, <1>2 DEF VEntryOK
  <1>4. ventry' = ventry /\ vreq' = vreq
    BY DEF VTick
  <1> QED
    BY <1>2, <1>3, <1>4 DEF VInv, VCacheOK

\* A request arrives, and the row of its catalog is read.
LEMMA VArriveOK ==
    ASSUME VInv, NEW r \in VRequests,
           \/ \E t \in VTenants, c \in VCatalogs, tab \in VTables, g \in VRegions :
                IssueSTS(r, t, c, tab, g)
           \/ GetCatalogCredentials(r)
    PROVE  VInv'
  <1>1. VCacheOK'
    BY VSameCache DEF IssueSTS, GetCatalogCredentials
  <1>2. CASE \E t \in VTenants, c \in VCatalogs, tab \in VTables, g \in VRegions :
                IssueSTS(r, t, c, tab, g)
    <2>1. PICK t \in VTenants, c \in VCatalogs, tab \in VTables, g \in VRegions :
                IssueSTS(r, t, c, tab, g)
      BY <1>2
    <2> DEFINE z == NewRequest(t, c, tab, g)
    <2>2. z \in Request /\ VReqOK(z)
      BY NewRequestOK
    <2>3. vreq' = [vreq EXCEPT ![r] = z]
      BY <2>1 DEF IssueSTS
    <2> HIDE DEF z
    <2> QED
      BY <1>1, <2>2, <2>3, VStep
  <1>3. CASE GetCatalogCredentials(r)
    <2>1. vreq[r].pc \in {"row", "lookup", "issue"} /\ vreq[r].pc \in {"row", "lookup", "remove"}
      BY <1>3 DEF GetCatalogCredentials
    <2>2. 404 \in VCodes \ {0, 200} /\ 503 \in VCodes \ {0, 200}
      BY DEF VCodes
    <2>3. CASE VGoto(r, "lookup")
      BY <1>1, <2>1, <2>3, GotoOK
    <2>4. CASE Respond(r, 404)
      BY <1>1, <2>1, <2>2, <2>4, RespondOK
    <2>5. CASE Respond(r, 503)
      BY <1>1, <2>1, <2>2, <2>5, RespondOK
    <2> QED
      BY <1>3, <2>3, <2>4, <2>5 DEF GetCatalogCredentials
  <1> QED
    BY <1>2, <1>3

\* The entry under the key of a request holds credentials issued for it.
LEMMA KeyFits ==
    ASSUME NEW q, NEW e, NEW now, VEntryOK(Key(q), e, now)
    PROVE  e.creds \in Creds /\ e.at \in 1 .. now /\ IssuedFor(e.creds, q)
  BY DEF VEntryOK, Key, IssuedFor

\* The lookup: a hit answers with what the entry holds.
LEMMA CacheGetOK == \A r \in VRequests : VInv /\ CacheGet(r) => VInv'
  <1> SUFFICES ASSUME NEW r \in VRequests, VInv, CacheGet(r) PROVE VInv'
    OBVIOUS
  <1> DEFINE k == Key(vreq[r])
             e == ventry[k]
  <1>1. VCacheOK'
    BY VSameCache DEF CacheGet
  <1>2. vreq[r].pc = "lookup"
    BY DEF CacheGet
  <1>3. CASE VGoto(r, "issue") \/ VGoto(r, "remove")
    BY <1>1, <1>2, <1>3, GotoOK
  <1>4. CASE /\ k \in DOMAIN ventry /\ Fresh(e)
             /\ vreq' = [vreq EXCEPT ![r].pc = "done", ![r].status = 200, ![r].creds = {e.creds},
                                     ![r].spent = vclock - e.at, ![r].left = e.creds.exp - vclock]
    <2> DEFINE z == [vreq[r] EXCEPT !.pc = "done", !.status = 200, !.creds = {e.creds},
                                    !.spent = vclock - e.at, !.left = e.creds.exp - vclock]
    <2>1. vreq' = [vreq EXCEPT ![r] = z]
      BY <1>4
    <2>2. vreq[r] \in Request
      BY DEF VInv
    <2>3. VEntryOK(k, e, vclock) /\ vclock \in 1 .. VMaxTime /\ VMaxTime \in Nat
      BY <1>4, VAssumption DEF VInv, VCacheOK
    <2>4. e.creds \in Creds /\ e.at \in 1 .. vclock /\ IssuedFor(e.creds, vreq[r])
      BY <2>3, KeyFits
    <2>5. e.creds.exp \in Nat
      BY <2>4 DEF Creds
    <2>6. vclock <= e.creds.exp /\ vclock <= e.at + (e.creds.exp - e.at) \div 2
      BY <1>4 DEF Fresh
    <2>7. vclock \in Int /\ e.at \in Int /\ e.at <= vclock
      BY <2>3, <2>4
    <2>8. e.creds.exp - vclock >= vclock - e.at /\ e.creds.exp - vclock \in Int /\ vclock - e.at \in Int
      BY <2>5, <2>6, <2>7, FreshHalf
    <2> HIDE DEF e, k
    <2>9. /\ z.pc = "done" /\ z.status = 200 /\ z.creds = {e.creds} /\ z.spent = vclock - e.at
          /\ z.left = e.creds.exp - vclock
          /\ z.tenant = vreq[r].tenant /\ z.table = vreq[r].table /\ z.region = vreq[r].region
      BY <2>2 DEF Request
    <2>10. z \in Request
      <3>1. 200 \in VCodes /\ "done" \in VPCs /\ {e.creds} \in SUBSET Creds
        BY <2>4 DEF VCodes, VPCs
      <3> QED
        BY <2>2, <2>8, <3>1 DEF Request
    <2> HIDE DEF z
    <2>11. VReqOK(z)
      BY <2>4, <2>8, <2>9 DEF VReqOK, IssuedFor
    <2> QED
      BY <1>1, <2>1, <2>10, <2>11, VStep
  <1> QED
    BY <1>3, <1>4 DEF CacheGet

\* The removal of a stale entry, or of whatever took its place.
LEMMA CacheRemoveOK == \A r \in VRequests : VInv /\ CacheRemove(r) => VInv'
  <1> SUFFICES ASSUME NEW r \in VRequests, VInv, CacheRemove(r) PROVE VInv'
    OBVIOUS
  <1> DEFINE left == DOMAIN ventry \ {Key(vreq[r])}
  <1>1. ventry' = [k \in left |-> ventry[k]] /\ vclock' = vclock /\ vreq[r].pc = "remove" /\ VGoto(r, "issue")
    BY DEF CacheRemove, Holding
  <1>2. VCacheOK
    BY DEF VInv
  <1>3. left \subseteq DOMAIN ventry
    OBVIOUS
  <1>4. IsFiniteSet(left) /\ Cardinality(left) <= Cardinality(DOMAIN ventry)
    BY <1>2, <1>3, FS_Subset DEF VCacheOK
  <1>5. Cardinality(left) \in Nat /\ Cardinality(DOMAIN ventry) \in Nat /\ VCacheSize \in Nat
    BY <1>2, <1>4, FS_CardinalityType, VAssumption DEF VCacheOK
  <1> HIDE DEF left
  <1>6. DOMAIN ventry' = left /\ \A k \in left : ventry'[k] = ventry[k]
    BY <1>1
  <1>7. VCacheOK'
    BY <1>1, <1>2, <1>3, <1>4, <1>5, <1>6 DEF VCacheOK
  <1> QED
    BY <1>1, <1>7, GotoOK

\* The upstream call: what the catalog vends is scoped to the request.
LEMMA IssueOK == \A r \in VRequests : VInv /\ Issue(r) => VInv'
  <1> SUFFICES ASSUME NEW r \in VRequests, VInv, Issue(r) PROVE VInv'
    OBVIOUS
  <1>1. VCacheOK' /\ vreq[r].pc = "issue"
    BY VSameCache DEF Issue
  <1>2. CASE Respond(r, 503) \/ Respond(r, 501)
    <2>1. 501 \in VCodes \ {0, 200} /\ 503 \in VCodes \ {0, 200}
      BY DEF VCodes
    <2> QED
      BY <1>1, <1>2, <2>1, RespondOK
  <1>3. ASSUME NEW exp \in {0} \cup {vclock + d : d \in VTTL},
               vreq' = [vreq EXCEPT ![r].pc = "add",
                 ![r].creds = {[tenant |-> vreq[r].tenant, cat |-> vreq[r].cat, table |-> vreq[r].table,
                                region |-> vreq[r].region, exp |-> exp]}]
        PROVE  VInv'
    <2> DEFINE c == [tenant |-> vreq[r].tenant, cat |-> vreq[r].cat, table |-> vreq[r].table,
                     region |-> vreq[r].region, exp |-> exp]
               z == [vreq[r] EXCEPT !.pc = "add", !.creds = {c}]
    <2>1. vreq' = [vreq EXCEPT ![r] = z]
      BY <1>3
    <2>2. vreq[r] \in Request /\ VReqOK(vreq[r])
      BY DEF VInv
    <2>3. vclock \in Nat
      BY VAssumption DEF VInv, VCacheOK
    <2>4. exp \in Nat
      BY <1>3, <2>3, VAssumption
    <2>5. c \in Creds /\ IssuedFor(c, vreq[r])
      BY <2>2, <2>4 DEF Creds, Request, IssuedFor
    <2> HIDE DEF c
    <2>6. /\ z.pc = "add" /\ z.status = vreq[r].status /\ z.creds = {c}
          /\ z.spent = vreq[r].spent /\ z.left = vreq[r].left
          /\ z.tenant = vreq[r].tenant /\ z.table = vreq[r].table /\ z.region = vreq[r].region
      BY <2>2 DEF Request
    <2>7. z \in Request
      BY <2>2, <2>5 DEF Request, VPCs
    <2> HIDE DEF z
    <2>8. vreq[r].status = 0 /\ vreq[r].left >= vreq[r].spent
      BY <1>1, <2>2 DEF VReqOK
    <2>9. VReqOK(z)
      BY <2>5, <2>6, <2>8 DEF VReqOK, IssuedFor
    <2> QED
      BY <1>1, <2>1, <2>7, <2>9, VStep
  <1> QED
    BY <1>2, <1>3 DEF Issue

\* The keys left when room was made, with the key that is added, fit.
LEMMA RoomForOK ==
    ASSUME VCacheOK, NEW k \in VKeys, NEW kept \in RoomFor(k)
    PROVE  /\ kept \subseteq DOMAIN ventry
           /\ IsFiniteSet(kept \cup {k}) /\ Cardinality(kept \cup {k}) <= VCacheSize
  <1>1. IsFiniteSet(DOMAIN ventry) /\ Cardinality(DOMAIN ventry) <= VCacheSize /\ VCacheSize \in Nat
    BY VAssumption DEF VCacheOK
  <1>2. CASE Cardinality(DOMAIN ventry \cup {k}) <= VCacheSize
    <2>1. kept = DOMAIN ventry
      BY <1>2 DEF RoomFor
    <2> QED
      BY <1>1, <1>2, <2>1, FS_AddElement
  <1>3. CASE ~(Cardinality(DOMAIN ventry \cup {k}) <= VCacheSize)
    <2>1. PICK v \in DOMAIN ventry : kept = DOMAIN ventry \ {v}
      BY <1>3 DEF RoomFor
    <2> QED
      BY <1>1, <2>1, RoomMade
  <1> QED
    BY <1>2, <1>3

\* The fill stamps the new entry with the present.
LEMMA CacheAddOK == \A r \in VRequests : VInv /\ CacheAdd(r) => VInv'
  <1> SUFFICES ASSUME NEW r \in VRequests, VInv, CacheAdd(r) PROVE VInv'
    OBVIOUS
  <1> DEFINE k == Key(vreq[r])
  <1>1. vreq[r].pc = "add" /\ vclock' = vclock /\ Respond(r, 200)
    BY DEF CacheAdd
  <1>2. PICK kept \in RoomFor(k), c \in vreq[r].creds :
            ventry' = [x \in kept \cup {k} |-> IF x = k THEN [creds |-> c, at |-> vclock] ELSE ventry[x]]
    BY DEF CacheAdd
  <1>3. vreq[r] \in Request /\ VReqOK(vreq[r]) /\ VCacheOK
    BY DEF VInv
  <1>4. c \in Creds /\ IssuedFor(c, vreq[r])
    BY <1>3 DEF Request, VReqOK
  <1>5. k \in VKeys /\ << c.tenant, c.table, c.region >> = k
    BY <1>3, <1>4 DEF Key, VKeys, Request, IssuedFor
  <1>6. vclock \in 1 .. vclock
    BY <1>3, VAssumption DEF VCacheOK
  <1> DEFINE e == [creds |-> c, at |-> vclock]
  <1>7. VEntryOK(k, e, vclock)
    BY <1>4, <1>5, <1>6 DEF VEntryOK
  <1>8. /\ kept \subseteq DOMAIN ventry
        /\ IsFiniteSet(kept \cup {k}) /\ Cardinality(kept \cup {k}) <= VCacheSize
    BY <1>3, <1>5, RoomForOK
  <1> HIDE DEF e, k
  <1>9. ventry' = [x \in kept \cup {k} |-> IF x = k THEN e ELSE ventry[x]]
    BY <1>2 DEF e, k
  <1>10. DOMAIN ventry' = kept \cup {k}
    BY <1>9
  <1>11. ASSUME NEW x \in DOMAIN ventry' PROVE VEntryOK(x, ventry'[x], vclock')
    <2>1. CASE x = k
      BY <1>1, <1>7, <1>9, <1>10, <2>1
    <2>2. CASE x # k
      <3>1. x \in DOMAIN ventry /\ ventry'[x] = ventry[x]
        BY <1>8, <1>9, <1>10, <1>11, <2>2
      <3> QED
        BY <1>1, <1>3, <3>1 DEF VCacheOK
    <2> QED
      BY <2>1, <2>2
  <1>12. VCacheOK'
    BY <1>1, <1>3, <1>5, <1>8, <1>10, <1>11 DEF VCacheOK
  <1> DEFINE z == [vreq[r] EXCEPT !.pc = "done", !.status = 200]
  <1>13. vreq' = [vreq EXCEPT ![r] = z]
    BY <1>1 DEF Respond
  <1>14. /\ z.pc = "done" /\ z.status = 200 /\ z.creds = vreq[r].creds
         /\ z.spent = vreq[r].spent /\ z.left = vreq[r].left
         /\ z.tenant = vreq[r].tenant /\ z.table = vreq[r].table /\ z.region = vreq[r].region
    BY <1>3 DEF Request
  <1>15. z \in Request
    <2>1. 200 \in VCodes /\ "done" \in VPCs
      BY DEF VCodes, VPCs
    <2> QED
      BY <1>3, <2>1 DEF Request
  <1> HIDE DEF z
  <1>16. VReqOK(z)
    BY <1>1, <1>3, <1>14 DEF VReqOK, IssuedFor
  <1> QED
    BY <1>12, <1>13, <1>15, <1>16, VStep

\* Every step of the vending endpoint keeps the invariant.
LEMMA VNextInv == VInv /\ [VNext]_vvars => VInv'
  <1> SUFFICES ASSUME VInv, [VNext]_vvars PROVE VInv'
    OBVIOUS
  <1>1. CASE VTick
    BY <1>1, VTickOK
  <1>2. CASE \E r \in VRequests :
               \/ \E t \in VTenants, c \in VCatalogs, tab \in VTables, g \in VRegions :
                    IssueSTS(r, t, c, tab, g)
               \/ GetCatalogCredentials(r)
    BY <1>2, VArriveOK
  <1>3. CASE \E r \in VRequests : CacheGet(r) \/ CacheRemove(r) \/ Issue(r) \/ CacheAdd(r)
    BY <1>3, CacheGetOK, CacheRemoveOK, IssueOK, CacheAddOK
  <1>4. CASE UNCHANGED vvars
    BY <1>4 DEF vvars, VInv, VCacheOK
  <1> QED
    BY <1>1, <1>2, <1>3, <1>4 DEF VNext

\* The invariant gives what the vending endpoint promises.
LEMMA VInvSound == VInv => CredentialsSound
  <1> SUFFICES ASSUME VInv PROVE CredentialsSound
    OBVIOUS
  <1>1. \A k \in DOMAIN ventry : ventry[k].creds \in Creds /\ ventry[k].at \in 1 .. vclock
    BY DEF VInv, VCacheOK, VEntryOK
  <1>2. ASSUME NEW r \in VRequests
        PROVE  /\ vreq[r].status \in {0, 200, 404, 501, 503}
               /\ vreq[r].pc = "done" =>
                    vreq[r].status # 0 /\ (vreq[r].creds # {} <=> vreq[r].status = 200)
               /\ \A c \in vreq[r].creds : IssuedFor(c, vreq[r])
               /\ vreq[r].left >= vreq[r].spent
    <2>1. vreq[r] \in Request /\ VReqOK(vreq[r])
      BY DEF VInv
    <2>2. vreq[r].status \in VCodes
      BY <2>1 DEF Request
    <2>3. vreq[r].status \in {0, 200, 404, 501, 503}
      BY <2>2 DEF VCodes
    <2> QED
      BY <2>1, <2>3 DEF VReqOK
  <1>3. VTypeOK
    BY <1>1, <1>2 DEF VInv, VCacheOK, VTypeOK, VKeys
  <1>4. OwnCredentials /\ HalfLifeLeft
    BY <1>2 DEF OwnCredentials, HalfLifeLeft, IssuedFor
  <1> QED
    BY <1>3, <1>4 DEF CredentialsSound

\* Credentials reach the tenant, table and region they were issued for with
\* half of their life in the cache ahead of them, and the cache keeps within its
\* capacity, whatever the interleaving of lookups, removals, upstream calls and
\* fills (internal/credvend/cache.go, service.go).
THEOREM CredentialsHold == VSpec => []CredentialsSound
  <1>1. VSpec => []VInv
    BY VInitInv, VNextInv, PTL DEF VSpec
  <1> QED
    BY <1>1, VInvSound, PTL

-----------------------------------------------------------------------------
(* Reloaded files: a generation never comes back                           *)

\* Generation c is not ahead of d, unless the file of d is gone.
NotAfter(c, d) == d = Missing \/ c.gen <= d.gen

\* For path p: what is loaded (ld) is not ahead of what is being read (rd), which
\* is not ahead of what is in the file (f), which is not ahead of the rotation
\* under way (t).
OrderAt(p, f, rd, ld, t) ==
    /\ f[p].gen <= t
    /\ p \in DOMAIN rd => rd[p].gen <= t /\ NotAfter(rd[p], f[p])
    /\ ld # << >> => /\ ld[p].gen <= t /\ NotAfter(ld[p], f[p])
                     /\ p \in DOMAIN rd => NotAfter(ld[p], rd[p])

HOrder == \A p \in Paths : OrderAt(p, hfile, hread, hloaded, htarget)

\* A manifest in use was verified when it was loaded.
HLicensed == hkind = "license" /\ hloaded # << >> => hloaded["manifest"].gen \in HSigned

HInv ==
    /\ hkind \in {"license", "cert"}
    /\ HTypeOK /\ HOrder /\ HLicensed /\ PairMatches /\ NoGrantPastGrace

\* A watcher keeps to its own files.
LEMMA PathsSame == hkind' = hkind => Paths' = Paths
  BY DEF Paths

\* A generation is a natural number, and only a missing file has generation 0.
LEMMA ContentsGen ==
    ASSUME NEW c \in Contents
    PROVE  c.gen \in Nat /\ (c # Missing => c.gen \in 1 .. HMaxGen)
  BY HAssumption DEF Contents, Missing

\* Initially the first generation is on disk and nothing is in use.
LEMMA HInitInv == HInit => HInv
  <1> SUFFICES ASSUME HInit PROVE HInv
    OBVIOUS
  <1>1. HMaxGen \in Nat \ {0} /\ HMaxTime \in Nat
    BY HAssumption
  <1>2. [gen |-> 1, state |-> "whole"] \in Contents
    BY <1>1 DEF Contents
  <1>3. hclock \in 0 .. HMaxTime /\ htarget \in 1 .. HMaxGen
    BY <1>1 DEF HInit
  <1>4. hfile \in [Paths -> Contents] /\ \A p \in Paths : hfile[p].gen = 1
    BY <1>2 DEF HInit
  <1>5. DOMAIN hread = {} /\ hread \in [DOMAIN hread -> Contents]
    BY DEF HInit
  <1>6. HTypeOK
    BY <1>3, <1>4, <1>5 DEF HInit, HTypeOK
  <1>7. HOrder
    BY <1>4, <1>5 DEF HInit, HOrder, OrderAt
  <1> QED
    BY <1>6, <1>7 DEF HInit, HInv, HLicensed, PairMatches, NoGrantPastGrace

\* The operator's side: a file keeps its content, goes away or takes the
\* generation of the rotation under way.
LEMMA FilesOK ==
    ASSUME HInv, HUntouched, htarget' \in 1 .. HMaxGen, htarget <= htarget',
           hwatched' \subseteq Paths, hevents' \subseteq {"write", "rename"},
           hfile' \in [Paths -> Contents],
           \A p \in Paths : hfile'[p] \in {hfile[p], Missing} \/ hfile'[p].gen = htarget'
    PROVE  HInv'
  <1>1. Paths' = Paths
    BY PathsSame DEF HUntouched
  <1>2. HTypeOK /\ HOrder /\ HMaxGen \in Nat
    BY HAssumption DEF HInv
  <1>3. HTypeOK'
    BY <1>1, <1>2 DEF HTypeOK, HUntouched
  <1>4. htarget \in Nat /\ htarget' \in Nat
    BY <1>2 DEF HTypeOK
  <1>5. ASSUME NEW p \in Paths PROVE OrderAt(p, hfile', hread, hloaded, htarget')
    <2>1. OrderAt(p, hfile, hread, hloaded, htarget)
      BY <1>2 DEF HOrder
    <2>2. hfile[p] \in Contents /\ hfile'[p] \in Contents
      BY <1>2 DEF HTypeOK
    <2>3. hfile[p].gen \in Nat /\ hfile'[p].gen \in Nat /\ Missing.gen = 0
      BY <2>2, ContentsGen DEF Missing
    <2>4. p \in DOMAIN hread => hread[p].gen \in Nat
      BY <1>2, ContentsGen DEF HTypeOK
    <2>5. hloaded # << >> => hloaded[p].gen \in Nat
      BY <1>2, ContentsGen DEF HTypeOK
    <2>6. hfile'[p].gen <= htarget'
      BY <1>4, <2>1, <2>3 DEF OrderAt
    <2>7. ASSUME NEW c, c.gen \in Nat, c.gen <= htarget, NotAfter(c, hfile[p])
          PROVE  c.gen <= htarget' /\ NotAfter(c, hfile'[p])
      BY <1>4, <2>3, <2>7 DEF NotAfter
    <2>8. p \in DOMAIN hread => hread[p].gen <= htarget' /\ NotAfter(hread[p], hfile'[p])
      BY <2>1, <2>4, <2>7 DEF OrderAt
    <2>9. hloaded # << >> => hloaded[p].gen <= htarget' /\ NotAfter(hloaded[p], hfile'[p])
      BY <2>1, <2>5, <2>7 DEF OrderAt
    <2> QED
      BY <2>1, <2>6, <2>8, <2>9 DEF OrderAt
  <1>6. HOrder'
    BY <1>1, <1>5 DEF HOrder, HUntouched
  <1>7. NoGrantPastGrace'
    <2>1. \A g \in HSigned : g \in Nat /\ (g <= htarget => g <= htarget')
      BY <1>2, <1>4, HAssumption
    <2> QED
      BY <2>1 DEF HInv, NoGrantPastGrace, HUntouched
  <1> QED
    BY <1>3, <1>6, <1>7 DEF HInv, HLicensed, PairMatches, HUntouched

\* A rotation starts, or writes or removes a file.
LEMMA RotationOK ==
    ASSUME HInv, StartRotation \/ \E p \in Paths : WriteInPlace(p) \/ RenameOver(p) \/ RemoveFile(p)
    PROVE  HInv'
  <1>1. HTypeOK /\ HMaxGen \in Nat
    BY HAssumption DEF HInv
  <1>2. htarget \in 1 .. HMaxGen /\ hfile \in [Paths -> Contents]
    BY <1>1 DEF HTypeOK
  <1>3. CASE StartRotation
    <2>1. htarget' \in 1 .. HMaxGen /\ htarget <= htarget'
      BY <1>1, <1>2, <1>3 DEF StartRotation
    <2>2. HUntouched /\ hfile' = hfile /\ hwatched' = hwatched /\ hevents' = hevents
      BY <1>3 DEF StartRotation
    <2> QED
      BY <1>1, <1>2, <2>1, <2>2, FilesOK DEF HTypeOK
  <1>4. ASSUME NEW p \in Paths, WriteInPlace(p) \/ RenameOver(p) \/ RemoveFile(p) PROVE HInv'
    <2>1. HUntouched /\ htarget' = htarget /\ hwatched' \in {hwatched, hwatched \ {p}}
      BY <1>4 DEF WriteInPlace, RenameOver, RemoveFile
    <2>2. hevents' \subseteq {"write", "rename"}
      BY <1>1, <1>4 DEF HTypeOK, WriteInPlace, RenameOver, RemoveFile, Notify
    <2>3. PICK c : hfile' = [hfile EXCEPT ![p] = c] /\
                   (c = Missing \/ \E s \in {"cut", "leaf", "whole"} : c = [gen |-> htarget, state |-> s])
      BY <1>4 DEF WriteInPlace, RenameOver, RemoveFile
    <2>4. c \in Contents /\ (c = Missing \/ c.gen = htarget)
      BY <1>2, <2>3 DEF Contents
    <2>5. hfile' \in [Paths -> Contents]
      BY <1>2, <2>3, <2>4
    <2>6. \A x \in Paths : hfile'[x] \in {hfile[x], Missing} \/ hfile'[x].gen = htarget'
      BY <1>2, <2>1, <2>3, <2>4
    <2> QED
      BY <1>1, <1>2, <2>1, <2>2, <2>5, <2>6, FilesOK DEF HTypeOK
  <1> QED
    BY <1>3, <1>4

\* The watcher reads the next file.
LEMMA ReadFileOK == HInv /\ ReadFile => HInv'
  <1> SUFFICES ASSUME HInv, ReadFile PROVE HInv'
    OBVIOUS
  <1>1. Paths' = Paths
    BY PathsSame DEF ReadFile
  <1>2. HTypeOK /\ HOrder /\ hkind \in {"license", "cert"}
    BY DEF HInv
  <1>3. ToRead \in Paths
    BY <1>2 DEF ToRead, Paths
  <1> DEFINE n == ToRead
  <1>4. hread' = [p \in DOMAIN hread \cup {n} |-> IF p = n THEN hfile[p] ELSE hread[p]]
    BY DEF ReadFile
  <1>5. n \in Paths
    BY <1>3
  <1> HIDE DEF n
  <1>6. DOMAIN hread' = DOMAIN hread \cup {n}
    BY <1>4
  <1>7. \A p \in DOMAIN hread' : hread'[p] \in {hfile[p]} \/ (p \in DOMAIN hread /\ hread'[p] = hread[p])
    BY <1>4
  <1>8. \A p \in DOMAIN hread' : hread'[p] \in Contents
    BY <1>2, <1>4, <1>5, <1>6 DEF HTypeOK
  <1>9. hread' \in [DOMAIN hread' -> Contents] /\ DOMAIN hread' \subseteq Paths
    BY <1>2, <1>4, <1>5, <1>6, <1>8 DEF HTypeOK
  <1>10. HTypeOK'
    BY <1>1, <1>2, <1>9 DEF HTypeOK, ReadFile
  <1>11. ASSUME NEW p \in Paths PROVE OrderAt(p, hfile, hread', hloaded, htarget)
    <2>1. OrderAt(p, hfile, hread, hloaded, htarget)
      BY <1>2 DEF HOrder
    <2>2. hfile[p].gen \in Nat
      BY <1>2, ContentsGen DEF HTypeOK
    <2>3. NotAfter(hfile[p], hfile[p])
      BY <2>2 DEF NotAfter
    <2> QED
      BY <1>7, <2>1, <2>3 DEF OrderAt
  <1>12. HOrder'
    BY <1>1, <1>11 DEF HOrder, ReadFile
  <1> QED
    BY <1>10, <1>12 DEF HInv, HLicensed, PairMatches, NoGrantPastGrace, ReadFile

\* What is accepted is readable; a license is signed, a pair matches.
LEMMA AcceptedGood ==
    ASSUME HInv, DOMAIN hread = Paths, Accepted(hread)
    PROVE  /\ hread \in [Paths -> Contents \ {Missing}] /\ hread # << >>
           /\ hkind = "license" => hread["manifest"].gen \in HSigned
           /\ hkind = "cert" => hread["cert"].gen = hread["key"].gen
  <1>1. hread \in [Paths -> Contents] /\ \A p \in Paths : hread[p] # Missing
    BY DEF HInv, HTypeOK, Accepted
  <1>2. Paths # {} /\ DOMAIN << >> = {}
    BY DEF Paths
  <1>3. hread # << >>
    BY <1>2
  <1> QED
    BY <1>1, <1>3 DEF Accepted, Verify, Signed, LoadX509KeyPair

\* A read that was accepted takes effect, any other is dropped.
LEMMA TakeOK ==
    ASSUME HInv, DOMAIN hread = Paths, hread' = << >>,
           \/ Accepted(hread) /\ hloaded' = hread
           \/ hloaded' = hloaded,
           hpc' \in {"start", "wait", "down"}, hpc' = "down" <=> hloaded' = << >>,
           UNCHANGED << hkind, hclock, hfile, htarget, hwatched, hevents, hasked >>
    PROVE  HInv'
  <1>1. Paths' = Paths
    BY PathsSame
  <1>2. HTypeOK /\ HOrder /\ hkind \in {"license", "cert"}
    BY DEF HInv
  <1>3. DOMAIN hread' = {} /\ hread' \in [DOMAIN hread' -> Contents]
    OBVIOUS
  <1>4. hloaded' = << >> \/ hloaded' \in [Paths -> Contents \ {Missing}]
    BY <1>2, AcceptedGood DEF HTypeOK
  <1>5. HTypeOK'
    BY <1>1, <1>2, <1>3, <1>4 DEF HTypeOK
  <1>6. ASSUME NEW p \in Paths PROVE OrderAt(p, hfile, hread', hloaded', htarget)
    <2>1. OrderAt(p, hfile, hread, hloaded, htarget)
      BY <1>2 DEF HOrder
    <2> QED
      BY <1>3, <2>1 DEF OrderAt
  <1>7. HOrder'
    BY <1>1, <1>6 DEF HOrder
  <1>8. HLicensed' /\ PairMatches'
    BY AcceptedGood DEF HInv, HLicensed, PairMatches
  <1> QED
    BY <1>5, <1>7, <1>8 DEF HInv, NoGrantPastGrace

\* The boot loads what it accepts or gives up.
LEMMA BootOK == HInv /\ Boot => HInv'
  <1> SUFFICES ASSUME HInv, Boot PROVE HInv'
    OBVIOUS
  <1>1. hloaded = << >> /\ DOMAIN hread = Paths /\ hread' = << >>
    BY DEF Boot, HInv, HTypeOK
  <1>2. CASE Accepted(hread) /\ hloaded' = hread /\ hpc' = "start"
    <2>1. hloaded' # << >>
      BY <1>1, <1>2, AcceptedGood
    <2> QED
      BY <1>1, <1>2, <2>1, TakeOK DEF Boot
  <1>3. CASE hpc' = "down" /\ UNCHANGED hloaded
    BY <1>1, <1>3, TakeOK DEF Boot
  <1> QED
    BY <1>2, <1>3 DEF Boot

\* A reload swaps in what it accepts and keeps the rest.
LEMMA SwapOK == HInv /\ Swap => HInv'
  <1> SUFFICES ASSUME HInv, Swap PROVE HInv'
    OBVIOUS
  <1>1. hloaded # << >> /\ DOMAIN hread = Paths /\ hread' = << >> /\ hpc' = "wait"
    BY DEF Swap, HInv, HTypeOK
  <1>2. hloaded' # << >>
    BY <1>1, AcceptedGood DEF Swap
  <1> QED
    BY <1>1, <1>2, TakeOK DEF Swap

\* The clock, the watches, and the reason to reload do not touch what is read or
\* in use.
LEMMA HOtherOK ==
    ASSUME HInv, HTick \/ StartWatch \/ PeriodicReload \/ \E e \in hevents : OnEvent(e)
    PROVE  HInv'
  <1>1. UNCHANGED << hkind, hfile, htarget, hread, hloaded, hasked >>
    BY DEF HTick, StartWatch, PeriodicReload, OnEvent
  <1>2. Paths' = Paths
    BY <1>1, PathsSame
  <1>3. HTypeOK
    BY DEF HInv
  <1>4. hclock' \in 0 .. HMaxTime
    BY <1>3, HAssumption DEF HTypeOK, HTick, StartWatch, PeriodicReload, OnEvent
  <1>5. hwatched' \subseteq Paths /\ hevents' \subseteq {"write", "rename"}
    BY <1>3 DEF HTypeOK, HTick, StartWatch, PeriodicReload, OnEvent, Present
  <1>6. hpc' \in {"boot", "start", "wait", "reading", "exited", "down"} /\
        (hpc' \in {"boot", "down"} <=> hpc \in {"boot", "down"})
    BY <1>3 DEF HTypeOK, HTick, StartWatch, PeriodicReload, OnEvent
  <1>7. HTypeOK'
    BY <1>1, <1>2, <1>3, <1>4, <1>5, <1>6 DEF HTypeOK
  <1>8. HOrder'
    BY <1>1, <1>2 DEF HInv, HOrder
  <1> QED
    BY <1>1, <1>7, <1>8 DEF HInv, HLicensed, PairMatches, NoGrantPastGrace

\* A feature is granted on a manifest that was signed and is in its grace now.
LEMMA FeatureOK == HInv /\ IsFeatureAllowed => HInv'
  <1> SUFFICES ASSUME HInv, IsFeatureAllowed PROVE HInv'
    OBVIOUS
  <1>1. Paths' = Paths
    BY PathsSame DEF IsFeatureAllowed
  <1>2. HTypeOK' /\ HOrder'
    BY <1>1 DEF HInv, HTypeOK, HOrder, IsFeatureAllowed
  <1> DEFINE g == hloaded["manifest"].gen
  <1>3. g \in HSigned
    BY DEF HInv, HLicensed, IsFeatureAllowed
  <1>4. "manifest" \in Paths
    BY DEF Paths, IsFeatureAllowed
  <1>5. g <= htarget
    BY <1>4 DEF HInv, HOrder, OrderAt, IsFeatureAllowed
  <1>6. hasked'.allowed = InGrace(g) /\ hasked'.at = hclock /\ htarget' = htarget
    BY DEF IsFeatureAllowed
  <1> HIDE DEF g
  <1>7. hasked'.allowed => hasked'.at <= HExpiry[g] + HGrace
    BY <1>6 DEF InGrace
  <1>8. NoGrantPastGrace'
    BY <1>3, <1>5, <1>6, <1>7 DEF NoGrantPastGrace
  <1> QED
    BY <1>2, <1>8 DEF HInv, HLicensed, PairMatches, IsFeatureAllowed

\* Every step of a watcher, its clients and the operator keeps the invariant.
LEMMA HNextInv == HInv /\ [HNext]_hvars => HInv'
  <1> SUFFICES ASSUME HInv, [HNext]_hvars PROVE HInv'
    OBVIOUS
  <1>1. CASE HNext
    BY <1>1, RotationOK, ReadFileOK, BootOK, SwapOK, HOtherOK, FeatureOK DEF HNext, Watcher
  <1>2. CASE UNCHANGED hvars
    BY <1>2, PathsSame DEF hvars, HInv, HTypeOK, HOrder, HLicensed, PairMatches, NoGrantPastGrace
  <1> QED
    BY <1>1, <1>2

\* What a server has in use is sound for as long as it is up: it read it whole,
\* its certificate and key belong together, and no feature is granted past the
\* grace of every signed license ever in place (license/watcher.go,
\* sqlproxy/cert_watcher.go).
THEOREM InUseHolds == HSpec => []InUseSound
  <1>1. HInv => InUseSound
    BY DEF HInv, InUseSound
  <1> QED
    BY <1>1, HInitInv, HNextInv, PTL DEF HSpec

\* A step only puts a generation in use that is not behind the one it replaces.
LEMMA LoadsForward ==
    ASSUME HInv, [HNext]_hvars
    PROVE  [hloaded # << >> => \A p \in Paths : hloaded'[p].gen >= hloaded[p].gen]_hvars
  <1> SUFFICES ASSUME HNext, hloaded # << >>, NEW p \in Paths
               PROVE  hloaded'[p].gen >= hloaded[p].gen
    OBVIOUS
  <1>1. hloaded[p] \in Contents /\ hpc \notin {"boot", "down"} /\ hread \in [DOMAIN hread -> Contents]
    BY DEF HInv, HTypeOK
  <1>2. hloaded[p].gen \in Nat
    BY <1>1, ContentsGen
  <1>3. CASE hloaded' = hloaded
    BY <1>2, <1>3
  <1>4. CASE Swap /\ Accepted(hread)
    <2>1. DOMAIN hread = Paths /\ hloaded' = hread /\ hread[p] # Missing
      BY <1>4 DEF Swap, Accepted
    <2>2. NotAfter(hloaded[p], hread[p])
      BY <2>1 DEF HInv, HOrder, OrderAt
    <2>3. hread[p].gen \in Nat
      BY <1>1, <2>1, ContentsGen
    <2> QED
      BY <1>2, <2>1, <2>2, <2>3 DEF NotAfter
  <1>5. Swap => hloaded' = hloaded \/ Accepted(hread)
    BY DEF Swap
  <1>6. ~Boot
    BY <1>1 DEF Boot
  <1>7. HNext => Swap \/ Boot \/ hloaded' = hloaded
    BY DEF HNext, Watcher, StartRotation, HTick, ReadFile, StartWatch, PeriodicReload, OnEvent,
           IsFeatureAllowed, WriteInPlace, RenameOver, RemoveFile, HUntouched
  <1> QED
    BY <1>3, <1>4, <1>5, <1>6, <1>7

\* A reload that began before a rotation never puts an older generation back in
\* place of a newer one, however reads, rotations and swaps interleave.
THEOREM NeverGoesBackHolds == HSpec => NeverGoesBack
  <1>1. HSpec => []HInv
    BY HInitInv, HNextInv, PTL DEF HSpec
  <1>2. HInv /\ [HNext]_hvars =>
          [hloaded # << >> => \A p \in Paths : hloaded'[p].gen >= hloaded[p].gen]_hvars
    BY LoadsForward
  <1> QED
    BY <1>1, <1>2, PTL DEF HSpec, NeverGoesBack

-----------------------------------------------------------------------------
(* CEL facts: a verdict follows the facts                                  *)

\* Where a request is once its inputs are built, and while a program runs.
Prepared == {"compile", "evaluate", "graph", "default", "done"}
Running   == {"evaluate", "graph", "default"}

\* What the gateway has built for the request is what this caller and this table
\* give, and the tenant is known where policies are loaded by tenant.
InputsOK ==
    /\ fpc \notin {"arrived", "refused"} => fprincipal = Principal(fcase.request) /\ ~NoTenant
    /\ fpc \in Prepared => finputs = Inputs(fcase, fprincipal)

\* A cached program was compiled from the text its key was made of.
ProgramsOK ==
    \A k \in DOMAIN fcache : k = CacheKey(fcache[k]) /\ fcache[k].fn # "ill-formed"

\* The program that runs is the policy's text of this request.
RunningOK ==
    /\ fpc \in Running => fprogram = ftext /\ ftext.fn # "ill-formed"
    /\ fpc \in {"graph", "default"} => ftext.fn = "attribute"

\* The history holds what the graph would answer now, and a resolver that went on
\* to the defaults was told by the graph that there is no value.
Answered == IF "graph" \in fdown THEN Empty ELSE fown
HistoryOK ==
    /\ Answered \in fheld
    /\ fdefaults = {StringOf(Find(fcase.defaults, fcase.attribute))}
    /\ fpc = "default" /\ Askable => Empty \in fheld

FInv ==
    /\ fcase \in FScenarios
    /\ FTypeOK /\ IsFiniteSet(DOMAIN fcache)
    /\ InputsOK /\ ProgramsOK /\ RunningOK /\ HistoryOK
    /\ NeverFailsOpen /\ FactsReachPolicies /\ OwnAttributeWins

\* A list of named entries names exactly what it was made of.
LEMMA ListOfNames ==
    ASSUME NEW names, NEW x
    PROVE  HasNamed(ListOf(names), x) <=> x \in {Str(<< names[i] >>) : i \in DOMAIN names}
  <1>1. \A n : Named(n).t = "map" /\ Find(Named(n), "name") = Str(<< n >>)
    BY DEF Named, Obj, Find
  <1>2. \A n : StringOf(Find(Named(n), "name")) = Str(<< n >>)
    BY <1>1 DEF StringOf, Str
  <1>3. ListOf(names).t = "list" /\ Items(ListOf(names)) = {Named(names[i]) : i \in DOMAIN names}
    BY DEF ListOf, Lst, Items
  <1> QED
    BY <1>1, <1>2, <1>3 DEF HasNamed

\* The columns of the table as the functions look them up.
LEMMA SchemaSeen ==
    ASSUME NEW p
    PROVE  Find(Find(Inputs(fcase, p).table, "schema"), "fields") = ListOf(fcase.table.columns)
  <1>1. \A s : Find(Obj([fields |-> s]), "fields") = s
    BY DEF Find, Obj
  <1>2. Find(tableMetadataToMap(fcase.table), "schema") = schemaToMap(fcase.table.columns)
    BY DEF Find, Obj, tableMetadataToMap
  <1>3. Find(DocumentedTable(fcase.table), "schema") = schemaToMap(fcase.table.columns)
    BY DEF Find, Obj, DocumentedTable
  <1> QED
    BY <1>1, <1>2, <1>3 DEF Inputs, schemaToMap

\* has_column tells whether the column is there.
LEMMA HasColumnFact ==
    ASSUME NEW p, NEW x
    PROVE  hasColumnImpl(Inputs(fcase, p).table, x) <=> x \in Columns
  BY SchemaSeen, ListOfNames DEF hasColumnImpl, Columns

\* has_partition tells whether the field is there; with the map its comment
\* describes, which has no list of fields, it never does.
LEMMA HasPartitionFact ==
    ASSUME fcase \in FScenarios, NEW p, NEW x
    PROVE  /\ hasPartitionImpl(Inputs(fcase, p).table, x) => x \in PartitionFields
           /\ fcase.shape = "gateway" /\ x \in PartitionFields => hasPartitionImpl(Inputs(fcase, p).table, x)
  <1>1. CASE fcase.shape = "gateway"
    <2>1. Find(tableMetadataToMap(fcase.table), "partition_spec") = partitionSpecToMap(fcase.table.partition)
      BY DEF Find, Obj, tableMetadataToMap
    <2>2. Find(partitionSpecToMap(fcase.table.partition), "fields") = ListOf(fcase.table.partition)
      BY DEF Find, Obj, partitionSpecToMap
    <2> QED
      BY <1>1, <2>1, <2>2, ListOfNames DEF Inputs, hasPartitionImpl, PartitionFields
  <1>2. CASE fcase.shape # "gateway"
    <2>1. Find(DocumentedTable(fcase.table), "partition_spec") = fcase.table.transforms
      BY DEF Find, Obj, DocumentedTable
    <2>2. Find(fcase.table.transforms, "fields").t # "list"
      BY FAssumption DEF Find, Nothing
    <2> QED
      BY <1>2, <2>1, <2>2 DEF Inputs, hasPartitionImpl, HasNamed
  <1> QED
    BY <1>1, <1>2

\* The roles read from a token are the ones it lists.
LEMMA RolesListed ==
    ASSUME NEW claims, NEW role
    PROVE  role \in extractRoles(claims) <=>
             /\ IsText(role)
             /\ \/ Lists(Find(claims, "roles"), role)
                \/ /\ Find(claims, "roles").t # "list" /\ ~IsText(Find(claims, "roles"))
                   /\ Find(claims, "groups").t = "list" /\ Lists(Find(claims, "groups"), role)
  <1> DEFINE r == Find(claims, "roles")
             g == Find(claims, "groups")
  <1>1. \A w : IsText(Str(<< w >>))
    BY DEF IsText, Str, Empty
  <1>2. \A x : x.t = "string" /\ Lists(x, role) => IsText(x)
    BY DEF Lists, IsText, Empty, Str
  <1>3. \A x : IsText(x) => x.t = "string"
    BY DEF IsText
  <1>4. \A x : IsText(x) => (role \in Fields(x) <=> IsText(role) /\ Lists(x, role))
    BY <1>1 DEF Fields, Lists, IsText
  <1>5. \A x : x.t = "list" => (role \in Items(x) <=> Lists(x, role))
    BY DEF Lists
  <1>6. extractRoles(claims) =
          IF r.t = "list" THEN {x \in Items(r) : IsText(x)}
          ELSE IF IsText(r) THEN Fields(r)
          ELSE IF g.t = "list" THEN {x \in Items(g) : IsText(x)}
          ELSE {}
    BY DEF extractRoles
  <1> HIDE DEF r, g
  <1>7. role \in extractRoles(claims) <=>
          /\ IsText(role)
          /\ Lists(r, role) \/ (r.t # "list" /\ ~IsText(r) /\ g.t = "list" /\ Lists(g, role))
    <2>1. CASE r.t = "list"
      BY <1>5, <1>6, <2>1
    <2>2. CASE r.t # "list" /\ IsText(r)
      BY <1>4, <1>6, <2>2
    <2>3. CASE r.t # "list" /\ ~IsText(r)
      <3>1. ~Lists(r, role)
        BY <1>2, <2>3 DEF Lists
      <3>2. CASE g.t = "list"
        BY <1>5, <1>6, <2>3, <3>1, <3>2
      <3>3. CASE g.t # "list"
        BY <1>6, <2>3, <3>1, <3>3
      <3> QED
        BY <3>2, <3>3
    <2> QED
      BY <2>1, <2>2, <2>3
  <1> QED
    BY <1>7 DEF r, g

\* principal_role tells whether the caller has the role: named by its token, and
\* by nothing that comes before a token.
LEMMA RoleFact ==
    ASSUME NEW r, NEW role
    PROVE  role \in Principal(r).roles <=> HasRole(r, role)
  <1> DEFINE bearer == parseJWTUnverified(r.token)
             san == extractSAN(r.cert)
  <1>1. NoPrincipal.roles = {} /\ NoPrincipal.sub = Empty
    BY DEF NoPrincipal
  <1>2. \A s : [NoPrincipal EXCEPT !.sub = s].roles = {}
    BY DEF NoPrincipal
  <1>3. IsText(Find(r.token, "sub")) =>
          bearer.roles = extractRoles(r.token) /\ bearer # NoPrincipal
    BY <1>1 DEF parseJWTUnverified, IsText
  <1>4. ~IsText(Find(r.token, "sub")) => bearer = NoPrincipal
    BY DEF parseJWTUnverified
  <1>5. Principal(r) = IF san # Empty THEN [NoPrincipal EXCEPT !.sub = san]
                       ELSE IF bearer # NoPrincipal THEN bearer
                       ELSE [NoPrincipal EXCEPT !.sub = r.tenant]
    BY DEF Principal
  <1> HIDE DEF bearer, san
  <1>6. CASE san = Empty /\ IsText(Find(r.token, "sub"))
    <2>1. Principal(r).roles = extractRoles(r.token)
      BY <1>3, <1>5, <1>6
    <2> QED
      BY <1>6, <2>1, RolesListed DEF HasRole, san
  <1>7. CASE ~(san = Empty /\ IsText(Find(r.token, "sub")))
    <2>1. Principal(r).roles = {}
      BY <1>2, <1>4, <1>5, <1>7
    <2> QED
      BY <1>7, <2>1 DEF HasRole, san
  <1> QED
    BY <1>6, <1>7

\* Every column that matches the pattern has the tag.
Classified(pattern, tag) ==
    pattern.t = "pattern" /\ \A c \in Matching(pattern) : \E e \in Recorded(c) : Find(e, "tag") = tag

\* classification_satisfied holds only if every matching column has the tag.
LEMMA ClassificationFact ==
    ASSUME NEW p, NEW pattern, NEW tag
    PROVE  classificationSatisfiedImpl(Inputs(fcase, p).table, pattern, tag) => Classified(pattern, tag)
  <1> HAVE classificationSatisfiedImpl(Inputs(fcase, p).table, pattern, tag)
  <1> DEFINE table == Inputs(fcase, p).table
  <1>1. Find(tableMetadataToMap(fcase.table), "classifications").t # "list"
    BY DEF Find, Obj, tableMetadataToMap, Nothing
  <1>2. table = DocumentedTable(fcase.table)
    BY <1>1 DEF Inputs, classificationSatisfiedImpl
  <1>3. /\ Find(DocumentedTable(fcase.table), "classifications") = fcase.table.tags
        /\ Find(DocumentedTable(fcase.table), "columns") = ListOf(fcase.table.columns)
    BY DEF Find, Obj, DocumentedTable
  <1>4. /\ pattern.t = "pattern"
        /\ \A c \in Items(ListOf(fcase.table.columns)) :
             Find(c, "name").t = "string" /\ Find(c, "name").words[1] \in pattern.matches
               => tag \in tagsByCol(fcase.table.tags, Find(c, "name"))
    BY <1>2, <1>3 DEF classificationSatisfiedImpl
  <1>5. ASSUME NEW c \in Matching(pattern) PROVE \E e \in Recorded(c) : Find(e, "tag") = tag
    <2>1. PICK i \in DOMAIN fcase.table.columns : c = Str(<< fcase.table.columns[i] >>)
      BY DEF Matching, Columns
    <2> DEFINE n == Named(fcase.table.columns[i])
    <2>2. n \in Items(ListOf(fcase.table.columns))
      BY DEF ListOf, Lst, Items
    <2>3. Find(n, "name") = c
      BY <2>1 DEF Named, Obj, Find
    <2>4. c.t = "string" /\ c.words[1] \in pattern.matches
      BY <2>1 DEF Matching, Str
    <2> HIDE DEF n
    <2>5. tag \in tagsByCol(fcase.table.tags, c)
      BY <1>4, <2>2, <2>3, <2>4
    <2> QED
      BY <2>5 DEF tagsByCol, Recorded
  <1> QED
    BY <1>4, <1>5 DEF Classified

\* manifest.partition_spec finds only transforms the table has.
LEMMA PartitionSpecFact ==
    ASSUME NEW p, NEW k, k \in DOMAIN partitionSpecImpl(Inputs(fcase, p).table)
    PROVE  partitionSpecImpl(Inputs(fcase, p).table)[k] = Find(fcase.table.transforms, k)
  <1>1. CASE fcase.shape = "gateway"
    <2>1. Find(tableMetadataToMap(fcase.table), "partition_spec") = partitionSpecToMap(fcase.table.partition)
      BY DEF Find, Obj, tableMetadataToMap
    <2> DEFINE at == [spec_id |-> Num, fields |-> ListOf(fcase.table.partition)]
    <2>2. \A x \in DOMAIN at : at[x].t # "string"
      BY DEF Num, ListOf, Lst
    <2>3. partitionSpecToMap(fcase.table.partition).t = "map" /\ partitionSpecToMap(fcase.table.partition).at = at
      BY DEF partitionSpecToMap, Obj
    <2> HIDE DEF at
    <2>4. DOMAIN partitionSpecImpl(tableMetadataToMap(fcase.table)) = {}
      BY <2>1, <2>2, <2>3 DEF partitionSpecImpl
    <2> QED
      BY <1>1, <2>4 DEF Inputs
  <1>2. CASE fcase.shape # "gateway"
    <2>1. Find(DocumentedTable(fcase.table), "partition_spec") = fcase.table.transforms
      BY DEF Find, Obj, DocumentedTable
    <2>2. k \in DOMAIN partitionSpecImpl(DocumentedTable(fcase.table))
      BY <1>2 DEF Inputs
    <2>3. fcase.table.transforms.t = "map"
      BY <2>1, <2>2 DEF partitionSpecImpl
    <2>4. /\ k \in DOMAIN fcase.table.transforms.at
          /\ partitionSpecImpl(DocumentedTable(fcase.table))[k] = fcase.table.transforms.at[k]
      BY <2>1, <2>2, <2>3 DEF partitionSpecImpl
    <2> QED
      BY <1>2, <2>3, <2>4 DEF Inputs, Find
  <1> QED
    BY <1>1, <1>2

\* A string taken out of a claim is the claim, or empty.
LEMMA StringOfIs ==
    ASSUME NEW x, StringOf(x) # Empty
    PROVE  StringOf(x) = x
  BY DEF StringOf

\* location.region is the region of the table, or empty.
LEMMA RegionFact ==
    ASSUME NEW p, locationRegionImpl(Inputs(fcase, p).commit) # Empty
    PROVE  locationRegionImpl(Inputs(fcase, p).commit) = fcase.table.region
  <1>1. StringOf(Find(commitRequestToMap, "location_region")) = Empty
    BY DEF Find, Obj, commitRequestToMap, Nothing, StringOf
  <1>2. Find(DocumentedCommit(fcase.table), "location_region") = fcase.table.region
    BY DEF Find, Obj, DocumentedCommit
  <1> QED
    BY <1>1, <1>2, StringOfIs DEF locationRegionImpl, Inputs

\* The value of a policy that asks for no attribute, which does not fail, is a
\* fact, and of the three the gateway hands over it is the fact.
LEMMA ValueFact ==
    ASSUME fcase \in FScenarios, NEW q \in fcase.texts, q.fn \notin {"attribute", "ill-formed"},
           NEW p, p = Principal(fcase.request), NEW answer, ~Fails(q, Inputs(fcase, p))
    PROVE  /\ Value(q, Inputs(fcase, p), answer) => FactHolds(q)
           /\ fcase.shape = "gateway" /\ q.fn \in {"has_column", "has_partition", "role"} /\ FactHolds(q)
                => Value(q, Inputs(fcase, p), answer)
  <1> DEFINE in == Inputs(fcase, p)
  <1>1. q.fn \in Calls /\ (q.fn = "region" => q.want # Empty)
    BY FAssumption
  <1>2. CASE q.fn = "has_column"
    BY <1>2, HasColumnFact DEF Value, FactHolds
  <1>3. CASE q.fn = "has_partition"
    BY <1>3, HasPartitionFact DEF Value, FactHolds
  <1>4. CASE q.fn = "role"
    <2>1. in.principal.roles = Principal(fcase.request).roles
      BY DEF Inputs, principalToMap
    <2> QED
      BY <1>4, <2>1, RoleFact DEF Value, FactHolds, principalRoleImpl
  <1>5. CASE q.fn = "classification"
    <2>1. Value(q, in, answer) <=> classificationSatisfiedImpl(Inputs(fcase, p).table, q.arg, q.want)
      BY <1>5 DEF Value
    <2>2. FactHolds(q) <=> Classified(q.arg, q.want)
      BY <1>5 DEF FactHolds, Classified
    <2> QED
      BY <1>5, <2>1, <2>2, ClassificationFact
  <1>6. CASE q.fn = "partition_spec"
    <2>1. q.arg \in DOMAIN partitionSpecImpl(in.table)
      BY <1>6 DEF Fails
    <2> QED
      BY <1>6, <2>1, PartitionSpecFact DEF Value, FactHolds
  <1>7. CASE q.fn = "region"
    <2>1. Value(q, in, answer) => locationRegionImpl(in.commit) = q.want
      BY <1>7 DEF Value
    <2> QED
      BY <1>1, <1>7, <2>1, RegionFact DEF FactHolds
  <1>8. q.fn # "region alone"
    BY DEF Fails
  <1> QED
    BY <1>1, <1>2, <1>3, <1>4, <1>5, <1>6, <1>7, <1>8 DEF Calls

\* Of the three parts of the property, none says anything of a request that has no
\* verdict.
VerdictOK == NeverFailsOpen /\ FactsReachPolicies /\ OwnAttributeWins
LEMMA NoVerdictYet ==
    ASSUME fverdict' = "", fpc' # "done"
    PROVE  VerdictOK'
  BY DEF VerdictOK, NeverFailsOpen, FactsReachPolicies, OwnAttributeWins

\* The facts are the same while neither the stores nor the policy change.
LEMMA FactsStay ==
    ASSUME FStores
    PROVE  FactHolds(ftext)' <=> FactHolds(ftext)
  BY DEF FStores, FactHolds, Columns, PartitionFields, Matching, Recorded

\* The initial states satisfy the invariant.
LEMMA FInitInv ==
    ASSUME FInit
    PROVE  FInv
  <1>1. DOMAIN fcache = {} /\ Cardinality(DOMAIN fcache) = 0 /\ IsFiniteSet(DOMAIN fcache)
    <2>1. fcache = << >>
      BY DEF FInit
    <2>2. DOMAIN fcache = {}
      BY <2>1
    <2> QED
      BY <2>2, FS_EmptySet
  <1>2. FTypeOK
    <2>1. Cardinality(DOMAIN fcache) <= FCacheSize
      BY <1>1, FAssumption
    <2>2. fown \in {Empty} \cup FValues
      <3>1. fcase \in FScenarios /\ fown = fcase.own
        BY DEF FInit
      <3> QED
        BY <3>1, FAssumption
    <2>3. fchanges \in 0 .. FMaxChanges /\ frequests \in 1 .. FMaxRequests
      <3>1. FMaxRequests \in Nat /\ FMaxRequests # 0 /\ FMaxChanges \in Nat
        BY FAssumption
      <3>2. fchanges = 0 /\ frequests = 1
        BY DEF FInit
      <3> QED
        BY <3>1, <3>2
    <2> QED
      BY <2>1, <2>2, <2>3 DEF FInit, FTypeOK
  <1>3. InputsOK /\ RunningOK
    BY DEF FInit, InputsOK, NoTenant, RunningOK, Prepared, Running
  <1>4. ProgramsOK
    BY <1>1 DEF ProgramsOK
  <1>5. HistoryOK
    BY DEF FInit, HistoryOK, Answered
  <1>6. NeverFailsOpen /\ FactsReachPolicies /\ OwnAttributeWins
    BY DEF FInit, NeverFailsOpen, FactsReachPolicies, OwnAttributeWins
  <1> QED
    BY <1>1, <1>2, <1>3, <1>4, <1>5, <1>6 DEF FInit, FInv

\* The request is refused, or the principal is extracted from it.
LEMMA ExtractInv ==
    ASSUME FInv, RefuseWithoutTenant \/ ExtractPrincipal
    PROVE  FInv'
  <1>1. /\ fpc = "arrived" /\ fpc' \in {"project", "refused"} /\ fverdict = "" /\ fverdict' = ""
        /\ fpc' = "project" => fprincipal' = Principal(fcase.request) /\ ~NoTenant
    BY DEF ExtractPrincipal, RefuseWithoutTenant, FInv, FTypeOK
  <1>2. FTypeOK' /\ fcase' = fcase /\ IsFiniteSet(DOMAIN fcache)'
    BY <1>1 DEF ExtractPrincipal, RefuseWithoutTenant, FStores, FInv, FTypeOK
  <1>3. InputsOK'
    BY <1>1, <1>2 DEF InputsOK, NoTenant, Prepared
  <1>4. ProgramsOK' /\ RunningOK'
    BY <1>1 DEF ExtractPrincipal, RefuseWithoutTenant, FInv, ProgramsOK, RunningOK, Running, CacheKey
  <1>5. HistoryOK'
    BY <1>1 DEF ExtractPrincipal, RefuseWithoutTenant, FStores, FInv, HistoryOK, Answered
  <1>6. VerdictOK'
    BY <1>1, NoVerdictYet
  <1> QED
    BY <1>2, <1>3, <1>4, <1>5, <1>6 DEF FInv, VerdictOK

\* The inputs of the policies are built.
LEMMA ProjectInv ==
    ASSUME FInv, Project
    PROVE  FInv'
  <1>1. fpc = "project" /\ fpc' = "compile" /\ fverdict = "" /\ fverdict' = ""
    BY DEF Project, FInv, FTypeOK
  <1>2. FTypeOK' /\ fcase' = fcase /\ IsFiniteSet(DOMAIN fcache)'
    BY <1>1 DEF Project, FStores, FInv, FTypeOK
  <1>3. InputsOK'
    <2>1. fprincipal = Principal(fcase.request) /\ fprincipal' = fprincipal /\ ~NoTenant
      BY <1>1 DEF Project, FInv, InputsOK, NoTenant
    <2>2. finputs' = Inputs(fcase, fprincipal)
      BY DEF Project
    <2> QED
      BY <1>1, <1>2, <2>1, <2>2 DEF InputsOK, NoTenant, Prepared
  <1>4. ProgramsOK' /\ RunningOK'
    BY <1>1 DEF Project, FInv, ProgramsOK, RunningOK, Running, CacheKey
  <1>5. HistoryOK'
    BY <1>1 DEF Project, FStores, FInv, HistoryOK, Answered
  <1>6. VerdictOK'
    BY <1>1, NoVerdictYet
  <1> QED
    BY <1>2, <1>3, <1>4, <1>5, <1>6 DEF FInv, VerdictOK

\* A program added to the cache leaves it within its size, and each program
\* under the key of its own text.
LEMMA AddedPrograms ==
    ASSUME FInv, NEW prog, prog.fn # "ill-formed",
           CacheKey(prog) \notin DOMAIN fcache, ProgramAdded(CacheKey(prog), prog)
    PROVE  /\ IsFiniteSet(DOMAIN fcache') /\ Cardinality(DOMAIN fcache') <= FCacheSize
           /\ ProgramsOK'
  <1> DEFINE key == CacheKey(prog)
  <1>1. PICK kept \in SUBSET DOMAIN fcache :
          /\ Cardinality(kept) = IF Cardinality(DOMAIN fcache) < FCacheSize
                                 THEN Cardinality(DOMAIN fcache) ELSE FCacheSize - 1
          /\ fcache' = [k \in kept \cup {key} |-> IF k = key THEN prog ELSE fcache[k]]
    BY DEF ProgramAdded
  <1>2. IsFiniteSet(kept) /\ key \notin kept
    BY FS_Subset DEF FInv
  <1>3. IsFiniteSet(kept \cup {key}) /\ Cardinality(kept \cup {key}) = Cardinality(kept) + 1
    BY <1>2, FS_AddElement
  <1>4. FCacheSize \in Nat /\ FCacheSize # 0 /\ Cardinality(DOMAIN fcache) \in Nat
    BY FAssumption, FS_CardinalityType DEF FInv
  <1>5. Cardinality(kept) + 1 <= FCacheSize
    BY <1>1, <1>4
  <1>6. DOMAIN fcache' = kept \cup {key}
    BY <1>1
  <1>7. ASSUME NEW k \in kept \cup {key} PROVE k = CacheKey(fcache'[k]) /\ fcache'[k].fn # "ill-formed"
    BY <1>1, <1>2 DEF FInv, ProgramsOK
  <1>8. ProgramsOK'
    BY <1>6, <1>7 DEF ProgramsOK, CacheKey
  <1> QED
    BY <1>3, <1>5, <1>6, <1>8

\* A program is found in the cache or compiled; the one that runs is the text of
\* the policy now, since the key holds the text.
LEMMA CompileInv ==
    ASSUME FInv, CompileOrGet
    PROVE  FInv'
  <1>1. fpc = "compile" /\ fverdict = "" /\ fcase' = fcase /\ ftext' = ftext
    BY DEF CompileOrGet, FStores, FInv, FTypeOK
  <1>2. /\ IsFiniteSet(DOMAIN fcache') /\ Cardinality(DOMAIN fcache') <= FCacheSize
        /\ ProgramsOK'
    <2>1. CASE fcache' = fcache
      BY <2>1 DEF FInv, FTypeOK, ProgramsOK, CacheKey
    <2>2. CASE CacheKey(ftext) \notin DOMAIN fcache /\ ftext.fn # "ill-formed" /\ ProgramAdded(CacheKey(ftext), ftext)
      BY <2>2, AddedPrograms
    <2> QED
      BY <2>1, <2>2 DEF CompileOrGet
  <1>3. \/ fpc' = "evaluate" /\ fverdict' = "" /\ fprogram' = ftext /\ ftext.fn # "ill-formed"
        \/ fpc' = "done" /\ fverdict' = "error"
    <2>1. CASE CacheKey(ftext) \in DOMAIN fcache
      <3>1. fprogram' = fcache[CacheKey(ftext)] /\ fpc' = "evaluate" /\ fverdict' = ""
        BY <1>1, <2>1 DEF CompileOrGet
      <3>2. CacheKey(ftext) = CacheKey(fcache[CacheKey(ftext)]) /\ fcache[CacheKey(ftext)].fn # "ill-formed"
        BY <2>1 DEF FInv, ProgramsOK
      <3>3. ftext = fcache[CacheKey(ftext)]
        <4>1. \A x, y : CacheKey(x) = CacheKey(y) => x = y
          BY DEF CacheKey
        <4> QED
          BY <3>2, <4>1
      <3> QED
        BY <3>1, <3>2, <3>3
    <2>2. CASE CacheKey(ftext) \notin DOMAIN fcache
      BY <1>1, <2>2 DEF CompileOrGet, Verdict
    <2> QED
      BY <2>1, <2>2
  <1>4. FTypeOK'
    BY <1>1, <1>2, <1>3 DEF CompileOrGet, FStores, FInv, FTypeOK
  <1>5. InputsOK'
    BY <1>1, <1>3 DEF CompileOrGet, FInv, InputsOK, NoTenant, Prepared
  <1>6. RunningOK'
    BY <1>1, <1>3 DEF RunningOK, Running
  <1>7. HistoryOK'
    BY <1>1, <1>3 DEF CompileOrGet, FStores, FInv, HistoryOK, Answered
  <1>8. VerdictOK'
    BY <1>3 DEF VerdictOK, NeverFailsOpen, FactsReachPolicies, OwnAttributeWins
  <1> QED
    BY <1>1, <1>2, <1>4, <1>5, <1>6, <1>7, <1>8 DEF FInv, VerdictOK

\* Once the attribute is known, or none is asked for, the verdict follows the facts.
LEMMA ConcludeInv ==
    ASSUME FInv, fpc \in Running, Conclude, FStores,
           UNCHANGED << fprincipal, finputs, fcache, fprogram >>,
           ftext.fn = "attribute" =>
             /\ fanswer' \in fheld \cup fdefaults \cup {Find(fcase.request.token, ftext.arg), Empty}
             /\ fcase.shape = "gateway" /\ Askable /\ Empty \notin fheld => fanswer' \in fheld
    PROVE  FInv'
  <1>1. /\ ftext \in fcase.texts /\ fcase \in FScenarios /\ fcase' = fcase /\ ftext' = ftext
        /\ fprogram = ftext /\ ftext.fn # "ill-formed"
        /\ fprincipal = Principal(fcase.request) /\ finputs = Inputs(fcase, fprincipal)
    BY DEF FInv, FTypeOK, RunningOK, InputsOK, NoTenant, Prepared, Running, FStores
  <1>2. /\ fpc' = "done"
        /\ fverdict' = IF Fails(ftext, finputs) THEN "error"
                       ELSE IF Value(ftext, finputs, fanswer') THEN "allow" ELSE "deny"
    BY <1>1 DEF Conclude, Verdict
  <1>3. FTypeOK' /\ IsFiniteSet(DOMAIN fcache)'
    BY <1>2 DEF FStores, FInv, FTypeOK
  <1>4. InputsOK'
    BY <1>1, <1>2 DEF FInv, InputsOK, NoTenant, Prepared, Running
  <1>5. ProgramsOK' /\ RunningOK'
    BY <1>2 DEF FInv, ProgramsOK, RunningOK, Running, CacheKey
  <1>6. HistoryOK'
    BY <1>2 DEF FStores, FInv, HistoryOK, Answered
  <1>7. CASE ftext.fn = "attribute"
    <2>1. ftext.want # Empty
      BY <1>1, <1>7, FAssumption
    <2>2. Value(ftext, finputs, fanswer') <=> fanswer' = ftext.want
      BY <1>7 DEF Value
    <2>3. fverdict' = "allow" => ftext.want \in fheld \cup fdefaults \cup {Find(fcase.request.token, ftext.arg)}
      BY <1>2, <1>7, <2>1, <2>2
    <2>4. FactHolds(ftext) <=> ftext.want \in fheld \cup fdefaults \cup {Find(fcase.request.token, ftext.arg)}
      BY <1>7 DEF FactHolds
    <2>5. NeverFailsOpen'
      BY <2>3, <2>4, FactsStay DEF NeverFailsOpen
    <2>6. FactsReachPolicies'
      BY <1>1, <1>7 DEF FactsReachPolicies
    <2>7. OwnAttributeWins'
      BY <1>1, <1>7 DEF OwnAttributeWins, FStores, Askable, Sanitized
    <2> QED
      BY <1>1, <1>3, <1>4, <1>5, <1>6, <2>5, <2>6, <2>7 DEF FInv
  <1>8. CASE ftext.fn # "attribute"
    <2>1. ~Fails(ftext, finputs) =>
            /\ Value(ftext, finputs, fanswer') => FactHolds(ftext)
            /\ fcase.shape = "gateway" /\ ftext.fn \in {"has_column", "has_partition", "role"} /\ FactHolds(ftext)
                 => Value(ftext, finputs, fanswer')
      BY <1>1, <1>8, ValueFact
    <2>2. NeverFailsOpen'
      BY <1>2, <2>1, FactsStay DEF NeverFailsOpen
    <2>3. FactsReachPolicies'
      BY <1>1, <1>2, <2>1, FactsStay DEF FactsReachPolicies
    <2>4. OwnAttributeWins'
      BY <1>1, <1>8 DEF OwnAttributeWins
    <2> QED
      BY <1>1, <1>3, <1>4, <1>5, <1>6, <2>2, <2>3, <2>4 DEF FInv
  <1> QED
    BY <1>7, <1>8

\* A policy that asks for no attribute is evaluated.
LEMMA EvaluateInv ==
    ASSUME FInv, Evaluate
    PROVE  FInv'
  <1>1. fpc \in Running /\ ftext.fn # "attribute"
    BY DEF Evaluate, FInv, RunningOK, Running
  <1> QED
    BY <1>1, ConcludeInv DEF Evaluate

\* While a program waits for an attribute only the place of the request changes.
LEMMA WaitingInv ==
    ASSUME FInv, fpc \in Running, ftext.fn = "attribute", fpc' \in {"graph", "default"}, FStores,
           UNCHANGED << fprincipal, finputs, fcache, fprogram, fanswer, fverdict >>,
           fpc' = "default" /\ Askable => Empty \in fheld
    PROVE  FInv'
  <1>1. fverdict = "" /\ fverdict' = "" /\ fcase' = fcase /\ ftext' = ftext
    BY DEF FInv, FTypeOK, Running, FStores
  <1>2. FTypeOK' /\ IsFiniteSet(DOMAIN fcache)'
    BY <1>1 DEF FStores, FInv, FTypeOK
  <1>3. InputsOK'
    BY <1>1 DEF FInv, InputsOK, NoTenant, Prepared, Running
  <1>4. ProgramsOK' /\ RunningOK'
    BY <1>1 DEF FInv, ProgramsOK, RunningOK, Running, CacheKey
  <1>5. HistoryOK'
    BY <1>1 DEF FStores, FInv, HistoryOK, Answered, Askable, Sanitized
  <1>6. VerdictOK'
    BY <1>1, NoVerdictYet
  <1> QED
    BY <1>1, <1>2, <1>3, <1>4, <1>5, <1>6 DEF FInv, VerdictOK

\* An attribute is taken from the claims, or the resolver is asked: always by the
\* gateway, which passes no claims.
LEMMA ClaimsInv ==
    ASSUME FInv, AttributeFromClaims
    PROVE  FInv'
  <1> DEFINE claim == principalAttributeLayer1(finputs.claims, fprogram.arg)
  <1>1. /\ fpc \in Running /\ ftext.fn = "attribute" /\ fprogram = ftext
        /\ finputs = Inputs(fcase, fprincipal)
        /\ fcase.shape = "gateway" => fcase.request.tenant # Empty
    BY DEF AttributeFromClaims, FInv, RunningOK, InputsOK, NoTenant, Prepared, Running
  <1>2. fcase.shape = "gateway" => claim = Empty /\ finputs.resolver
    BY <1>1 DEF Inputs, principalAttributeLayer1, Find, Nothing, StringOf
  <1>3. fcase.shape # "gateway" => finputs.claims = fcase.request.token
    BY <1>1 DEF Inputs
  <1>4. CASE fanswer' = claim /\ Conclude /\ (claim # Empty \/ ~finputs.resolver \/ fcase.request.tenant = Empty)
    <2>1. fcase.shape # "gateway"
      BY <1>1, <1>2, <1>4
    <2>2. claim = StringOf(Find(fcase.request.token, ftext.arg))
      BY <1>1, <1>3, <2>1 DEF principalAttributeLayer1
    <2>3. fanswer' \in fheld \cup fdefaults \cup {Find(fcase.request.token, ftext.arg), Empty}
      BY <1>4, <2>2, StringOfIs
    <2> HIDE DEF claim
    <2> QED
      BY <1>1, <1>4, <2>1, <2>3, ConcludeInv DEF AttributeFromClaims
  <1>5. CASE fpc' = "graph" /\ UNCHANGED << fanswer, fverdict >>
    BY <1>1, <1>5, WaitingInv DEF AttributeFromClaims
  <1> QED
    BY <1>4, <1>5 DEF AttributeFromClaims

\* The graph answers with a value, or the resolver goes on.
LEMMA GraphInv ==
    ASSUME FInv, AskGraph
    PROVE  FInv'
  <1>1. fpc \in Running /\ ftext.fn = "attribute" /\ Answered \in fheld
    BY DEF AskGraph, FInv, RunningOK, HistoryOK, Running
  <1>2. /\ layer2Graph # Empty => layer2Graph = Answered
        /\ layer2Graph = Empty /\ Askable => Answered = Empty
    BY DEF layer2Graph, Answered
  <1>3. CASE layer2Graph # Empty /\ fanswer' = layer2Graph /\ Conclude
    <2>1. fanswer' \in fheld
      BY <1>1, <1>2, <1>3
    <2> QED
      BY <1>1, <1>3, <2>1, ConcludeInv DEF AskGraph
  <1>4. CASE layer2Graph = Empty /\ fpc' = "default" /\ UNCHANGED << fanswer, fverdict >>
    <2>1. Askable => Empty \in fheld
      BY <1>1, <1>2, <1>4
    <2> QED
      BY <1>1, <1>4, <2>1, WaitingInv DEF AskGraph
  <1> QED
    BY <1>3, <1>4 DEF AskGraph

\* The tenant's default is the answer where the graph had none.
LEMMA DefaultInv ==
    ASSUME FInv, AskDefault
    PROVE  FInv'
  <1>1. /\ fpc \in Running /\ ftext.fn = "attribute"
        /\ Askable => Empty \in fheld
        /\ fdefaults = {StringOf(Find(fcase.defaults, fcase.attribute))}
    BY DEF AskDefault, FInv, RunningOK, HistoryOK, Running
  <1>2. fanswer' \in fdefaults \cup {Empty}
    BY <1>1 DEF AskDefault, layer3TenantDefault
  <1> QED
    BY <1>1, <1>2, ConcludeInv DEF AskDefault

\* The caller asks again, perhaps under another text.
LEMMA AgainInv ==
    ASSUME FInv, NextRequest
    PROVE  FInv'
  <1>1. fcase' = fcase /\ fpc' = "arrived" /\ fverdict' = ""
    BY DEF NextRequest
  <1>2. frequests' \in 1 .. FMaxRequests
    <2>1. FMaxRequests \in Nat
      BY FAssumption
    <2>2. frequests \in 1 .. FMaxRequests
      BY DEF FInv, FTypeOK
    <2>3. frequests < FMaxRequests /\ frequests' = frequests + 1
      BY DEF NextRequest
    <2> QED
      BY <2>1, <2>2, <2>3
  <1>3. FTypeOK' /\ IsFiniteSet(DOMAIN fcache)'
    BY <1>1, <1>2 DEF NextRequest, FInv, FTypeOK
  <1>4. InputsOK' /\ RunningOK'
    BY <1>1 DEF InputsOK, NoTenant, RunningOK, Prepared, Running
  <1>5. ProgramsOK'
    BY DEF NextRequest, FInv, ProgramsOK, CacheKey
  <1>6. HistoryOK'
    BY <1>1 DEF NextRequest, FInv, HistoryOK, Answered
  <1>7. VerdictOK'
    BY <1>1, NoVerdictYet
  <1> QED
    BY <1>1, <1>3, <1>4, <1>5, <1>6, <1>7 DEF FInv, VerdictOK

\* The stores change while a program waits for them.
LEMMA ChangeInv ==
    ASSUME FInv, FChange
    PROVE  FInv'
  <1>1. fcase' = fcase /\ fpc' = fpc /\ fpc # "done" /\ fverdict' = "" /\ fverdict = ""
    BY DEF FChange, FInv, FTypeOK
  <1>2. fchanges' \in 0 .. FMaxChanges
    <2>1. FMaxChanges \in Nat
      BY FAssumption
    <2>2. fchanges \in 0 .. FMaxChanges
      BY DEF FInv, FTypeOK
    <2>3. fchanges < FMaxChanges /\ fchanges' = fchanges + 1
      BY DEF FChange
    <2> QED
      BY <2>1, <2>2, <2>3
  <1>3. fown' \in {Empty} \cup FValues /\ fdown' \subseteq {"graph", "admin"}
    BY DEF FChange, FInv, FTypeOK
  <1>4. FTypeOK' /\ IsFiniteSet(DOMAIN fcache)'
    BY <1>1, <1>2, <1>3 DEF FChange, FInv, FTypeOK
  <1>5. InputsOK' /\ RunningOK'
    BY <1>1 DEF FChange, FInv, InputsOK, NoTenant, RunningOK
  <1>6. ProgramsOK'
    BY DEF FChange, FInv, ProgramsOK, CacheKey
  <1>7. HistoryOK'
    BY <1>1 DEF FChange, FInv, HistoryOK, Answered, Askable, Sanitized
  <1>8. VerdictOK'
    BY <1>1, NoVerdictYet
  <1> QED
    BY <1>1, <1>4, <1>5, <1>6, <1>7, <1>8 DEF FInv, VerdictOK

\* A step that changes nothing.
LEMMA FStutterInv ==
    ASSUME FInv, UNCHANGED fvars
    PROVE  FInv'
  <1>1. FTypeOK' /\ InputsOK' /\ ProgramsOK' /\ RunningOK' /\ HistoryOK'
    BY DEF fvars, FInv, FTypeOK, InputsOK, NoTenant, ProgramsOK, RunningOK, HistoryOK, Answered, Askable, Sanitized, CacheKey
  <1>2. FStores /\ fverdict' = fverdict /\ fpc' = fpc /\ fanswer' = fanswer /\ fprincipal' = fprincipal
    BY DEF fvars, FStores
  <1>3. NeverFailsOpen' /\ FactsReachPolicies' /\ OwnAttributeWins'
    BY <1>2, FactsStay DEF FInv, FStores, NeverFailsOpen, FactsReachPolicies, OwnAttributeWins, Askable, Sanitized
  <1> QED
    BY <1>1, <1>3 DEF fvars, FInv

\* No step breaks the invariant.
LEMMA FNextInv ==
    ASSUME FInv, [FNext]_fvars
    PROVE  FInv'
  BY ExtractInv, ProjectInv, CompileInv, EvaluateInv, ClaimsInv, GraphInv, DefaultInv,
     AgainInv, ChangeInv, FStutterInv DEF FNext

\* Whatever the caller, its table, its policies and the size of the cache, and
\* however the attribute stores change and fail, a policy allows a commit only if
\* the fact it demands held, a fact the gateway hands over is never denied, and a
\* default never stands in for an attribute the caller has (ExtractPrincipal,
\* compileOrGet, Evaluate, AttributeResolver.Resolve).
THEOREM FactsHold == FSpec => []VerdictsFollowFacts
  <1>1. FInv => VerdictsFollowFacts
    BY DEF FInv, VerdictsFollowFacts
  <1> QED
    BY <1>1, FInitInv, FNextInv, PTL DEF FSpec
=============================================================================
