----------------------------- MODULE BatchKeys ------------------------------
(***************************************************************************)
(* The cache of data-encryption keys (internal/crypto/kms): callers of     *)
(* BatchCache.GetOrGenerate, split at every point where another goroutine  *)
(* can run.  Get is two steps: the lookup and, for an entry past its TTL,  *)
(* a removal that goes by key.                                             *)
(***************************************************************************)
EXTENDS Integers, FiniteSets

CONSTANTS
    KThreads,       \* goroutines of one encryption batch
    KKeys,          \* (tenant, column, batch) triples
    KCacheSize,     \* capacity of the LRU
    KTTL,           \* lifetime of an entry
    KMaxTime,       \* bound: last value of the clock
    KMaxDeks        \* bound: data keys generated for one triple

ASSUME KAssumption ==
    KKeys # {} /\ {KTTL, KCacheSize, KMaxTime, KMaxDeks} \subseteq Nat

VARIABLES
    kclock,         \* time.Now()
    kcached,        \* keys present in the LRU
    kentry,         \* cachedDEK of each key: the data key and expiresAt
    kmu,            \* holder of BatchCache.mu, as a set of at most one thread
    kthread,        \* state of each caller
    kdeks,          \* data keys generated so far for each triple
    kagain,         \* history: triples generated again while a stored key was unexpired
    klost           \* history: triples whose unexpired entry left the cache

kvars == << kclock, kcached, kentry, kmu, kthread, kdeks, kagain, klost >>

KIdle == [pc |-> "idle", key |-> CHOOSE k \in KKeys : TRUE, locked |-> FALSE, dek |-> 0]

\* The state keeps its shape; the mutex has one holder and the LRU stays within
\* its capacity.
KTypeOK ==
    /\ kclock \in 0 .. KMaxTime
    /\ kcached \subseteq KKeys /\ Cardinality(kcached) <= KCacheSize
    /\ \A k \in KKeys : kentry[k].dek \in 0 .. kdeks[k] /\ kdeks[k] \in 0 .. KMaxDeks
    /\ kmu \subseteq KThreads /\ Cardinality(kmu) <= 1

KInit ==
    /\ kclock = 0
    /\ kcached = {}
    /\ kentry = [k \in KKeys |-> [dek |-> 0, exp |-> 0]]
    /\ kmu = {}
    /\ kthread = [t \in KThreads |-> KIdle]
    /\ kdeks = [k \in KKeys |-> 0]
    /\ kagain = {} /\ klost = {}

-----------------------------------------------------------------------------
\* The caller's next step, the lock it holds and the key it has in hand.
KNow(t, pc, locked, dek) ==
    kthread' = [kthread EXCEPT ![t] = [pc |-> pc, key |-> kthread[t].key, locked |-> locked, dek |-> dek]]

KGoto(t, pc) == KNow(t, pc, kthread[t].locked, kthread[t].dek)

Unexpired(k) == kclock <= kentry[k].exp

\* A caller leaves GetOrGenerate; the deferred Unlock runs when it had locked.
KReturn(t, dek) ==
    /\ KNow(t, "done", FALSE, dek)
    /\ kmu' = kmu \ {t}

GetOrGenerate(t, k) ==
    /\ kthread[t].pc \in {"idle", "done"}
    /\ kthread' = [kthread EXCEPT ![t] = [pc |-> "get", key |-> k, locked |-> FALSE, dek |-> 0]]
    /\ UNCHANGED << kclock, kcached, kentry, kmu, kdeks, kagain, klost >>

\* BatchCache.Get, on the fast path and again under the lock.
KAfterMiss(t) == IF kthread[t].locked THEN "generate" ELSE "lock"

KGet(t) ==
    LET k == kthread[t].key
    IN  /\ kthread[t].pc = "get"
        /\ \/ k \notin kcached /\ KGoto(t, KAfterMiss(t)) /\ UNCHANGED kmu
           \/ k \in kcached /\ ~Unexpired(k) /\ KGoto(t, "remove") /\ UNCHANGED kmu
           \/ k \in kcached /\ Unexpired(k) /\ KReturn(t, kentry[k].dek)
        /\ UNCHANGED << kclock, kcached, kentry, kdeks, kagain, klost >>

\* cache.Remove(key): the entry there by now, which may be a fresh one.
KRemove(t) ==
    LET k == kthread[t].key
    IN  /\ kthread[t].pc = "remove"
        /\ KGoto(t, KAfterMiss(t))
        /\ kcached' = kcached \ {k}
        /\ klost' = klost \cup {x \in {k} \cap kcached : Unexpired(x)}
        /\ UNCHANGED << kclock, kentry, kmu, kdeks, kagain >>

\* Mutant: the lock is taken without a second look.
KLockNoRecheck(t) ==
    /\ kthread[t].pc = "lock" /\ kmu = {}
    /\ kmu' = {t}
    /\ KNow(t, "generate", TRUE, kthread[t].dek)
    /\ UNCHANGED << kclock, kcached, kentry, kdeks, kagain, klost >>

\* mu.Lock(), then the second look.
KLock(t) ==
    /\ kthread[t].pc = "lock" /\ kmu = {}
    /\ kmu' = {t}
    /\ KNow(t, "get", TRUE, kthread[t].dek)
    /\ UNCHANGED << kclock, kcached, kentry, kdeks, kagain, klost >>

\* generateFn: a new data key from KMS (kms.Client.GenerateDataKey refuses an
\* empty one).
GenerateDataKey(t) ==
    LET k == kthread[t].key
    IN  /\ kthread[t].pc = "generate" /\ kdeks[k] < KMaxDeks
        /\ kdeks' = [kdeks EXCEPT ![k] = @ + 1]
        /\ KNow(t, "set", kthread[t].locked, kdeks[k] + 1)
        /\ kagain' = kagain \cup {x \in {k} : kentry[x].dek > 0 /\ Unexpired(x)}
        /\ UNCHANGED << kclock, kcached, kentry, kmu, klost >>

\* Mutant: the error path keeps the mutex.
GenerateFailsLocked(t) ==
    /\ kthread[t].pc = "generate"
    /\ KGoto(t, "done")
    /\ UNCHANGED << kclock, kcached, kentry, kmu, kdeks, kagain, klost >>

\* generateFn fails: nothing is cached and the deferred Unlock runs.
GenerateFails(t) ==
    /\ kthread[t].pc = "generate"
    /\ KReturn(t, 0)
    /\ UNCHANGED << kclock, kcached, kentry, kdeks, kagain, klost >>

KKeysAfterAdd(k) ==
    IF Cardinality(kcached \cup {k}) <= KCacheSize
    THEN {kcached \cup {k}}
    ELSE {(kcached \ {v}) \cup {k} : v \in kcached \ {k}}

\* BatchCache.Set, then the return of the key in hand.
KSet(t) ==
    LET k == kthread[t].key
    IN  /\ kthread[t].pc = "set"
        /\ kcached' \in KKeysAfterAdd(k)
        /\ kentry' = [kentry EXCEPT ![k] = [dek |-> kthread[t].dek, exp |-> kclock + KTTL]]
        /\ klost' = klost \cup {x \in kcached \ kcached' : Unexpired(x)}
        /\ KReturn(t, kthread[t].dek)
        /\ UNCHANGED << kclock, kdeks, kagain >>

KTick ==
    /\ kclock < KMaxTime
    /\ kclock' = kclock + 1
    /\ UNCHANGED << kcached, kentry, kmu, kthread, kdeks, kagain, klost >>

KStep(t) ==
    KGet(t) \/ KRemove(t) \/ KLock(t) \/ GenerateDataKey(t) \/ GenerateFails(t) \/ KSet(t)

KNext ==
    \/ KTick
    \/ \E t \in KThreads : KStep(t) \/ \E k \in KKeys : GetOrGenerate(t, k)

KSpec == KInit /\ [][KNext]_kvars

-----------------------------------------------------------------------------
\* A batch gets a second data key while its first is still in force only if the
\* first left the cache early: the LRU evicted it, or a caller that had seen an
\* expired entry removed its replacement (batch_cache.go:116-127 promises one
\* call per miss; the lock and the second look keep it but for these two).
OneKeyPerBatch == kagain \subseteq klost

\* The cache keeps its promise within its capacity and with one holder of its mutex.
KeysSound == KTypeOK /\ OneKeyPerBatch

\* Every caller of GetOrGenerate gets an answer, a failed generation included:
\* no error path keeps the mutex (batch_cache.go:134-146).
CallersReturn == \A t \in KThreads : (kthread[t].pc # "idle") ~> (kthread[t].pc = "done")
=============================================================================
