------------------------- MODULE CredentialVending -------------------------
(***************************************************************************)
(* POST /v1/credvend/sts (internal/credvend): the handler, the service and *)
(* its LRU of STS credentials, with the catalog's answer as read by        *)
(* polaris.parseVendedCreds.  A request is split where another goroutine   *)
(* can run: the read of the catalog row, the lookup, the removal of a      *)
(* stale entry, the upstream call and the cache fill.                      *)
(***************************************************************************)
EXTENDS Integers, FiniteSets

CONSTANTS
    VRequests,      \* requests of the vending endpoint
    VTenants, VCatalogs, VTables, VRegions,
    VVends,         \* catalogs whose adapter vends credentials
    VCacheSize,     \* capacity of the credential cache
    VTTL,           \* lifetimes the catalog gives its credentials
    VMaxTime        \* bound: last value of the clock

ASSUME VAssumption ==
    /\ {} \notin {VTenants, VCatalogs, VTables, VRegions}
    /\ VTTL \subseteq Nat
    /\ {VCacheSize, VMaxTime} \subseteq Nat \ {0}

VARIABLES
    vclock,         \* time.Now()
    ventry,         \* the LRU: cachedCreds of each key present
    vreq            \* state of each request

vvars == << vclock, ventry, vreq >>

\* STSCredentials with what they are scoped to; exp 0 is the zero time of an
\* answer that carries no expiry (the clock starts after it).
Creds == [tenant : VTenants, cat : VCatalogs, table : VTables, region : VRegions,
          exp : Nat]

\* Mutant: tenants share an entry.
KeyWithoutTenant(q) == << CHOOSE t \in VTenants : TRUE, q.table, q.region >>

\* cacheKey: the tenant, the full table name and the region, not the catalog.
Key(q) == << q.tenant, q.table, q.region >>

NewRequest(t, c, tab, g) ==
    [pc |-> "row", tenant |-> t, cat |-> c, table |-> tab, region |-> g,
     status |-> 0, creds |-> {}, spent |-> 0, left |-> 0]

VIdle == [NewRequest(CHOOSE t \in VTenants : TRUE, CHOOSE c \in VCatalogs : TRUE,
                     CHOOSE t \in VTables : TRUE, CHOOSE g \in VRegions : TRUE)
          EXCEPT !.pc = "idle"]

\* The state keeps its shape; in particular the LRU stays within its capacity
\* and a request answered with an error carries no credentials.
VTypeOK ==
    /\ vclock \in 1 .. VMaxTime
    /\ DOMAIN ventry \subseteq VTenants \X VTables \X VRegions
    /\ Cardinality(DOMAIN ventry) <= VCacheSize
    /\ \A k \in DOMAIN ventry : ventry[k].creds \in Creds /\ ventry[k].at \in 1 .. vclock
    /\ \A r \in VRequests :
         /\ vreq[r].status \in {0, 200, 404, 501, 503}
         /\ vreq[r].pc = "done" => vreq[r].status # 0 /\ (vreq[r].creds # {} <=> vreq[r].status = 200)

VInit ==
    /\ vclock = 1
    /\ ventry = << >>
    /\ vreq = [r \in VRequests |-> VIdle]

-----------------------------------------------------------------------------
VGoto(r, pc) == vreq' = [vreq EXCEPT ![r].pc = pc]

Respond(r, s) == vreq' = [vreq EXCEPT ![r].pc = "done", ![r].status = s]

\* A request with a tenant and well-formed identifiers arrives.
IssueSTS(r, t, c, tab, g) ==
    /\ vreq[r].pc \in {"idle", "done"}
    /\ vreq' = [vreq EXCEPT ![r] = NewRequest(t, c, tab, g)]
    /\ UNCHANGED << vclock, ventry >>

\* GetCatalogCredentials, and the adapter built from the row.  The operator adds
\* and removes rows at any time, so the row is there, gone or unreadable.
GetCatalogCredentials(r) ==
    /\ vreq[r].pc = "row"
    /\ VGoto(r, "lookup") \/ Respond(r, 404) \/ Respond(r, 503)
    /\ UNCHANGED << vclock, ventry >>

\* Mutant: an entry is good until it expires.
FreshUntilExpiry(e) == vclock <= e.creds.exp

\* Cache.Get: an entry past the middle of its cached life is not returned.
Fresh(e) == /\ vclock <= e.creds.exp
            /\ vclock <= e.at + (e.creds.exp - e.at) \div 2

CacheGet(r) ==
    LET k == Key(vreq[r])
    IN  /\ vreq[r].pc = "lookup"
        /\ \/ k \notin DOMAIN ventry /\ VGoto(r, "issue")
           \/ k \in DOMAIN ventry /\ ~Fresh(ventry[k]) /\ VGoto(r, "remove")
           \/ /\ k \in DOMAIN ventry /\ Fresh(ventry[k])
              /\ vreq' = [vreq EXCEPT ![r].pc = "done", ![r].status = 200,
                                      ![r].creds = {ventry[k].creds},
                                      ![r].spent = vclock - ventry[k].at,
                                      ![r].left = ventry[k].creds.exp - vclock]
        /\ UNCHANGED << vclock, ventry >>

Holding(keys) == [k \in keys |-> ventry[k]]

\* The removal goes by key: it takes whatever entry is there by now.
CacheRemove(r) ==
    /\ vreq[r].pc = "remove"
    /\ VGoto(r, "issue")
    /\ ventry' = Holding(DOMAIN ventry \ {Key(vreq[r])})
    /\ UNCHANGED vclock

\* Service.Issue on a miss: the capability check, then the catalog's answer as
\* parseVendedCreds reads it, with or without an expiry.
Issue(r) ==
    LET q == vreq[r]
    IN  /\ q.pc = "issue"
        /\ \/ /\ q.cat \in VVends
              /\ \E exp \in {0} \cup {vclock + d : d \in VTTL} :
                   vreq' = [vreq EXCEPT ![r].pc = "add",
                     ![r].creds = {[tenant |-> q.tenant, cat |-> q.cat, table |-> q.table,
                                    region |-> q.region, exp |-> exp]}]
           \/ q.cat \in VVends /\ Respond(r, 503)
           \/ q.cat \notin VVends /\ Respond(r, 501)
        /\ UNCHANGED << vclock, ventry >>

\* The LRU with room made for a key: when full, any other key may be the oldest.
RoomFor(k) ==
    IF Cardinality(DOMAIN ventry \cup {k}) <= VCacheSize
    THEN {DOMAIN ventry}
    ELSE {DOMAIN ventry \ {v} : v \in DOMAIN ventry \ {k}}

\* Cache.Add stamps the entry with the time of the fill, not of the issue.
CacheAdd(r) ==
    LET k == Key(vreq[r])
    IN  /\ vreq[r].pc = "add"
        /\ \E kept \in RoomFor(k), c \in vreq[r].creds :
             ventry' = [x \in kept \cup {k} |-> IF x = k THEN [creds |-> c, at |-> vclock]
                                                ELSE ventry[x]]
        /\ Respond(r, 200)
        /\ UNCHANGED vclock

-----------------------------------------------------------------------------
VTick ==
    /\ vclock < VMaxTime
    /\ vclock' = vclock + 1
    /\ UNCHANGED << ventry, vreq >>

VNext ==
    \/ VTick
    \/ \E r \in VRequests :
         \/ \E t \in VTenants, c \in VCatalogs, tab \in VTables, g \in VRegions :
              IssueSTS(r, t, c, tab, g)
         \/ GetCatalogCredentials(r) \/ CacheGet(r) \/ CacheRemove(r) \/ Issue(r) \/ CacheAdd(r)

VSpec == VInit /\ [][VNext]_vvars

-----------------------------------------------------------------------------
\* Whatever the interleaving of fills and lookups, a request answered 200 gets
\* credentials issued for its own tenant, table and region (cache.go:34-43; the
\* catalog is not part of the key, so it is not part of the promise).
OwnCredentials ==
    \A r \in VRequests : vreq[r].status = 200 =>
        \A c \in vreq[r].creds : /\ c.tenant = vreq[r].tenant
                                 /\ c.table = vreq[r].table
                                 /\ c.region = vreq[r].region

\* Credentials handed out of the cache have at least as much life left as they
\* have spent in it, so they do not expire right after the answer, and an answer
\* without an expiry is never reused (cache.go:3-6, 95-117).
HalfLifeLeft == \A r \in VRequests : vreq[r].left >= vreq[r].spent

\* Credentials reach the tenant they were issued for with half of their life
\* left, and the cache keeps within its capacity meanwhile.
CredentialsSound == VTypeOK /\ OwnCredentials /\ HalfLifeLeft
=============================================================================
