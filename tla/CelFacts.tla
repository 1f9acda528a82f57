------------------------------ MODULE CelFacts ------------------------------
(***************************************************************************)
(* What a CEL policy gets to see: the principal taken from the request     *)
(* (internal/gateway/iceberg/principal.go), the maps the gateway makes of  *)
(* it, of the table and of the commit (handler.go), the functions a policy *)
(* calls on these maps (internal/policy/cel), the cache of compiled        *)
(* programs, and the attribute resolver, which reads the graph and the     *)
(* tenants table while both change and fail (internal/policy/store).       *)
(*                                                                         *)
(* A policy is one call of a registered function, compared with a constant *)
(* where it returns a string.                                              *)
(***************************************************************************)
EXTENDS Integers, FiniteSets, Sequences

CONSTANTS
    FScenarios,     \* a caller, its table, the texts its policy may have, the attribute these
                    \* ask for, the shape of the inputs
    FValues,        \* values an administrator gives an attribute
    FUnsafe,        \* words SanitizeCypherLiteral refuses
    FCacheSize,     \* size of the compiler's LRU
    FMaxRequests,   \* bound: requests of the caller
    FMaxChanges     \* bound: changes of attributes, outages and recoveries

VARIABLES
    fcase,          \* the scenario
    ftext,          \* text of the policy in the store
    fpc,            \* where the request is
    fprincipal,     \* what ExtractPrincipal returned
    finputs,        \* cel.Inputs
    fcache,         \* compiled programs by cacheKey
    fprogram,       \* the program under evaluation
    fanswer,        \* what principal.attribute returned
    fverdict,       \* allow, deny, error, or "" before a verdict
    fown,           \* value of the principal's own attribute in the graph
    fdown,          \* stores that cannot be read now
    fchanges,       \* changes so far
    frequests,      \* requests so far
    fheld,          \* history: what the graph answered for this principal, since arrival
    fdefaults       \* history: the same of the tenant's default

fvars == << fcase, ftext, fpc, fprincipal, finputs, fcache, fprogram, fanswer,
            fverdict, fown, fdown, fchanges, frequests, fheld, fdefaults >>

-----------------------------------------------------------------------------
(* JSON values; a string is the sequence of its words.                     *)
Str(words) == [t |-> "string", words |-> words]
Num == [t |-> "number"]
Lst(items) == [t |-> "list", items |-> items]
Obj(fields) == [t |-> "map", at |-> fields]
Nothing == [t |-> "nothing"]
Empty == Str(<< >>)

\* A lookup finds nothing in a value that is not a map.
Find(x, k) == IF x.t = "map" /\ k \in DOMAIN x.at THEN x.at[k] ELSE Nothing

\* v, _ := x.(string)
StringOf(x) == IF x.t = "string" THEN x ELSE Empty

Items(x) == {x.items[i] : i \in DOMAIN x.items}
IsText(x) == x.t = "string" /\ x # Empty

\* A policy is one call; where it asks for a region or an attribute it names one.
\* The transforms of a table are words, and an attribute starts unset or with a value.
Calls == {"has_column", "has_partition", "role", "classification", "partition_spec",
          "region", "region alone", "attribute", "ill-formed"}
ASSUME FAssumption ==
    /\ {FCacheSize, FMaxRequests} \subseteq Nat \ {0} /\ FMaxChanges \in Nat
    /\ \A c \in FScenarios :
         /\ \A p \in c.texts : p.fn \in Calls /\ (p.fn \in {"region", "attribute"} => p.want # Empty)
         /\ \A p \in c.texts : p.fn = "attribute" => p.arg = c.attribute
         /\ c.table.transforms.t = "map" =>
              \A k \in DOMAIN c.table.transforms.at : c.table.transforms.at[k].t # "list"
         /\ c.own \in {Empty} \cup FValues

-----------------------------------------------------------------------------
(* Who is asking.                                                          *)
NoPrincipal == [sub |-> Empty, email |-> Empty, roles |-> {}]

\* URI names come before DNS names; empty ones are passed over.
extractSAN(cert) ==
    LET named(s) == SelectSeq(s, LAMBDA n : n # Empty)
        all == named(cert.uris) \o named(cert.dns)
    IN  IF all = << >> THEN Empty ELSE all[1]

\* strings.Fields
Fields(x) == {Str(<< x.words[i] >>) : i \in DOMAIN x.words}

\* Mutant: only lists of roles are read.
extractRoleLists(claims) ==
    LET roles == Find(claims, "roles")
    IN  IF roles.t = "list" THEN {r \in Items(roles) : IsText(r)} ELSE {}

extractRoles(claims) ==
    LET roles == Find(claims, "roles")
        groups == Find(claims, "groups")
    IN  IF roles.t = "list" THEN {r \in Items(roles) : IsText(r)}
        ELSE IF IsText(roles) THEN Fields(roles)
        ELSE IF groups.t = "list" THEN {g \in Items(groups) : IsText(g)}
        ELSE {}

parseJWTUnverified(token) ==
    IF IsText(Find(token, "sub"))
    THEN [sub |-> Find(token, "sub"), email |-> StringOf(Find(token, "email")),
          roles |-> extractRoles(token)]
    ELSE NoPrincipal

validatePrincipalNotEmpty(p) == p.sub # Empty

\* Mutant: the roles of a token are kept although the certificate names the caller.
PrincipalOfBoth(r) ==
    LET san == extractSAN(r.cert)
        bearer == parseJWTUnverified(r.token)
    IN  IF san # Empty THEN [bearer EXCEPT !.sub = san] ELSE bearer

\* Certificate, then bearer token, then the tenant of the session.
Principal(r) ==
    LET san == extractSAN(r.cert)
        bearer == parseJWTUnverified(r.token)
    IN  CASE san # Empty -> [NoPrincipal EXCEPT !.sub = san]
          [] san = Empty /\ bearer # NoPrincipal -> bearer
          [] san = Empty /\ bearer = NoPrincipal -> [NoPrincipal EXCEPT !.sub = r.tenant]

-----------------------------------------------------------------------------
(* What the gateway makes of the request, the table and the commit.        *)
Named(name) == Obj([name |-> Str(<< name >>)])
ListOf(names) == Lst([i \in DOMAIN names |-> Named(names[i])])

schemaToMap(columns) == Obj([fields |-> ListOf(columns)])
partitionSpecToMap(fields) == Obj([spec_id |-> Num, fields |-> ListOf(fields)])

tableMetadataToMap(t) ==
    Obj([uuid |-> Str(<< "uuid" >>), schema |-> schemaToMap(t.columns),
         partition_spec |-> partitionSpecToMap(t.partition)])

commitRequestToMap == Obj([requirements |-> Lst(<< >>), updates |-> Lst(<< >>)])

principalToMap(p) == [sub |-> p.sub, email |-> p.email, roles |-> p.roles]

\* The shape the functions' comments describe and their tests pass to Evaluate.
DocumentedTable(t) ==
    Obj([schema |-> schemaToMap(t.columns), columns |-> ListOf(t.columns),
         classifications |-> t.tags, partition_spec |-> t.transforms])
DocumentedCommit(t) == Obj([location_region |-> t.region])

Inputs(c, p) ==
    IF c.shape = "gateway"
    THEN [table |-> tableMetadataToMap(c.table), commit |-> commitRequestToMap,
          principal |-> principalToMap(p), claims |-> Nothing, resolver |-> TRUE]
    ELSE [table |-> DocumentedTable(c.table), commit |-> DocumentedCommit(c.table),
          principal |-> principalToMap(p), claims |-> c.request.token, resolver |-> c.resolver]

-----------------------------------------------------------------------------
(* The functions a policy calls.                                           *)
HasNamed(list, name) ==
    list.t = "list" /\ \E f \in Items(list) : f.t = "map" /\ StringOf(Find(f, "name")) = name

hasColumnImpl(table, name) == HasNamed(Find(Find(table, "schema"), "fields"), name)
hasPartitionImpl(table, spec) == HasNamed(Find(Find(table, "partition_spec"), "fields"), spec)
principalRoleImpl(principal, role) == role \in principal.roles
locationRegionImpl(commit) == StringOf(Find(commit, "location_region"))

\* The entries of table["classifications"] that name a column and a tag.
tagsByCol(classifications, col) ==
    {Find(e, "tag") : e \in {x \in Items(classifications) :
        Find(x, "column_name") = col /\ Find(x, "tag").t = "string"}}

classificationSatisfiedImpl(table, pattern, tag) ==
    LET cls == Find(table, "classifications")
        cols == Find(table, "columns")
    IN  /\ pattern.t = "pattern"
        /\ cls.t = "list" /\ cols.t = "list"
        /\ \A c \in Items(cols) :
             LET name == Find(c, "name")
             IN  name.t = "string" /\ name.words[1] \in pattern.matches
                   => tag \in tagsByCol(cls, name)

\* Values that are no strings are left out.
partitionSpecImpl(table) ==
    LET spec == Find(table, "partition_spec")
    IN  IF spec.t # "map" THEN << >>
        ELSE [k \in {k \in DOMAIN spec.at : spec.at[k].t = "string"} |-> spec.at[k]]

principalAttributeLayer1(claims, name) == StringOf(Find(claims, name))

-----------------------------------------------------------------------------
FInit ==
    /\ fcase \in FScenarios
    /\ ftext \in fcase.texts
    /\ fpc = "arrived"
    /\ fprincipal = NoPrincipal
    /\ finputs = << >>
    /\ fcache = << >> /\ fprogram = << >>
    /\ fanswer = Empty /\ fverdict = ""
    /\ fown = fcase.own
    /\ fdown = {} /\ fchanges = 0 /\ frequests = 1
    /\ fheld = {fown} /\ fdefaults = {StringOf(Find(fcase.defaults, fcase.attribute))}

FStores == UNCHANGED << fcase, ftext, fown, fdown, fchanges, frequests, fheld, fdefaults >>

\* Step 1 of the handlers: a request without a tenant.
NoTenant == fcase.shape = "gateway" /\ fcase.request.tenant = Empty

RefuseWithoutTenant ==
    /\ fpc = "arrived" /\ NoTenant
    /\ fpc' = "refused"
    /\ FStores /\ UNCHANGED << fprincipal, finputs, fcache, fprogram, fanswer, fverdict >>

\* Step 3 of the handlers.
ExtractPrincipal ==
    /\ fpc = "arrived" /\ ~NoTenant
    /\ fprincipal' = Principal(fcase.request)
    /\ fpc' = IF validatePrincipalNotEmpty(fprincipal') THEN "project" ELSE "refused"
    /\ FStores /\ UNCHANGED << finputs, fcache, fprogram, fanswer, fverdict >>

\* Step 10, before the loop.
Project ==
    /\ fpc = "project"
    /\ finputs' = Inputs(fcase, fprincipal)
    /\ fpc' = "compile"
    /\ FStores /\ UNCHANGED << fprincipal, fcache, fprogram, fanswer, fverdict >>

Verdict(v) == fverdict' = v /\ fpc' = "done"

CacheKey(text) == [id |-> "p", hash |-> text]

\* LRU.Add: when the cache is full one entry makes room.
ProgramAdded(key, prog) ==
    \E kept \in SUBSET DOMAIN fcache :
        /\ Cardinality(kept) = IF Cardinality(DOMAIN fcache) < FCacheSize
                               THEN Cardinality(DOMAIN fcache) ELSE FCacheSize - 1
        /\ fcache' = [k \in kept \cup {key} |-> IF k = key THEN prog ELSE fcache[k]]

CompileOrGet ==
    /\ fpc = "compile"
    /\ LET key == CacheKey(ftext)
       IN  \/ /\ key \in DOMAIN fcache
              /\ fprogram' = fcache[key] /\ fpc' = "evaluate"
              /\ UNCHANGED << fcache, fverdict >>
           \/ /\ key \notin DOMAIN fcache /\ ftext.fn # "ill-formed"
              /\ ProgramAdded(key, ftext)
              /\ fprogram' = ftext /\ fpc' = "evaluate"
              /\ UNCHANGED fverdict
           \/ /\ key \notin DOMAIN fcache /\ ftext.fn = "ill-formed"
              /\ Verdict("error")
              /\ UNCHANGED << fcache, fprogram >>
    /\ FStores /\ UNCHANGED << fprincipal, finputs, fanswer >>

\* The value of a program, or "error": an index on a missing key, or a policy
\* that is no Boolean.  The attribute of a principal is fanswer by then.
Value(prog, in, answer) ==
    CASE prog.fn = "has_column" -> hasColumnImpl(in.table, prog.arg)
      [] prog.fn = "has_partition" -> hasPartitionImpl(in.table, prog.arg)
      [] prog.fn = "role" -> principalRoleImpl(in.principal, prog.arg)
      [] prog.fn = "classification" -> classificationSatisfiedImpl(in.table, prog.arg, prog.want)
      [] prog.fn = "partition_spec" -> partitionSpecImpl(in.table)[prog.arg] = prog.want
      [] prog.fn = "region" -> locationRegionImpl(in.commit) = prog.want
      [] prog.fn = "attribute" -> answer = prog.want

Fails(prog, in) ==
    \/ prog.fn = "region alone"
    \/ prog.fn = "partition_spec" /\ prog.arg \notin DOMAIN partitionSpecImpl(in.table)

Conclude ==
    Verdict(CASE Fails(fprogram, finputs) -> "error"
              [] OTHER -> IF Value(fprogram, finputs, fanswer') THEN "allow" ELSE "deny")

Evaluate ==
    /\ fpc = "evaluate" /\ fprogram.fn # "attribute"
    /\ UNCHANGED fanswer
    /\ Conclude
    /\ FStores /\ UNCHANGED << fprincipal, finputs, fcache, fprogram >>

\* principalAttributeInterpretable.Eval: the claims answer, or nobody else can.
AttributeFromClaims ==
    /\ fpc = "evaluate" /\ fprogram.fn = "attribute"
    /\ LET claim == principalAttributeLayer1(finputs.claims, fprogram.arg)
       IN  \/ /\ claim # Empty \/ ~finputs.resolver \/ fcase.request.tenant = Empty
              /\ fanswer' = claim
              /\ Conclude
           \/ /\ claim = Empty /\ finputs.resolver /\ fcase.request.tenant # Empty
              /\ fpc' = "graph"
              /\ UNCHANGED << fanswer, fverdict >>
    /\ FStores /\ UNCHANGED << fprincipal, finputs, fcache, fprogram >>

Sanitized(sub) == \A i \in DOMAIN sub.words : sub.words[i] \notin FUnsafe

\* Neither the subject nor the attribute's name is refused.
Askable == Sanitized(fprincipal.sub) /\ fcase.attribute \notin FUnsafe

\* One value that is no string makes the whole column unreadable.
layer3TenantDefault ==
    LET row == fcase.defaults
    IN  IF "admin" \notin fdown /\ row.t = "map" /\ \A k \in DOMAIN row.at : row.at[k].t = "string"
        THEN StringOf(Find(row, fcase.attribute)) ELSE Empty

\* Mutant: the tenant's default is consulted before the graph.
GraphAfterDefault == IF layer3TenantDefault # Empty THEN layer3TenantDefault ELSE fown

\* A name that is refused and a query that fails count as no value.
layer2Graph == IF Askable /\ "graph" \notin fdown THEN fown ELSE Empty

AskGraph ==
    /\ fpc = "graph"
    /\ LET v == layer2Graph
       IN  \/ v # Empty /\ fanswer' = v /\ Conclude
           \/ v = Empty /\ fpc' = "default" /\ UNCHANGED << fanswer, fverdict >>
    /\ FStores /\ UNCHANGED << fprincipal, finputs, fcache, fprogram >>

AskDefault ==
    /\ fpc = "default"
    /\ fanswer' = layer3TenantDefault
    /\ Conclude
    /\ FStores /\ UNCHANGED << fprincipal, finputs, fcache, fprogram >>

\* The next request of the same caller finds the program in the cache; the
\* policy may have been authored anew.
NextRequest ==
    /\ fpc \in {"done", "refused"}
    /\ frequests < FMaxRequests /\ frequests' = frequests + 1
    /\ ftext' \in fcase.texts
    /\ fpc' = "arrived" /\ fanswer' = Empty /\ fverdict' = ""
    /\ fheld' = {IF "graph" \in fdown THEN Empty ELSE fown}
    /\ UNCHANGED << fcase, fprincipal, finputs, fcache, fprogram, fown, fdown, fchanges, fdefaults >>

\* An administrator sets or removes the attribute, or a store goes or comes back.
FChange ==
    /\ fpc \in {"graph", "default"}
    /\ fchanges < FMaxChanges /\ fchanges' = fchanges + 1
    /\ \/ fown' \in ({Empty} \cup FValues) \ {fown} /\ UNCHANGED fdown
       \/ \E s \in {"graph", "admin"} :
            /\ fdown' = IF s \in fdown THEN fdown \ {s} ELSE fdown \cup {s}
            /\ UNCHANGED fown
    /\ fheld' = fheld \cup {IF "graph" \in fdown' THEN Empty ELSE fown'}
    /\ UNCHANGED << fcase, ftext, fpc, fprincipal, finputs, fcache, fprogram, fanswer,
                    fverdict, frequests, fdefaults >>

FNext ==
    \/ RefuseWithoutTenant \/ ExtractPrincipal \/ Project \/ CompileOrGet \/ Evaluate
    \/ AttributeFromClaims \/ AskGraph \/ AskDefault
    \/ NextRequest \/ FChange

FSpec == FInit /\ [][FNext]_fvars

-----------------------------------------------------------------------------
(* What is true of the table and of the caller, whatever the maps say.     *)
Columns == {Str(<< fcase.table.columns[i] >>) : i \in DOMAIN fcase.table.columns}
PartitionFields == {Str(<< fcase.table.partition[i] >>) : i \in DOMAIN fcase.table.partition}

\* Only a caller named by its token has a role, which has a name and which the
\* token lists among its roles or, if it says nothing of roles, among its groups.
Lists(claim, role) ==
    \/ claim.t = "list" /\ role \in Items(claim)
    \/ claim.t = "string" /\ \E i \in DOMAIN claim.words : role = Str(<< claim.words[i] >>)

HasRole(r, role) ==
    LET roles == Find(r.token, "roles")
        groups == Find(r.token, "groups")
    IN  /\ extractSAN(r.cert) = Empty /\ IsText(Find(r.token, "sub")) /\ IsText(role)
        /\ \/ Lists(roles, role)
           \/ roles.t # "list" /\ ~IsText(roles) /\ groups.t = "list" /\ Lists(groups, role)

\* Columns that match a pattern, and the tags recorded for one.
Matching(pattern) == {c \in Columns : pattern.t = "pattern" /\ c.words[1] \in pattern.matches}
Recorded(c) == {e \in Items(fcase.table.tags) : Find(e, "column_name") = c}

FactHolds(p) ==
    CASE p.fn = "has_column" -> p.arg \in Columns
      [] p.fn = "has_partition" -> p.arg \in PartitionFields
      [] p.fn = "role" -> HasRole(fcase.request, p.arg)
      [] p.fn = "classification" ->
           p.arg.t = "pattern" /\ \A c \in Matching(p.arg) : \E e \in Recorded(c) : Find(e, "tag") = p.want
      [] p.fn = "partition_spec" -> Find(fcase.table.transforms, p.arg) = p.want
      [] p.fn = "region" -> p.want = fcase.table.region
      [] p.fn = "attribute" ->
           p.want \in fheld \cup fdefaults \cup {Find(fcase.request.token, p.arg)}
      [] OTHER -> FALSE

\* The state keeps its shape.
FTypeOK ==
    /\ ftext \in fcase.texts
    /\ fpc \in {"arrived", "project", "compile", "evaluate", "graph", "default", "done", "refused"}
    /\ fverdict \in {"", "allow", "deny", "error"}
    /\ fverdict # "" <=> fpc = "done"
    /\ Cardinality(DOMAIN fcache) <= FCacheSize
    /\ fown \in {Empty} \cup FValues /\ fdown \subseteq {"graph", "admin"}
    /\ fchanges \in 0 .. FMaxChanges /\ frequests \in 1 .. FMaxRequests

\* A policy that demands a fact allows a commit only if the fact held of the
\* table or of the caller during the request: not for another kind of value in
\* a claim, not by the program of an earlier text, not with the roles of a token
\* beside a certificate (Evaluate, the functions, CompileOrGet, ExtractPrincipal).
NeverFailsOpen == fverdict = "allow" => FactHolds(ftext)

\* Facts the gateway hands to a policy are seen: a commit is not denied over a
\* column, a partition field or a role that is there (tableMetadataToMap,
\* principalToMap, hasColumnImpl, hasPartitionImpl, principalRoleImpl).
FactsReachPolicies ==
    fverdict = "deny" /\ fcase.shape = "gateway"
        /\ ftext.fn \in {"has_column", "has_partition", "role"} => ~FactHolds(ftext)

\* While a caller's own attribute can be read and is set, no default of the
\* tenant stands in for it, whatever changes meanwhile (AttributeResolver.Resolve).
OwnAttributeWins ==
    fpc = "done" /\ fverdict # "error" /\ ftext.fn = "attribute"
        /\ fcase.shape = "gateway" /\ Askable /\ Empty \notin fheld
      => fanswer \in fheld

\* A verdict follows the facts: neither open without one nor closed against one,
\* and a caller's own attribute counts before a default.
VerdictsFollowFacts == FTypeOK /\ NeverFailsOpen /\ FactsReachPolicies /\ OwnAttributeWins
=============================================================================
