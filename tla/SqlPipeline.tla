----------------------------- MODULE SqlPipeline -----------------------------
(***************************************************************************)
(* A policy on its way from the author to a query: compileArtifact parses  *)
(* the source and emits it for an engine, persist and LoadCompiledForTable *)
(* carry the artifact through the graph, and InjectPolicy rewrites a query *)
(* with it.  PolicyEnforcement says when these steps run and on which      *)
(* version; this module says what they do to the text.                     *)
(***************************************************************************)
EXTENDS PolicySql

CONSTANTS
    SPolicies,   \* [kind, src]: the policies an author writes
    SEngines,    \* engine kinds
    SQueries,    \* [form, proj, table, extra, where, tail, pin]: queries, by their parts
    SMasks       \* mask artifacts in the form the splicer takes

ASSUME SqlAssumption ==
    /\ SEngines \subseteq {"trino", "spark", "dremio"}
    /\ \A p \in SPolicies : p.kind \in {"row_filter", "column_mask"}

VARIABLES
    sphase,      \* authored, compiled, stored, answered or failed
    spolicy,     \* the policy
    sengine,     \* the engine it is compiled for
    sast,        \* its parse tree
    sartifact,   \* [kind, body]: CompiledArtifact, then the CompiledPolicy node
    squery,      \* the query served last, by its parts
    sanswer      \* [err, query]: what the injector returned

svars == << sphase, spolicy, sengine, sast, sartifact, squery, sanswer >>

NoQuery == [form |-> "none", proj |-> << >>, table |-> "", extra |-> << >>,
            where |-> << >>, tail |-> << >>, pin |-> ""]

\* The text of a query from its parts; extra is what follows the table.
Text(q) ==
    (IF q.form = "cte" THEN << "WITH", "a", "AS", "(", ")" >> ELSE << >>)
    \o Select(q.proj, << q.table >> \o q.extra, q.where, q.tail)

SInit ==
    /\ sphase = "authored" /\ spolicy \in SPolicies /\ sengine \in SEngines
    /\ sast = NoNode /\ sartifact = [kind |-> "", body |-> << >>]
    /\ squery = NoQuery /\ sanswer = [err |-> "", query |-> << >>]

-----------------------------------------------------------------------------
(* The compiler.                                                           *)
ParseSource(p) == IF p.kind = "row_filter" THEN ParseRowFilter(p.src) ELSE ParseColumnMask(p.src)

EmitSource(p, node, engine) ==
    IF p.kind = "row_filter" THEN CompileRowFilter(node, engine) ELSE CompileColumnMask(node.args, engine)

Compiled(parsed, sql) ==
    IF parsed.ok /\ sql.err = ""
    THEN /\ sphase' = "compiled" /\ sast' = parsed.node
         /\ sartifact' = [kind |-> spolicy.kind, body |-> sql.body]
    ELSE sphase' = "failed" /\ UNCHANGED << sast, sartifact >>

compileArtifact ==
    /\ sphase = "authored"
    /\ \E parsed \in {ParseSource(spolicy)} :
         Compiled(parsed, EmitSource(spolicy, parsed.node, sengine))
    /\ UNCHANGED << spolicy, sengine, squery, sanswer >>

\* persist fills no ArtifactKind, the MERGE sets none and the load reads none:
\* the node comes back with the empty kind.
persist ==
    /\ sphase = "compiled" /\ sphase' = "stored"
    /\ sartifact' = [sartifact EXCEPT !.kind = ""]
    /\ UNCHANGED << spolicy, sengine, sast, squery, sanswer >>

-----------------------------------------------------------------------------
(* The injector.                                                           *)

\* Trino and Dremio rewrite FROM when a pin is active; Spark has no pins.
Pinned(query, pin) ==
    IF pin = "" \/ sengine = "spark" THEN Spliced(query)
    ELSE RewriteFromForSnapshotPin(query, pin, sengine)

Rewritten(pinned) ==
    IF pinned.err # "" THEN pinned
    ELSE SpliceArtifact(pinned.query, sartifact.body, sartifact.kind)

InjectPolicy(q) ==
    /\ sphase = "stored" /\ sphase' = "answered"
    /\ squery' = q
    /\ sanswer' = Rewritten(Pinned(Text(q), q.pin))
    /\ UNCHANGED << spolicy, sengine, sast, sartifact >>

\* The splicer called with a mask in its own form, the one its tests use.
SpliceMask(body, q) ==
    /\ sphase = "authored" /\ sphase' = "answered" /\ spolicy.kind = "column_mask"
    /\ squery' = q
    /\ sartifact' = [kind |-> "column-mask", body |-> body]
    /\ sanswer' = SpliceArtifact(Text(q), body, "column-mask")
    /\ UNCHANGED << spolicy, sengine, sast >>

SNext ==
    \/ compileArtifact \/ persist
    \/ \E q \in SQueries : InjectPolicy(q)
    \/ \E b \in SMasks, q \in SQueries : SpliceMask(b, q)

SSpec == SInit /\ [][SNext]_svars

-----------------------------------------------------------------------------
(* Properties                                                              *)

STypeOK ==
    /\ sphase \in {"authored", "compiled", "stored", "answered", "failed"}
    /\ sanswer.err \in {"", "malformed", "unsupported", "mismatch"}
    /\ sartifact.kind \in {"", "row_filter", "column_mask", "column-mask"}

\* The parser reads a source as the grammar does: NOT binds tighter than AND
\* and AND than OR, a connective inside a string or a bracket splits nothing,
\* and what is no predicate is refused (sql_grammar.go:144-334).
ParsedAsWritten ==
    spolicy.kind = "row_filter" =>
        /\ sphase = "failed" /\ sengine # "dremio" => RefPredicate(spolicy.src) = NoNode
        /\ sast # NoNode => sast = RefPredicate(spolicy.src)

\* What an emitter writes, read again, is the tree it was given: brackets and
\* doubled quotes keep every precedence and every literal (trino.go:69-189).
EmittedMeansTheSame ==
    sphase \in {"compiled", "stored"} /\ spolicy.kind = "row_filter" =>
        RefPredicate(sartifact.body) = sast

\* A policy reaches the engine with the meaning its author wrote.
PolicyKeepsMeaning == ParsedAsWritten /\ EmittedMeansTheSame

\* A query taken apart for a splice is the one that was asked: every part of a
\* single-table query is found again, whatever its strings hold.  A query of
\* another form is refused, but the condition is not looked into: one that is no
\* predicate by itself ("loose": a set operation in it, a bracket closed before it
\* is opened, a bracket or string left open) is accepted as it stands
\* (splice.go:206-359, against 40-43 and 315).
ShapeIsSound ==
    sphase = "answered" =>
        IF squery.form \in {"single", "loose"}
        THEN parseSelect(Text(squery)) = Shape(squery.proj, squery.table, squery.where, squery.tail)
        ELSE parseSelect(Text(squery)).err = "unsupported" /\ sanswer.err # ""

Both(l, r) == Node("AND", << >>, << l, r >>)

\* The condition n with the policy p conjoined to its last alternative only.
LastAlternative(n, p) ==
    IF n.op = "OR" THEN Node("OR", << >>, << n.args[1], Both(n.args[2], p) >>) ELSE Both(n, p)

\* A row filter is a conjunct of the whole condition if the query's condition is a
\* predicate by itself, or there is none: then the engine sees the query's
\* condition and the policy's.  A loose condition is bracketed as it stands
\* (splice.go:739-742).  Where its own brackets close that bracket and the text
\* still reads as a predicate, the policy governs its last alternative only and
\* the others are not filtered; any other loose text is left to the engine to
\* refuse.  The rest of the query is untouched in every case (splice.go:105-135).
FilterIsConjoined ==
    sphase = "answered" /\ sanswer.err = "" /\ spolicy.kind = "row_filter" =>
        \E s \in {parseSelect(sanswer.query)}, asked \in {RefPredicate(squery.where)},
           read \in {RefPredicate(Bracketed(squery.where))} :
            /\ s.err = "" /\ s.proj = squery.proj /\ s.table = squery.table /\ s.tail = squery.tail
            /\ squery.where = << >> => RefPredicate(s.where) = sast
            /\ asked # NoNode => RefPredicate(s.where) = Both(asked, sast)
            /\ squery.form = "loose" /\ read # NoNode =>
                  RefPredicate(s.where) = LastAlternative(read, sast)
            /\ squery.form = "loose" /\ read = NoNode => RefPredicate(s.where) = NoNode

\* A mask replaces the slot of its column and nothing else: the answer has as
\* many columns as were asked for, the last mask of a column in its slot and the
\* other slots as they were, and a query that lacks a masked column is refused
\* (splice.go:423-453).  Of a column asked for twice the last slot is replaced.
MasksApplied ==
    sphase = "answered" /\ sartifact.kind = "column-mask" =>
        \E masks \in {parseMaskProjections(sartifact.body).masks},
           asked \in {splitTopLevelCommas(squery.proj)},
           given \in {splitTopLevelCommas(parseSelect(sanswer.query).proj)} :
            LET Masked(i) == {k \in DOMAIN masks : masks[k].col = asked[i]}
            IN
            IF sanswer.err = ""
            THEN /\ Len(given) = Len(asked)
                 /\ \A k \in DOMAIN masks : \E i \in DOMAIN asked : k \in Masked(i)
                 /\ \A i \in DOMAIN asked :
                      IF Masked(i) = {} \/ \E j \in DOMAIN asked : j > i /\ asked[j] = asked[i]
                      THEN given[i] = asked[i]
                      ELSE given[i] = masks[Max(Masked(i))].expr \o << "AS" >> \o asked[i]
            ELSE squery.form \in {"single", "loose"} /\ masks # << >> =>
                   \E k \in DOMAIN masks : \A i \in DOMAIN asked : k \notin Masked(i)

\* A rewritten query is the one that was asked, with the policy applied as far as
\* its condition is a predicate and nothing else changed.
QueryKeepsMeaning == STypeOK /\ ShapeIsSound /\ FilterIsConjoined /\ MasksApplied

\* A served mask policy masks: the answer shows the masked column only inside
\* the policy's expression (compiled.go:131-139, splice.go:137-142).
MaskPolicyMasks ==
    sphase = "answered" /\ sanswer.err = "" /\ spolicy.kind = "column_mask" /\ sast # NoNode =>
        << spolicy.src[1] >> \notin Range(splitTopLevelCommas(parseSelect(sanswer.query).proj))
=============================================================================
