--------------------------- MODULE MCSqlPipeline ---------------------------
(***************************************************************************)
(* Texts for SqlPipeline: every predicate two connectives deep over two    *)
(* atoms, texts with one symbol missing, and queries of every form.        *)
(***************************************************************************)
EXTENDS SqlPipeline

A1 == << "a", "=", "1" >>
B1 == << "b", "=", "'", "OR", "'" >>

Atoms == {A1, B1}
NotOf(S) == {<< "NOT" >> \o x : x \in S} \cup {<< "(" >> \o x \o << ")" >> : x \in S}
JoinOf(S, T) == {x \o << op >> \o y : x \in S, op \in {"AND", "OR"}, y \in T}

Level1 == Atoms \cup NotOf(Atoms) \cup JoinOf(Atoms, Atoms)
Level2 == Level1 \cup NotOf(Level1) \cup JoinOf(Level1, Atoms)

\* A literal with a doubled quote, with brackets, a list, a pattern.
Literals == {
    << "a", "=", "'", "'", "'", "OR", "'" >>,
    << "a", "=", "'", "x", "'", "'", ")", "'", "AND", "b", "=", "NULL" >>,
    << "a", "IN", "(", "'", "x", ",", "'", ",", "1", ",", "NULL", ")", "OR", "t.a", "=", "1" >>,
    << "NOT", "a", "LIKE", "'", "(", "'", "AND", "b", "<=", "1" >>}

\* Each symbol of a text left out in turn.
WithoutOne(s) == {RemoveAt(s, i) : i \in DOMAIN s}
Broken == WithoutOne(<< "(", "a", "=", "'", "x", "'", "OR", "b", "=", "1", ")", "AND", "a", "=", "1" >>)
          \cup WithoutOne(<< "a", "IN", "(", "1", ",", "'", "x", "'", ")" >>)

MCPolicies ==
    {[kind |-> "row_filter", src |-> s] : s \in Level2 \cup Literals \cup Broken}
    \cup {[kind |-> "column_mask", src |-> s] : s \in {
            << "a", "AS", "NULL" >>, << "a", "AS" >>,
            << "a", "AS", "hash", "(", "a", ")", ",", "b", "AS", "'", "x", "'" >>,
            << "a", "AS", "lower", "(", "a", ")", "," >>, << "a", "AS", "md5", "(", "a", ")" >>}}

MCMasks == {
    << "a", "AS", "NULL" >>,
    << "b", "AS", "lower", "(", "b", ")", ",", "a", "AS", "'", ",", "AS", "'" >>,
    << "a", "AS", "NULL", ",", "a", "AS", "'", "x", "'" >>,
    << "lower", "(", "a", ")", "AS", "a" >>}

Q(p, w, t, i) == [form |-> "single", proj |-> p, table |-> "n.t", extra |-> << >>,
                  where |-> w, tail |-> t, pin |-> i]

Projections == {<< "a" >>, << "*" >>, << "a", ",", "b" >>, << "a", ",", "b", ",", "a" >>,
                << "count", "(", "*", ")" >>, << "'", "FROM", "'", ",", "a" >>,
                << "lower", "(", "a", ",", "b", ")", "AS", "a", ",", "t.a" >>}
Conditions == {<< >>, A1, << "a", "=", "1", "OR", "b", "=", "'", "GROUP", "'" >>,
               << "(", "a", "=", "1", "OR", "b", "=", "1", ")", "AND", "b", "IN", "(", "1", ")" >>,
               << "b", "=", "'", "'", "'", "WHERE", "'", "OR", "NOT", "a", "=", "1" >>}
Tails == {<< >>, << "ORDER", "a" >>, << "GROUP", "a", "HAVING", "b", "=", "'", "UNION", "'", "LIMIT", "1" >>}

\* Conditions that are no predicate by themselves.
Loose == {<< "a", "=", "1", ")", "OR", "(", "b", "=", "1" >>,
          << "a", "=", "1", ")", "AND", "(", "b", "=", "1" >>,
          << "(", "a", "=", "1" >>, << "a", "=", "'" >>,
          << "a", "=", "1", "UNION", "SELECT", "b", "FROM", "u" >>}

Other(f, table, extra, tail) ==
    [form |-> f, proj |-> << "a" >>, table |-> table, extra |-> extra,
     where |-> << >>, tail |-> tail, pin |-> ""]

MCQueries ==
    {Q(p, A1, << "LIMIT", "1" >>, "") : p \in Projections}
    \cup {Q(<< "a", ",", "b" >>, w, t, "") : w \in Conditions, t \in Tails}
    \cup {Q(<< "a" >>, w, << >>, i) : w \in {<< >>, A1}, i \in {"1", "x"}}
    \cup {[Q(<< "a", ",", "b" >>, w, << >>, "") EXCEPT !.form = "loose"] : w \in Loose}
    \cup {Other("cte", "t", << >>, << >>),
          Other("comma", "t", << ",", "u" >>, << >>),
          Other("join", "t", << "JOIN", "u" >>, << >>),
          Other("alias", "t", << "AS", "u" >>, << >>),
          Other("set", "t", << "UNION", "SELECT", "b", "FROM", "u" >>, << >>),
          Other("set", "t", << >>, << "LIMIT", "1", "UNION", "SELECT", "b", "FROM", "u" >>),
          Other("subquery", "(", << "SELECT", "a", "FROM", "t", ")" >>, << >>)}
=============================================================================
