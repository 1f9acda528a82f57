------------------------------- MODULE SqlText -------------------------------
(***************************************************************************)
(* The splicer of the SQL proxy (internal/sqlproxy/dialect/splice.go).     *)
(* A query is a sequence of symbols: a word, a bracket, a comma or a quote *)
(* is one symbol and blanks are left out, so a string literal is a quote,  *)
(* any symbols and a quote, and two quotes in a row inside it stand for    *)
(* one.  A dotted name is one word.                                        *)
(***************************************************************************)
EXTENDS Naturals, Sequences, SequencesExt, FiniteSetsExt

TailWords == {"GROUP", "HAVING", "ORDER", "LIMIT"}
SetWords  == {"UNION", "INTERSECT", "EXCEPT"}

\* Everything but these starts with a letter and can be taken for a name.
Comparators == {"=", "!=", "<>", "<=", ">=", "<", ">"}
Punctuation == Comparators \cup {"(", ")", ",", "'", "*", "1"}
IsWord(c) == c \notin Punctuation
Dotted == {"n.t", "t.a"}
isSimpleIdent(s) == Len(s) = 1 /\ IsWord(s[1]) /\ s[1] \notin Dotted

-----------------------------------------------------------------------------
(* The lexer loop every scan of splice.go repeats.                         *)
ScanStart == [str |-> FALSE, esc |-> FALSE, depth |-> 0, bad |-> FALSE]

\* One symbol: esc marks the first quote of an escaped pair, bad a closing
\* bracket with none open, which only the strict scans report.
ScanStep(st, s, i) ==
    CASE st.esc -> [st EXCEPT !.esc = FALSE]
      [] ~st.esc /\ st.str /\ s[i] = "'" ->
           IF i < Len(s) /\ s[i + 1] = "'" THEN [st EXCEPT !.esc = TRUE]
                                           ELSE [st EXCEPT !.str = FALSE]
      [] ~st.esc /\ ~st.str /\ s[i] = "'" -> [st EXCEPT !.str = TRUE]
      [] ~st.esc /\ ~st.str /\ s[i] = "(" -> [st EXCEPT !.depth = @ + 1]
      [] ~st.esc /\ ~st.str /\ s[i] = ")" ->
           IF st.depth > 0 THEN [st EXCEPT !.depth = @ - 1] ELSE [st EXCEPT !.bad = TRUE]
      [] OTHER -> st

\* The state of the scan after each symbol.
Scan(s) == LET f[i \in 0 .. Len(s)] == IF i = 0 THEN ScanStart ELSE ScanStep(f[i - 1], s, i)
           IN  f

\* Places outside strings and brackets that hold one of some symbols.
Outside(f, i) == ~f[i].str /\ f[i].depth = 0
PlacesOf(f, s, words) == {i \in DOMAIN s : s[i] \in words /\ Outside(f, i)}
TopPlaces(s, words) == PlacesOf(Scan(s), s, words)

\* Mutant: strings are not skipped.
FirstPlaceInStrings(s, words) ==
    LET f == Scan(s) IN Min({i \in DOMAIN s : s[i] \in words /\ f[i].depth = 0} \cup {Len(s) + 1})

FirstPlace(s, words) == Min(TopPlaces(s, words) \cup {Len(s) + 1})
findKeyword(s, word) == FirstPlace(s, {word}) <= Len(s)

\* No string or bracket left open, no bracket closed that was not opened.
ClosedAt(f, n) == Outside(f, n) /\ ~f[n].bad
Closed(s) == ClosedAt(Scan(s), Len(s))

Upto(s, i) == SubSeq(s, 1, i - 1)
After(s, i) == SubSeq(s, i + 1, Len(s))

Between(s, cuts) == [k \in 1 .. Len(cuts) - 1 |-> SubSeq(s, cuts[k] + 1, cuts[k + 1] - 1)]
splitTopLevelCommas(s) ==
    Between(s, << 0 >> \o SetToSortSeq(TopPlaces(s, {","}), <) \o << Len(s) + 1 >>)

-----------------------------------------------------------------------------
(* parseSelect                                                             *)
Shape(p, t, w, l) == [err |-> "", proj |-> p, table |-> t, where |-> w, tail |-> l]
Fail(e) == [err |-> e, proj |-> << >>, table |-> "", where |-> << >>, tail |-> << >>]

validateTail(tail) ==
    tail = << >> \/ /\ tail[1] \in TailWords
                    /\ \A w \in {"JOIN"} \cup SetWords : ~findKeyword(tail, w)

\* What follows the table: WHERE up to the first tail clause, and the tail.
WithTail(proj, table, where, tail) ==
    IF validateTail(tail) THEN Shape(proj, table, where, tail) ELSE Fail("unsupported")
WithBody(proj, table, body, cut) ==
    WithTail(proj, table, Upto(body, cut), SubSeq(body, cut, Len(body)))
parseRest(proj, table, rest) ==
    IF rest # << >> /\ rest[1] = "WHERE"
    THEN WithBody(proj, table, Tail(rest), FirstPlace(Tail(rest), TailWords))
    ELSE WithTail(proj, table, << >>, rest)

\* A comma, a join, a set operation or an alias after the table.
UnsupportedAfterTable(c) ==
    c = "," \/ (IsWord(c) /\ c \notin TailWords \cup {"WHERE"})

\* The clause FROM and what follows it.
parseFrom(proj, from) ==
    CASE from = << >> -> Fail("malformed")
      [] from # << >> /\ from[1] = "(" -> Fail("unsupported")
      [] from # << >> /\ from[1] # "(" /\ ~IsWord(from[1]) -> Fail("malformed")
      [] OTHER -> IF Len(from) > 1 /\ UnsupportedAfterTable(from[2])
                  THEN Fail("unsupported") ELSE parseRest(proj, from[1], Tail(from))

\* The strict scan to FROM: a bracket closed too early before it is malformed.
parseSplit(rest, from) ==
    IF \/ from > Len(rest) \/ from = 1
       \/ Scan(rest)[from].bad
    THEN Fail("malformed")
    ELSE parseFrom(Upto(rest, from), After(rest, from))
parseSelect(q) ==
    CASE q # << >> /\ q[1] \in {"WITH", "INSERT", "UPDATE", "DELETE"} -> Fail("unsupported")
      [] q = << >> \/ q[1] \notin {"WITH", "INSERT", "UPDATE", "DELETE", "SELECT"} -> Fail("malformed")
      [] OTHER -> parseSplit(Tail(q), FirstPlace(Tail(q), {"FROM"}))

Clause(word, s) == IF s = << >> THEN << >> ELSE << word >> \o s
Select(proj, table, where, tail) ==
    << "SELECT" >> \o proj \o << "FROM" >> \o table \o Clause("WHERE", where) \o tail

-----------------------------------------------------------------------------
(* SpliceArtifact                                                          *)
Spliced(q) == [err |-> "", query |-> q]
Refused(e) == [err |-> e, query |-> << >>]

WithCondition(s, where) ==
    IF s.err # "" THEN Refused(s.err) ELSE Spliced(Select(s.proj, << s.table >>, where, s.tail))
Bracketed(x) == << "(" >> \o x \o << ")" >>
Conjoined(s, body) ==
    WithCondition(s, IF s.where = << >> THEN Bracketed(body)
                     ELSE Bracketed(s.where) \o << "AND" >> \o Bracketed(body))

\* Mutant: the condition of the query is not bracketed.
spliceUnbracketed(query, body) ==
    LET s == parseSelect(query)
    IN  WithCondition(s, IF s.where = << >> THEN Bracketed(body)
                         ELSE s.where \o << "AND" >> \o Bracketed(body))
spliceRowFilter(query, body) == Conjoined(parseSelect(query), body)

\* `col AS expr` pairs; empty segments are skipped.
maskAt(seg, as) == [col |-> Upto(seg, as), expr |-> After(seg, as)]
MasksOf(segs) == [k \in DOMAIN segs |-> maskAt(segs[k], FirstPlace(segs[k], {"AS"}))]
Checked(body, masks) ==
    IF /\ Closed(body) /\ masks # << >>
       /\ \A k \in DOMAIN masks : isSimpleIdent(masks[k].col) /\ masks[k].expr # << >>
    THEN [err |-> "", masks |-> masks]
    ELSE [err |-> "malformed", masks |-> << >>]
parseMaskProjections(body) ==
    Checked(body, MasksOf(SelectSeq(splitTopLevelCommas(body), LAMBDA x : x # << >>)))

\* The slot of a column: its last bare occurrence in the projection.
SlotsOf(cols, col) == {i \in DOMAIN cols : cols[i] = col}

\* Later masks of one column win; the order of the slots stays.
MaskFor(masks, col) == masks[Max({k \in DOMAIN masks : masks[k].col = col})]
Replaced(cols, masks) ==
    [i \in DOMAIN cols |->
       IF (\E k \in DOMAIN masks : masks[k].col = cols[i]) /\ i = Max(SlotsOf(cols, cols[i]))
       THEN MaskFor(masks, cols[i]).expr \o << "AS" >> \o cols[i]
       ELSE cols[i]]

\* Mutant: a mask whose column is not asked for is passed over.
applyMasksWhereFound(cols, masks) == [err |-> "", cols |-> Replaced(cols, masks)]
applyMasks(cols, masks) ==
    IF \E k \in DOMAIN masks : SlotsOf(cols, masks[k].col) = {}
    THEN [err |-> "mismatch", cols |-> << >>]
    ELSE [err |-> "", cols |-> Replaced(cols, masks)]

Joined(parts) == FlattenSeq([k \in DOMAIN parts |->
                              IF k = 1 THEN parts[k] ELSE << "," >> \o parts[k]])

Projected(s, done) ==
    IF done.err # "" THEN Refused(done.err)
    ELSE Spliced(Select(Joined(done.cols), << s.table >>, s.where, s.tail))
MaskColumns(s, masks, cols) ==
    CASE s.err # "" -> Refused(s.err)
      [] s.err = "" /\ s.proj = << "*" >> -> Refused("mismatch")
      [] s.err = "" /\ s.proj # << "*" >> /\
           (masks.err # "" \/ ~Closed(s.proj) \/ << >> \in Range(cols)) -> Refused("malformed")
      [] OTHER -> Projected(s, applyMasks(cols, masks.masks))
MaskSelect(s, masks) == MaskColumns(s, masks, splitTopLevelCommas(s.proj))
spliceColumnMask(query, body) == MaskSelect(parseSelect(query), parseMaskProjections(body))

SpliceArtifact(query, body, kind) ==
    CASE kind \in {"row-filter", ""} -> spliceRowFilter(query, body)
      [] kind = "column-mask" -> spliceColumnMask(query, body)
      [] OTHER -> Refused("malformed")

\* The pin of a table becomes a clause of its FROM.
PinClause(id, engine) == IF engine = "trino" THEN << "FOR", "VERSION", "AS", "OF", id >>
                                             ELSE << "AT", "SNAPSHOT", "'", id, "'" >>
PinnedSelect(s, id, engine) ==
    CASE id # "1" -> Refused("malformed")
      [] id = "1" /\ s.err # "" -> Refused(s.err)
      [] OTHER -> Spliced(Select(s.proj, << s.table >> \o PinClause(id, engine), s.where, s.tail))
RewriteFromForSnapshotPin(query, id, engine) == PinnedSelect(parseSelect(query), id, engine)
=============================================================================
