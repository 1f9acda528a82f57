------------------------------ MODULE PolicySql ------------------------------
(***************************************************************************)
(* The policy DSL of the compiler (internal/policy/compiler): the          *)
(* recursive-descent parser of sql_grammar.go and the emitters of the      *)
(* Trino and Spark dialects, over the symbols of SqlText.  A node of the   *)
(* tree has an operator, symbols (a name or a literal's value) and         *)
(* arguments; a parse returns the node and the place after it.             *)
(***************************************************************************)
EXTENDS SqlText

Node(op, val, args) == [op |-> op, val |-> val, args |-> args]
NoNode == Node("none", << >>, << >>)

Parsed(node, pos) == [ok |-> TRUE, node |-> node, pos |-> pos]
NoParse == [ok |-> FALSE, node |-> NoNode, pos |-> 0]

At(s, i, c) == i <= Len(s) /\ s[i] = c

-----------------------------------------------------------------------------
(* Literals and comparisons.                                               *)

\* A quoted string: symbols up to a quote that is not doubled.
RECURSIVE stringFrom(_, _, _)
stringFrom(s, i, val) ==
    CASE i > Len(s) -> NoParse
      [] At(s, i, "'") /\ At(s, i + 1, "'") -> stringFrom(s, i + 2, Append(val, "'"))
      [] At(s, i, "'") /\ ~At(s, i + 1, "'") -> Parsed(Node("string", val, << >>), i + 1)
      [] OTHER -> stringFrom(s, i + 1, Append(val, s[i]))

parseLiteral(s, i) ==
    CASE At(s, i, "'") -> stringFrom(s, i + 1, << >>)
      [] At(s, i, "1") -> Parsed(Node("number", << "1" >>, << >>), i + 1)
      [] At(s, i, "NULL") -> Parsed(Node("null", << >>, << >>), i + 1)
      [] OTHER -> NoParse

parseColumnRef(s, i) ==
    IF i <= Len(s) /\ IsWord(s[i]) THEN Parsed(Node("col", << s[i] >>, << >>), i + 1) ELSE NoParse

\* literal , literal ... )
RECURSIVE parseList(_, _, _)
parseList(s, i, vals) ==
    LET v == parseLiteral(s, i)
        all == Append(vals, v.node)
    IN  CASE ~v.ok -> NoParse
          [] v.ok /\ At(s, v.pos, ")") -> Parsed(Node("list", << >>, all), v.pos + 1)
          [] v.ok /\ At(s, v.pos, ",") -> parseList(s, v.pos + 1, all)
          [] OTHER -> NoParse

parseComparison(s, i) ==
    LET left == parseColumnRef(s, i)
        j    == left.pos
        v    == parseLiteral(s, j + 1)
        vs   == parseList(s, j + 2, << >>)
    IN  CASE ~left.ok -> NoParse
          [] left.ok /\ (\E c \in Comparators \cup {"LIKE"} : At(s, j, c)) ->
               IF v.ok THEN Parsed(Node(s[j], << >>, << left.node, v.node >>), v.pos) ELSE NoParse
          [] left.ok /\ At(s, j, "IN") /\ At(s, j + 1, "(") ->
               IF vs.ok THEN Parsed(Node("IN", << >>, << left.node >> \o vs.node.args), vs.pos)
                        ELSE NoParse
          [] OTHER -> NoParse

-----------------------------------------------------------------------------
(* Predicates: NOT binds tighter than AND, AND than OR, both to the left.  *)
RECURSIVE parseChain(_, _, _, _), parseNot(_, _)
parseOr(s, i) == parseChain(s, i, "OR", NoNode)

parsePrimary(s, i) ==
    LET inner == parseOr(s, i + 1)
    IN  IF At(s, i, "(")
        THEN IF inner.ok /\ At(s, inner.pos, ")") THEN Parsed(inner.node, inner.pos + 1) ELSE NoParse
        ELSE parseComparison(s, i)

parseNot(s, i) ==
    LET operand == parseNot(s, i + 1)
    IN  IF At(s, i, "NOT")
        THEN IF operand.ok THEN Parsed(Node("NOT", << >>, << operand.node >>), operand.pos) ELSE NoParse
        ELSE parsePrimary(s, i)

\* One operand, and as long as the connective follows, another one.
parseChain(s, i, op, left) ==
    LET one  == IF op = "OR" THEN parseChain(s, i, "AND", NoNode) ELSE parseNot(s, i)
        node == IF left = NoNode THEN one.node ELSE Node(op, << >>, << left, one.node >>)
    IN  IF ~one.ok THEN NoParse
        ELSE IF At(s, one.pos, op) THEN parseChain(s, one.pos + 1, op, node)
             ELSE Parsed(node, one.pos)

\* Mutant: AND and OR are one level.
ParseRowFilterFlat(s) ==
    LET flat == [i \in DOMAIN s |-> IF s[i] = "OR" THEN "AND" ELSE s[i]]
        p    == parseOr(flat, 1)
    IN  IF p.ok /\ p.pos = Len(s) + 1 THEN p ELSE NoParse
ParseRowFilter(s) ==
    LET p == parseOr(s, 1) IN IF p.ok /\ p.pos = Len(s) + 1 THEN p ELSE NoParse

parseMaskExpr(s, i) ==
    LET arg == parseColumnRef(s, i + 2)
    IN  CASE At(s, i, "NULL") \/ At(s, i, "'") -> parseLiteral(s, i)
          [] i <= Len(s) /\ IsWord(s[i]) /\ s[i] # "NULL" /\ At(s, i + 1, "(") ->
               IF arg.ok /\ At(s, arg.pos, ")")
               THEN Parsed(Node("call", << s[i] >>, << arg.node >>), arg.pos + 1) ELSE NoParse
          [] OTHER -> parseColumnRef(s, i)

\* col AS expr , col AS expr ...
RECURSIVE parseMasks(_, _, _)
parseMasks(s, i, masks) ==
    LET e   == parseMaskExpr(s, i + 2)
        all == Append(masks, Node("mask", << s[i] >>, << e.node >>))
    IN  CASE i > Len(s) -> IF masks = << >> THEN NoParse ELSE Parsed(Node("masks", << >>, masks), i)
          [] OTHER ->
               IF ~(isSimpleIdent(<< s[i] >>) /\ At(s, i + 1, "AS") /\ e.ok) THEN NoParse
               ELSE IF e.pos = Len(s) + 1 THEN Parsed(Node("masks", << >>, all), e.pos)
               ELSE IF At(s, e.pos, ",") THEN parseMasks(s, e.pos + 1, all) ELSE NoParse

ParseColumnMask(s) == parseMasks(s, 1, << >>)

-----------------------------------------------------------------------------
(* The emitters: everything is bracketed, quotes are doubled.              *)
\* Mutant: quotes are not doubled.
QuoteRaw(v) == << "'" >> \o v \o << "'" >>
Quote(v) == << "'" >> \o FlattenSeq([i \in DOMAIN v |->
                                      IF v[i] = "'" THEN << "'", "'" >> ELSE << v[i] >>])
            \o << "'" >>

Hash(engine, arg) ==
    IF engine = "trino"
    THEN << "to_hex", "(", "sha256", "(", "to_utf8", "(", "CAST", "(" >> \o arg
         \o << "AS", "VARCHAR", ")", ")", ")", ")" >>
    ELSE << "sha2", "(", "CAST", "(" >> \o arg \o << "AS", "STRING", ")", ",", "256", ")" >>

emitLiteral(n) == CASE n.op = "string" -> Quote(n.val)
                    [] n.op = "number" -> n.val
                    [] n.op = "null" -> << "NULL" >>

emitList(n) == n.args[1].val \o << "IN", "(" >>
               \o Joined([k \in 1 .. Len(n.args) - 1 |-> emitLiteral(n.args[k + 1])]) \o << ")" >>

emitCall(n, engine) == IF n.val = << "hash" >> THEN Hash(engine, n.args[1].val)
                       ELSE n.val \o << "(" >> \o n.args[1].val \o << ")" >>

RECURSIVE emitPred(_, _)
emitPred(n, engine) ==
    CASE n.op \in {"AND", "OR", "LIKE"} \cup Comparators ->
           << "(" >> \o emitPred(n.args[1], engine) \o << n.op >> \o emitPred(n.args[2], engine)
           \o << ")" >>
      [] n.op = "NOT" -> << "(", "NOT" >> \o emitPred(n.args[1], engine) \o << ")" >>
      [] n.op = "col" -> n.val
      [] n.op = "IN" -> emitList(n)
      [] n.op = "call" -> emitCall(n, engine)
      [] OTHER -> emitLiteral(n)

Emitted(body) == [err |-> "", body |-> body]
NotEmitted(e) == [err |-> e, body |-> << >>]

\* Dremio's emitter is a stub.
CompileRowFilter(n, engine) ==
    IF engine = "dremio" THEN NotEmitted("stub") ELSE Emitted(emitPred(n, engine))

\* expr AS col: the masked expression under the name of the column.
CompileColumnMask(masks, engine) ==
    CASE engine = "dremio" -> NotEmitted("stub")
      [] engine # "dremio" /\ (\E k \in DOMAIN masks : masks[k].args[1].op = "call" /\
             masks[k].args[1].val[1] \notin {"hash", "lower", "upper", "length"}) ->
           NotEmitted("not whitelisted")
      [] OTHER -> Emitted(Joined([k \in DOMAIN masks |->
                    emitPred(masks[k].args[1], engine) \o << "AS" >> \o masks[k].val]))

-----------------------------------------------------------------------------
(* The reference: a predicate split at its last connective outside strings *)
(* and brackets, the loosest first.                                        *)
LastPlace(s, word) == Max(TopPlaces(s, {word}))

\* A literal is a string that closes at its end, a number or NULL.
IsString(s) == /\ Len(s) >= 2 /\ s[1] = "'"
               /\ LET f == Scan(s) IN ~f[Len(s)].str /\ \A i \in 1 .. Len(s) - 1 : f[i].str
StringValue(s) ==
    LET f == Scan(s)
        kept == {i \in 2 .. Len(s) - 1 : ~f[i].esc}
    IN  [k \in 1 .. Cardinality(kept) |-> s[SetToSortSeq(kept, <)[k]]]
RefLiteral(s) == CASE IsString(s) -> Node("string", StringValue(s), << >>)
                   [] s = << "1" >> -> Node("number", s, << >>)
                   [] s = << "NULL" >> -> Node("null", << >>, << >>)
                   [] OTHER -> NoNode

RefComparison(s) ==
    LET col == Node("col", << s[1] >>, << >>)
        vals == IF Len(s) > 4 THEN [k \in DOMAIN splitTopLevelCommas(SubSeq(s, 4, Len(s) - 1)) |->
                                      RefLiteral(splitTopLevelCommas(SubSeq(s, 4, Len(s) - 1))[k])]
                ELSE << >>
    IN  CASE Len(s) >= 3 /\ IsWord(s[1]) /\ s[2] \in Comparators \cup {"LIKE"} ->
               IF RefLiteral(SubSeq(s, 3, Len(s))) = NoNode THEN NoNode
               ELSE Node(s[2], << >>, << col, RefLiteral(SubSeq(s, 3, Len(s))) >>)
          [] Len(s) >= 5 /\ IsWord(s[1]) /\ s[2] = "IN" /\ s[3] = "(" /\ s[Len(s)] = ")" ->
               IF \E k \in DOMAIN vals : vals[k] = NoNode THEN NoNode
               ELSE Node("IN", << >>, << col >> \o vals)
          [] OTHER -> NoNode

RECURSIVE RefPredicate(_)
RefPredicate(s) ==
    LET split(op) == LET k == LastPlace(s, op)
                         l == RefPredicate(Upto(s, k))
                         r == RefPredicate(After(s, k))
                     IN  IF l = NoNode \/ r = NoNode THEN NoNode ELSE Node(op, << >>, << l, r >>)
    IN  CASE s = << >> \/ ~Closed(s) -> NoNode
          [] s # << >> /\ Closed(s) /\ TopPlaces(s, {"OR"}) # {} -> split("OR")
          [] s # << >> /\ Closed(s) /\ TopPlaces(s, {"OR"}) = {} /\ TopPlaces(s, {"AND"}) # {} -> split("AND")
          [] OTHER ->
               CASE s[1] = "NOT" -> LET x == RefPredicate(Tail(s))
                                    IN  IF x = NoNode THEN NoNode ELSE Node("NOT", << >>, << x >>)
                 [] s[1] = "(" /\ s[Len(s)] = ")" -> RefPredicate(SubSeq(s, 2, Len(s) - 1))
                 [] OTHER -> RefComparison(s)
=============================================================================
