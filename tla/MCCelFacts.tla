---------------------------- MODULE MCCelFacts -----------------------------
(***************************************************************************)
(* Callers, tables and policies for CelFacts.                              *)
(***************************************************************************)
EXTENDS CelFacts

W == Str(<< "writer" >>)
High == Str(<< "high" >>)
Low == Str(<< "low" >>)
MCValues == {High}

T(fn, arg, want) == [fn |-> fn, arg |-> arg, want |-> want]
Pii(names) == [t |-> "pattern", matches |-> names]

Cert(uris, dns) == [uris |-> uris, dns |-> dns]
NoCert == Cert(<< >>, << >>)
Alice == Str(<< "alice" >>)
Tenant == Str(<< "tenant" >>)
Token(sub, roles, groups) == Obj([sub |-> sub, roles |-> roles, groups |-> groups, level |-> Low])
Request(cert, token, tenant) == [cert |-> cert, token |-> token, tenant |-> tenant]

Requests ==
    {Request(NoCert, Token(Alice, r, g), Tenant) :
        r \in {Nothing, Num, Empty, W, Str(<< "reader", "writer" >>), Lst(<< >>),
               Lst(<< Num, W >>), Lst(<< Str(<< "reader", "writer" >>), Empty >>)},
        g \in {Nothing, Lst(<< W >>)}}
    \cup {Request(c, Token(s, Lst(<< W >>), Nothing), t) :
        c \in {NoCert, Cert(<< Empty, Str(<< "spiffe" >>) >>, << Alice >>), Cert(<< Empty >>, << Empty >>)},
        s \in {Alice, Num}, t \in {Tenant, Empty}}

Plain == Request(NoCert, Token(Alice, Lst(<< W >>), Nothing), Tenant)
Carol == Request(NoCert, Token(Str(<< "carol" >>), Nothing, Nothing), Tenant)
OBrien == Request(NoCert, Token(Str(<< "o'brien" >>), Nothing, Nothing), Tenant)

Tag(col, tag) == Obj([column_name |-> Str(<< col >>), tag |-> tag])
Table(cols, part, tags) ==
    [columns |-> cols, partition |-> part, tags |-> Lst(tags),
     transforms |-> Obj([ts |-> Str(<< "day" >>), id |-> Num]), region |-> Str(<< "us" >>)]

PiiTable == Table(<< "pii", "id" >>, << "ts" >>, << >>)
Tables ==
    {PiiTable, Table(<< >>, << >>, << >>)}
    \cup {Table(<< "pii", "ssn" >>, << >>, tags) : tags \in {
            << Tag("pii", High) >>, << Tag("pii", High), Num, Tag("ssn", Num) >>,
            << Tag("ssn", Low), Tag("ssn", High), Tag("pii", High) >>}}

TableTexts == {
    T("has_column", Str(<< "pii" >>), Empty), T("has_partition", Str(<< "ts" >>), Empty),
    T("classification", Pii({"pii", "ssn"}), High), T("classification", Num, High),
    T("partition_spec", "ts", Str(<< "day" >>)), T("partition_spec", "id", Str(<< "day" >>)),
    T("region", Empty, Str(<< "us" >>)), T("region", Empty, Str(<< "eu" >>)),
    T("region alone", Empty, Empty), T("ill-formed", Empty, Empty)}

\* The attribute is called level, but for callers whose policies name it unsafely.
Scenario(texts, request, table, shape, resolver, own, defaults) ==
    [texts |-> texts, attribute |-> IF request = Carol THEN "le'vel" ELSE "level",
     request |-> request, table |-> table, shape |-> shape,
     resolver |-> resolver, own |-> own, defaults |-> defaults]

MCScenarios ==
    {Scenario({T("role", W, Empty), T("has_column", Str(<< "pii" >>), Empty)}, r, PiiTable,
              s, TRUE, Empty, Nothing) : r \in Requests, s \in {"gateway", "documented"}}
    \cup {Scenario(TableTexts, Plain, t, s, FALSE, Empty, Nothing) :
            t \in Tables, s \in {"gateway", "documented"}}
    \cup {Scenario({T("attribute", "le'vel", High)}, Carol, PiiTable, "gateway", TRUE, High, d) :
            d \in {Nothing, Obj([x \in {"le'vel"} |-> Low])}}
    \cup {Scenario({T("attribute", "level", High), T("attribute", "level", Low)}, r, PiiTable,
                   s, b, o, d) :
            r \in {Plain, OBrien}, s \in {"gateway", "documented"}, b \in BOOLEAN, o \in {High, Empty},
            d \in {Nothing, Obj([level |-> Low]), Obj([level |-> Low, depth |-> Num])}}
=============================================================================
