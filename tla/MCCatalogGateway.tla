-------------------------- MODULE MCCatalogGateway --------------------------
(***************************************************************************)
(* Instances of CatalogGateway for TLC.                                    *)
(***************************************************************************)
EXTENDS CatalogGateway, TLC

CONSTANTS r1, r2, t1, t2, p1, p2

\* p1 is a schema policy: it denies a table laid out by spec 2.  Any other
\* policy is a write ACL: it denies a commit that carries no requirement.
MCDecide(p, m, c) ==
    IF IF p = p1 THEN m.spec = 2 ELSE c.base = NoBase THEN "deny" ELSE "allow"

Symmetry == Permutations(Requests)
=============================================================================
