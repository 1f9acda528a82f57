--------------------------- MODULE SchemaUpgrade ---------------------------
(***************************************************************************)
(* What the migrations promise of each tenant, whoever runs them and       *)
(* wherever they are interrupted: versioned files take effect one at a     *)
(* time, in order and once, the graph files take effect together, only on  *)
(* a complete relational schema, and nothing is ever taken back.           *)
(***************************************************************************)
EXTENDS Naturals

CONSTANTS
    Tenants,
    MaxFile      \* number of versioned files a tenant schema needs

VARIABLES
    rel,         \* rel[t]: versioned files in effect
    gr           \* gr[t]: the graph files are in effect

vars == << rel, gr >>

Init ==
    /\ rel = [t \in Tenants |-> 0]
    /\ gr  = [t \in Tenants |-> FALSE]

NextFile(t) ==
    /\ rel[t] < MaxFile
    /\ rel' = [rel EXCEPT ![t] = rel[t] + 1]
    /\ UNCHANGED gr

GraphFiles(t) ==
    /\ rel[t] = MaxFile
    /\ ~ gr[t]
    /\ gr' = [gr EXCEPT ![t] = TRUE]
    /\ UNCHANGED rel

Next == \E t \in Tenants : NextFile(t) \/ GraphFiles(t)

Spec == Init /\ [][Next]_vars
=============================================================================
