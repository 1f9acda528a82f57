------------------------ MODULE MCPolicyEnforcement ------------------------
(***************************************************************************)
(* Instances of PolicyEnforcement for TLC.                                 *)
(***************************************************************************)
EXTENDS PolicyEnforcement, TLC

CONSTANTS p1, p2, t1, e1, e2, n1, n2, q1

MCGoverns == [p \in Policies |-> t1]
MCKindOf  == [e \in Engines |-> IF e = e1 THEN "trino" ELSE "dremio"]

\* The second version of a policy does not compile for the second engine.
MCRejected == {<< p1, e2, 2 >>}

Symmetry == Permutations(Replicas)
=============================================================================
