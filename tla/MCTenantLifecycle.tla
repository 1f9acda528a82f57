------------------------- MODULE MCTenantLifecycle -------------------------
(***************************************************************************)
(* Instances of TenantLifecycle for TLC.                                   *)
(***************************************************************************)
EXTENDS TenantLifecycle, TLC

CONSTANTS s1, s2, q1, q2, audit_log, WriteEvent

Symmetry == Permutations(Sessions) \cup Permutations(Requests)
=============================================================================
