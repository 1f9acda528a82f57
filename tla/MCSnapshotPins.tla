--------------------------- MODULE MCSnapshotPins ---------------------------
(***************************************************************************)
(* Instances of SnapshotPins for TLC.                                      *)
(***************************************************************************)
EXTENDS SnapshotPins, TLC

CONSTANTS n1, n2, t1, t2, s1, s2, rd1, rd2, wr1, wr2

Symmetry == Permutations(Snapshots) \cup Permutations(PinNames) \cup Permutations(Readers)
=============================================================================
