------------------------ MODULE MCDetectionDispatch ------------------------
(***************************************************************************)
(* Instances of DetectionDispatch for TLC.                                 *)
(***************************************************************************)
EXTENDS DetectionDispatch, TLC

CONSTANTS n1, n2, w1, w2, l1, l2, m1, m2, q1

MCRecordsOf == [m \in Messages |-> IF m = m1 THEN << l1, l1 >> ELSE << >>]
=============================================================================
