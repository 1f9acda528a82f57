-------------------------- MODULE MCLineageIngest --------------------------
(***************************************************************************)
(* Instances of LineageIngest for TLC.                                     *)
(***************************************************************************)
EXTENDS LineageIngest, TLC

CONSTANTS a, b, c, h1, h2, k1, k2, k3

\* Run k1 posts START and COMPLETE; k3 has an edge from a dataset to itself.
MCEvents ==
    {[run |-> k1, ins |-> << a >>, outs |-> << >>],
     [run |-> k1, ins |-> << a >>, outs |-> << b, c >>],
     [run |-> k2, ins |-> << b >>, outs |-> << c >>],
     [run |-> k3, ins |-> << c, a >>, outs |-> << a >>]}
=============================================================================
