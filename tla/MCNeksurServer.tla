-------------------------- MODULE MCNeksurServer --------------------------
EXTENDS NeksurServer, MCSqlPipeline, MCCelFacts

CONSTANTS r1, r2, ta, tb, c1, c2, tab1, us, g1, g2, b1, b2

\* Three rotations of the license: the second is not signed and the third is of
\* a lower tier.
MCHExpiry == << 1, 3, 3 >>
=============================================================================
