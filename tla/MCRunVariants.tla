---------------------------- MODULE MCRunVariants ----------------------------
\* Instances of RunVariants for TLC.
EXTENDS RunVariants, TLC

CONSTANTS m1, m2

MbufSymmetry == Permutations(Mbufs)

=============================================================================
