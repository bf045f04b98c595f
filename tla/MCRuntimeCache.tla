--------------------------- MODULE MCRuntimeCache ---------------------------
EXTENDS RuntimeCache, TLC
CONSTANTS r1, f1, f2, c1, c2

CallerSymmetry == Permutations(Caller)
=============================================================================
