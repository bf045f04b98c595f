------------------------- MODULE MCDriftReconcile --------------------------
EXTENDS DriftReconcile
=============================================================================
