--------------------------- MODULE MCFailureDebug ---------------------------
EXTENDS FailureDebug, TLC
=============================================================================
