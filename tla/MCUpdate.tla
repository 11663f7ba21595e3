------------------------------- MODULE MCUpdate -------------------------------
EXTENDS DeferredUpdate

CONSTANTS v0, v1, v2, p1
=============================================================================
