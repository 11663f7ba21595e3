-------------------------------- MODULE MCTrust --------------------------------
EXTENDS DeviceTrust

CONSTANTS d1, d2, o1
================================================================================
