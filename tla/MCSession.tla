------------------------------- MODULE MCSession -------------------------------
EXTENDS RelaySession

CONSTANTS a, r
================================================================================
