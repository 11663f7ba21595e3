------------------------------ MODULE MCHandoff ------------------------------
(* TLC instance of Handoff: processes and panes are interchangeable.       *)
EXTENDS Handoff, TLC

Symmetry == Permutations(Daemons) \cup Permutations(Panes)
=============================================================================
