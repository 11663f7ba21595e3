-------------------------------- MODULE MCRelay --------------------------------
(* Small instances of RelayRouter: a sends, b receives and reconnects. *)
EXTENDS RelayRouter, TLC

CONSTANTS a, b, m1, m2

MCFrom == [m \in Messages |-> a]
MCTo == [m \in Messages |-> b]
MCSize == [m \in Messages |-> 1]
Alike == Permutations(Messages)
MCSessions == (a :> 1) @@ (b :> 2)
================================================================================
