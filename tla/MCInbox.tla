-------------------------------- MODULE MCInbox --------------------------------
(* A small instance of RelayInbox: three short messages for b and one that fills
   its inbox alone, and a message for a. *)
EXTENDS RelayInbox, TLC

CONSTANTS a, b, m1, m2, m3, long, other

MCTo == [m \in Messages |-> IF m = other THEN a ELSE b]
MCSize == [m \in Messages |-> IF m = long THEN 3 ELSE 1]
Alike == Permutations({m1, m2, m3})
================================================================================
