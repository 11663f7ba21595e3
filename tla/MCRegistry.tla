------------------------------ MODULE MCRegistry ------------------------------
(* Small instances of PaneRegistry. *)
EXTENDS PaneRegistry, TLC

CONSTANTS p, q, t1, c1, c2

Mixed == {[id |-> p, kind |-> "pin", tree |-> t1], [id |-> q, kind |-> "continue", tree |-> None]}
Continued == {[id |-> i, kind |-> "continue", tree |-> None] : i \in {p, q}}
Alike == Permutations({c1, c2})
===============================================================================
