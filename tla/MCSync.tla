------------------------------- MODULE MCSync -------------------------------
EXTENDS SyncEngine

CONSTANTS alpha, beta, gamma

Two   == {alpha, beta}
Three == {alpha, beta, gamma}

(* Texts: a reference in the harness's spelling and in the neutral one, and two
   literals. *)
MCNeutral == [t \in {"env", "neutral", "one", "two"} |-> IF t = "env" THEN "neutral" ELSE t]
MCNative  == [t \in {"env", "neutral", "one", "two"} |-> IF t = "neutral" THEN "env" ELSE t]
MCClean   == DOMAIN MCNeutral

(* Two documents that set one key, to the two spellings of one reference; the sibling
   sets another key. *)
MCDocuments == { [p |-> "env"], [p |-> "neutral", q |-> "two"] }
MCResolves  == [m \in Machine |-> MCClean]
MCSibling   == [r |-> "one"]
=============================================================================
