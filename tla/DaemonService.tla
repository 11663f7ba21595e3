---------------------------- MODULE DaemonService ----------------------------
(***************************************************************************)
(* What the daemons of one socket promise together (ADR 0021): at most one *)
(* daemon owns the socket, ownership passes from one daemon to the next in *)
(* ONE step that no pane notices, and a daemon that ends without passing   *)
(* it on takes its panes with it.                                          *)
(***************************************************************************)
CONSTANTS Daemons, Panes, None

VARIABLES owner, panes

TypeOK == owner \in Daemons \cup {None} /\ panes \subseteq Panes

Init == owner = None /\ panes = {}

(* A daemon takes a socket nobody owns, with the panes it restored (or, when
   the daemon it was taking over from died first, the ones it adopted).    *)
Take(d) ==
    /\ owner = None
    /\ owner' = d
    /\ panes' \in SUBSET Panes

(* The cut: the same panes under another daemon.                           *)
Cut(d) ==
    /\ owner \in Daemons /\ owner # d
    /\ owner' = d
    /\ panes' = panes

(* A client spawns or kills panes on the owner.                            *)
Change ==
    /\ owner \in Daemons
    /\ owner' = owner
    /\ panes' \in SUBSET Panes

(* The owner crashes, or is stopped.                                       *)
End ==
    /\ owner \in Daemons
    /\ owner' = None
    /\ panes' = {}

Next == \/ \E d \in Daemons : Take(d) \/ Cut(d)
        \/ Change \/ End

Spec == Init /\ [][Next]_<<owner, panes>>
=============================================================================
