------------------------------- MODULE Handoff -------------------------------
(***************************************************************************)
(* The life of the daemons of ONE client socket: a fresh start             *)
(* (Daemon::serve), the live handoff between an outgoing daemon            *)
(* (serve_handoff_request, run_transfer) and an incoming one               *)
(* (run_handoff_inner, serve_inherited), the SIGTERM shutdown of main, and *)
(* crashes at every point.                                                 *)
(*                                                                         *)
(* A member of Daemons is one PROCESS (a pid is never used twice), so the  *)
(* listener object a process bound can be named by the process.  The flock *)
(* on <socket>.lock lives in ONE open file description that every process  *)
(* it was passed to shares: it is modelled by the set of its holders, and  *)
(* is free when that set is empty and no copy is in flight.                *)
(*                                                                         *)
(* Deadlines are not clocked: a bounded wait may give up at any moment,    *)
(* except the wait for the commit byte, whose deadline passes before a     *)
(* live peer commits only when Env contains "slow".                        *)
(***************************************************************************)
EXTENDS Naturals, FiniteSets

CONSTANTS
    Daemons,    \* server processes that may ever be started on the socket
    Panes,      \* panes (child processes) that may ever be spawned
    None,       \* "no process"
    MaxCrashes, \* bound on the processes that die without a word
    Env         \* what the environment may do, a subset of EnvEvents

(* slow:      the incoming daemon is slower than the outgoing one's timeout
   rerequest: a client already connected asks a daemon that has committed
              its handoff, and has not exited yet, for another one
   chained:   a request reaches an incoming daemon whose accept loop runs but
              whose main thread has not finished its own handoff
   sigterm:   the operator stops a daemon
   midspawn:  a client spawns a pane on a daemon taking part in a handoff  *)
EnvEvents == {"slow", "rerequest", "chained", "sigterm", "midspawn"}

ASSUME HandoffAssumption ==
    /\ None \notin Daemons
    /\ MaxCrashes \in Nat
    /\ Env \subseteq EnvEvents

VARIABLES
    pc,          \* where each process's main thread is
    fresh,       \* the processes started by `serve`, not by --handoff-from
    accepting,   \* the processes whose accept loop runs
    stopping,    \* the processes whose stop_accepting flag is set
    listener,    \* the listening socket each process holds (its binder's name)
    path,        \* the listening socket the socket file names
    lockHolders, \* the processes that hold the flocked open file description
    handoffLock, \* who holds <socket>.handoff.lock
    out,         \* the outgoing side's transfer phase
    peer,        \* the process an outgoing daemon granted its handoff to
    from,        \* the daemon an incoming process asked
    entries,     \* the panes serve_handoff_request captured for the transfer
    wire,        \* items in flight on the transfer connection, per receiver
    manifest,    \* the panes the manifest in flight to each receiver names
    committed,   \* the incoming processes that have sent the commit byte
    registry,    \* the panes each process holds (and keeps the master of)
    pumping,     \* the panes whose reader pump runs in each process
    spawned,     \* every pane spawned so far
    killed,      \* the panes a client has killed
    crashes,     \* crashes so far
    stopped      \* whether a daemon was ever stopped by a signal

procVars == <<pc, fresh, accepting, stopping>>
ownVars  == <<listener, path, lockHolders>>
xferVars == <<handoffLock, out, peer, from, entries, wire, manifest, committed>>
paneVars == <<registry, pumping, spawned, killed>>
vars     == <<procVars, ownVars, xferVars, paneVars, crashes, stopped>>

StartPhases    == {"probe", "acquire", "reprobe", "bind"}
IncomingPhases == {"request", "dial", "listener", "lock", "panes", "serve", "ready"}
Phases == StartPhases \cup IncomingPhases
            \cup {"unborn", "resume", "owner", "draining", "dead"}
OutPhases == {"idle", "bound", "listener", "lock", "pause", "panes", "wait", "closing"}
Items     == {"listener", "lock", "panes"}

TypeOK ==
    /\ pc \in [Daemons -> Phases]
    /\ fresh \subseteq Daemons /\ accepting \subseteq Daemons /\ stopping \subseteq Daemons
    /\ listener \in [Daemons -> Daemons \cup {None}]
    /\ path \in Daemons \cup {None}
    /\ lockHolders \subseteq Daemons
    /\ handoffLock \in Daemons \cup {None}
    /\ out \in [Daemons -> OutPhases]
    /\ peer \in [Daemons -> Daemons \cup {None}]
    /\ from \in [Daemons -> Daemons \cup {None}]
    /\ entries \in [Daemons -> SUBSET Panes]
    /\ wire \in [Daemons -> SUBSET Items]
    /\ manifest \in [Daemons -> SUBSET Panes]
    /\ committed \subseteq Daemons
    /\ registry \in [Daemons -> SUBSET Panes]
    /\ pumping \in [Daemons -> SUBSET Panes]
    /\ spawned \subseteq Panes /\ killed \subseteq Panes
    /\ crashes \in Nat /\ stopped \in BOOLEAN

Init ==
    /\ pc = [d \in Daemons |-> "unborn"]
    /\ fresh = {} /\ accepting = {} /\ stopping = {}
    /\ listener = [d \in Daemons |-> None]
    /\ path = None
    /\ lockHolders = {}
    /\ handoffLock = None
    /\ out = [d \in Daemons |-> "idle"]
    /\ peer = [d \in Daemons |-> None]
    /\ from = [d \in Daemons |-> None]
    /\ entries = [d \in Daemons |-> {}]
    /\ wire = [d \in Daemons |-> {}]
    /\ manifest = [d \in Daemons |-> {}]
    /\ committed = {}
    /\ registry = [d \in Daemons |-> {}]
    /\ pumping = [d \in Daemons |-> {}]
    /\ spawned = {} /\ killed = {}
    /\ crashes = 0 /\ stopped = FALSE

-----------------------------------------------------------------------------
(* Kernel facts: who holds what.                                           *)

Alive(d) == pc[d] \notin {"unborn", "dead"}

(* A listening socket is open while a process holds it or a copy of it is
   queued on a transfer connection whose receiver lives.                   *)
Holds(d, l) ==
    /\ Alive(d)
    /\ \/ listener[d] = l
       \/ "listener" \in wire[d] /\ listener[from[d]] = l

(* is_live: a connect to the path succeeds, whoever drains the backlog.    *)
IsLive == path # None /\ \E d \in Daemons : Holds(d, path)

LockFree == lockHolders = {} /\ \A d \in Daemons : "lock" \notin wire[d]

(* The transfer connection between i and the daemon it asked is open at the
   far end: a write to it succeeds.                                        *)
ConnOpen(i) ==
    /\ from[i] # None
    /\ Alive(from[i])
    /\ peer[from[i]] = i
    /\ out[from[i]] # "idle"

(* The kernel's half of a process's end: every descriptor closes, so the
   flocks it alone held are free and its terminals lose this holder.       *)
Exit(d) ==
    /\ pc' = [pc EXCEPT ![d] = "dead"]
    /\ accepting' = accepting \ {d}
    /\ lockHolders' = lockHolders \ {d}
    /\ handoffLock' = IF handoffLock = d THEN None ELSE handoffLock
    /\ out' = [out EXCEPT ![d] = "idle"]
    /\ wire' = [wire EXCEPT ![d] = {}]
    /\ registry' = [registry EXCEPT ![d] = {}]
    /\ pumping' = [pumping EXCEPT ![d] = {}]
    /\ UNCHANGED <<fresh, stopping, listener, peer, from, entries, manifest,
                   committed, spawned, killed>>

-----------------------------------------------------------------------------
(* Faulty variants of actions defined below: each is a mistake the code takes
   care not to make, and the specification does not use them.              *)

(* The start goes on although another process holds the flock.             *)
AcquireUnlocked(d) ==
    /\ pc[d] = "acquire"
    /\ lockHolders' = lockHolders \cup {d}
    /\ pc' = [pc EXCEPT ![d] = "reprobe"]
    /\ UNCHANGED <<fresh, accepting, stopping, listener, path, xferVars, paneVars,
                   crashes, stopped>>

(* No second probe under the lock, and a first one that only warns.        *)
ProbeIgnored(d) ==
    /\ pc[d] \in {"probe", "reprobe"}
    /\ pc' = [pc EXCEPT ![d] = IF pc[d] = "probe" THEN "acquire" ELSE "bind"]
    /\ UNCHANGED <<fresh, accepting, stopping, ownVars, xferVars, paneVars, crashes, stopped>>

(* End of stream on the transfer connection taken for the commit.          *)
WaitForCommitOrEof(o) ==
    /\ out[o] = "wait" /\ (peer[o] \in committed \/ ~Alive(peer[o]))
    /\ stopping' = stopping \cup {o}
    /\ out' = [out EXCEPT ![o] = "idle"]
    /\ handoffLock' = None
    /\ UNCHANGED <<pc, fresh, accepting, ownVars, peer, from, entries, wire, manifest,
                   committed, paneVars, crashes, stopped>>

(* An abort path that forgets the pumps it paused.                         *)
AbortWithoutResume(o) ==
    /\ \/ out[o] \in {"bound", "listener", "lock", "pause", "panes"}
       \/ /\ out[o] = "wait"
          /\ peer[o] \notin committed
          /\ ~Alive(peer[o]) \/ "slow" \in Env
    /\ out' = [out EXCEPT ![o] = "closing"]
    /\ UNCHANGED <<procVars, ownVars, handoffLock, peer, from, entries, wire, manifest,
                   committed, paneVars, crashes, stopped>>

(* A wait for the commit byte with neither a deadline nor end-of-stream.   *)
AbortNeverInWait(o) ==
    /\ out[o] \in {"bound", "listener", "lock", "pause", "panes"}
    /\ out' = [out EXCEPT ![o] = "closing"]
    /\ pumping' = [pumping EXCEPT ![o] = @ \cup (entries[o] \cap registry[o])]
    /\ UNCHANGED <<procVars, ownVars, handoffLock, peer, from, entries, wire, manifest,
                   committed, registry, spawned, killed, crashes, stopped>>

(* A pane whose adoption fails is skipped, and the handoff goes on.        *)
AdoptSkipping(i) ==
    /\ pc[i] = "panes" /\ "panes" \in wire[i]
    /\ wire' = [wire EXCEPT ![i] = @ \ {"panes"}]
    /\ \E kept \in SUBSET manifest[i] : registry' = [registry EXCEPT ![i] = kept]
    /\ pc' = [pc EXCEPT ![i] = "serve"]
    /\ UNCHANGED <<fresh, accepting, stopping, ownVars, handoffLock, out, peer, from,
                   entries, manifest, committed, pumping, spawned, killed, crashes, stopped>>

-----------------------------------------------------------------------------
(* A fresh start: Daemon::serve, probe -> lock -> re-probe -> bind.        *)

Start(d) ==
    /\ pc[d] = "unborn"
    /\ pc' = [pc EXCEPT ![d] = "probe"]
    /\ fresh' = fresh \cup {d}
    /\ UNCHANGED <<accepting, stopping, ownVars, xferVars, paneVars, crashes, stopped>>

(* Both probes refuse the start with "already served".                     *)
Probe(d) ==
    \/ /\ pc[d] \in {"probe", "reprobe"}
       /\ ~IsLive
       /\ pc' = [pc EXCEPT ![d] = IF pc[d] = "probe" THEN "acquire" ELSE "bind"]
       /\ UNCHANGED <<fresh, accepting, stopping, ownVars, xferVars, paneVars,
                      crashes, stopped>>
    \/ /\ pc[d] \in {"probe", "reprobe"}
       /\ IsLive
       /\ Exit(d)
       /\ UNCHANGED <<path, crashes, stopped>>

Acquire(d) ==
    \/ /\ pc[d] = "acquire"
       /\ LockFree
       /\ lockHolders' = {d}
       /\ pc' = [pc EXCEPT ![d] = "reprobe"]
       /\ UNCHANGED <<fresh, accepting, stopping, listener, path, xferVars, paneVars,
                      crashes, stopped>>
    \/ /\ pc[d] = "acquire"
       /\ ~LockFree
       /\ Exit(d)
       /\ UNCHANGED <<path, crashes, stopped>>

(* remove_file, bind, and serve_on up to its accept loop: restore_boot
   re-spawns whatever the store recorded as new children, whose pumps run. *)
Bind(d) ==
    /\ pc[d] = "bind"
    /\ pc' = [pc EXCEPT ![d] = "owner"]
    /\ accepting' = accepting \cup {d}
    /\ listener' = [listener EXCEPT ![d] = d]
    /\ path' = d
    /\ \E restored \in SUBSET (Panes \ spawned) :
         /\ registry' = [registry EXCEPT ![d] = restored]
         /\ pumping' = [pumping EXCEPT ![d] = restored]
         /\ spawned' = spawned \cup restored
    /\ UNCHANGED <<fresh, stopping, lockHolders, xferVars, killed, crashes, stopped>>

-----------------------------------------------------------------------------
(* The clients' verbs that change who holds which pane.                    *)

(* A session can be open on a daemon that accepts, and stays open on one
   that has stopped accepting and has not exited yet.                      *)
HasSessions(d) == Alive(d) /\ d \in accepting \cup stopping

(* Neither side of a handoff that is going on or has committed.            *)
OutsideHandoff(d) == pc[d] = "owner" /\ out[d] = "idle" /\ d \notin stopping

Spawn(d, p) ==
    /\ HasSessions(d)
    /\ OutsideHandoff(d) \/ "midspawn" \in Env
    /\ p \notin spawned
    /\ spawned' = spawned \cup {p}
    /\ registry' = [registry EXCEPT ![d] = @ \cup {p}]
    /\ pumping' = [pumping EXCEPT ![d] = @ \cup {p}]
    /\ UNCHANGED <<procVars, ownVars, xferVars, killed, crashes, stopped>>

Kill(d, p) ==
    /\ HasSessions(d)
    /\ p \in registry[d]
    /\ killed' = killed \cup {p}
    /\ registry' = [registry EXCEPT ![d] = @ \ {p}]
    /\ pumping' = [pumping EXCEPT ![d] = @ \ {p}]
    /\ UNCHANGED <<procVars, ownVars, xferVars, spawned, crashes, stopped>>

-----------------------------------------------------------------------------
(* The outgoing daemon: serve_handoff_request and run_transfer.            *)

(* run_handoff_inner connects to the client socket: any process accepting
   on the path's listener may be the one that takes the connection.        *)
StartIncoming(i, o) ==
    /\ pc[i] = "unborn"
    /\ o \in accepting /\ listener[o] = path
    /\ pc' = [pc EXCEPT ![i] = "request"]
    /\ from' = [from EXCEPT ![i] = o]
    /\ UNCHANGED <<fresh, accepting, stopping, ownVars, handoffLock, out, peer, entries,
                   wire, manifest, committed, paneVars, crashes, stopped>>

(* The request is granted: the one-handoff lock is taken, the transfer
   socket bound, HandoffReady sent and the registry's entries captured.    *)
Grant(o, i) ==
    /\ Alive(o) /\ pc[i] = "request" /\ from[i] = o
    /\ o \notin stopping \/ "rerequest" \in Env
    /\ pc[o] \in {"owner", "draining"} \/ "chained" \in Env
    /\ handoffLock = None
    /\ out[o] = "idle"
    /\ handoffLock' = o
    /\ out' = [out EXCEPT ![o] = "bound"]
    /\ peer' = [peer EXCEPT ![o] = i]
    /\ entries' = [entries EXCEPT ![o] = registry[o]]
    /\ pc' = [pc EXCEPT ![i] = "dial"]
    /\ UNCHANGED <<fresh, accepting, stopping, ownVars, from, wire, manifest, committed,
                   paneVars, crashes, stopped>>

(* The transfer connection is accepted and its nonce checked.              *)
Dial(i) ==
    /\ pc[i] = "dial" /\ ConnOpen(i) /\ out[from[i]] = "bound"
    /\ pc' = [pc EXCEPT ![i] = "listener"]
    /\ out' = [out EXCEPT ![from[i]] = "listener"]
    /\ UNCHANGED <<fresh, accepting, stopping, ownVars, handoffLock, peer, from, entries,
                   wire, manifest, committed, paneVars, crashes, stopped>>

SendListener(o) ==
    /\ out[o] = "listener" /\ Alive(peer[o])
    /\ wire' = [wire EXCEPT ![peer[o]] = @ \cup {"listener"}]
    /\ out' = [out EXCEPT ![o] = "lock"]
    /\ UNCHANGED <<procVars, ownVars, handoffLock, peer, from, entries, manifest,
                   committed, paneVars, crashes, stopped>>

SendLock(o) ==
    /\ out[o] = "lock" /\ Alive(peer[o])
    /\ wire' = [wire EXCEPT ![peer[o]] = @ \cup {"lock"}]
    /\ out' = [out EXCEPT ![o] = "pause"]
    /\ UNCHANGED <<procVars, ownVars, handoffLock, peer, from, entries, manifest,
                   committed, paneVars, crashes, stopped>>

(* PausedPanes::pause_all succeeds: every captured pump is parked.         *)
PauseAll(o) ==
    /\ out[o] = "pause"
    /\ pumping' = [pumping EXCEPT ![o] = @ \ entries[o]]
    /\ out' = [out EXCEPT ![o] = "panes"]
    /\ UNCHANGED <<procVars, ownVars, handoffLock, peer, from, entries, wire, manifest,
                   committed, registry, spawned, killed, crashes, stopped>>

(* The manifest, the count and one master per captured entry.              *)
SendPanes(o) ==
    /\ out[o] = "panes" /\ Alive(peer[o])
    /\ wire' = [wire EXCEPT ![peer[o]] = @ \cup {"panes"}]
    /\ manifest' = [manifest EXCEPT ![peer[o]] = entries[o]]
    /\ out' = [out EXCEPT ![o] = "wait"]
    /\ UNCHANGED <<procVars, ownVars, handoffLock, peer, from, entries, committed,
                   paneVars, crashes, stopped>>

(* wait_for_commit read the marker byte: audit row, PausedPanes::commit (the
   pumps stay parked), stop flag.  The transfer socket and the one-handoff
   lock go with the returning call.                                        *)
WaitForCommit(o) ==
    /\ out[o] = "wait" /\ peer[o] \in committed
    /\ stopping' = stopping \cup {o}
    /\ out' = [out EXCEPT ![o] = "idle"]
    /\ handoffLock' = None
    /\ UNCHANGED <<pc, fresh, accepting, ownVars, peer, from, entries, wire, manifest,
                   committed, paneVars, crashes, stopped>>

(* Any error of run_transfer before the byte: PausedPanes::drop resumes every
   pump, while the connection, dropped last, is still open.  The wait for the
   byte ends early on end-of-stream, or on its deadline.                   *)
Abort(o) ==
    /\ \/ out[o] \in {"bound", "listener", "lock", "pause", "panes"}
       \/ /\ out[o] = "wait"
          /\ peer[o] \notin committed
          /\ ~Alive(peer[o]) \/ "slow" \in Env
    /\ out' = [out EXCEPT ![o] = "closing"]
    /\ pumping' = [pumping EXCEPT ![o] = @ \cup (entries[o] \cap registry[o])]
    /\ UNCHANGED <<procVars, ownVars, handoffLock, peer, from, entries, wire, manifest,
                   committed, registry, spawned, killed, crashes, stopped>>

(* run_transfer has returned its error: the connection and the transfer
   socket close, then the one-handoff lock is released.                    *)
CloseTransfer(o) ==
    /\ out[o] = "closing"
    /\ out' = [out EXCEPT ![o] = "idle"]
    /\ handoffLock' = None
    /\ UNCHANGED <<procVars, ownVars, peer, from, entries, wire, manifest, committed,
                   paneVars, crashes, stopped>>

(* The accept loop sees the flag and drops its listener.                   *)
StopAccepting(o) ==
    /\ o \in stopping \cap accepting
    /\ accepting' = accepting \ {o}
    /\ UNCHANGED <<pc, fresh, stopping, ownVars, xferVars, paneVars, crashes, stopped>>

(* serve returned Ok: exit(0), no destructor, the socket file stays.       *)
ExitHandedOn(o) ==
    /\ o \in stopping \ accepting /\ pc[o] = "owner"
    /\ Exit(o)
    /\ UNCHANGED <<path, crashes, stopped>>

-----------------------------------------------------------------------------
(* The incoming daemon: run_handoff_inner.                                 *)

RecvListener(i) ==
    /\ pc[i] = "listener" /\ "listener" \in wire[i]
    /\ wire' = [wire EXCEPT ![i] = @ \ {"listener"}]
    /\ listener' = [listener EXCEPT ![i] = listener[from[i]]]
    /\ pc' = [pc EXCEPT ![i] = "lock"]
    /\ UNCHANGED <<fresh, accepting, stopping, path, lockHolders, handoffLock, out, peer,
                   from, entries, manifest, committed, paneVars, crashes, stopped>>

(* inherited_checked: the descriptor shares the locked description.        *)
RecvLock(i) ==
    /\ pc[i] = "lock" /\ "lock" \in wire[i]
    /\ wire' = [wire EXCEPT ![i] = @ \ {"lock"}]
    /\ lockHolders' = lockHolders \cup {i}
    /\ pc' = [pc EXCEPT ![i] = "panes"]
    /\ UNCHANGED <<fresh, accepting, stopping, listener, path, handoffLock, out, peer,
                   from, entries, manifest, committed, paneVars, crashes, stopped>>

(* Manifest, count and masters: every pane is adopted with its pump parked. *)
AdoptPanes(i) ==
    /\ pc[i] = "panes" /\ "panes" \in wire[i]
    /\ wire' = [wire EXCEPT ![i] = @ \ {"panes"}]
    /\ registry' = [registry EXCEPT ![i] = manifest[i]]
    /\ pc' = [pc EXCEPT ![i] = "serve"]
    /\ UNCHANGED <<fresh, accepting, stopping, ownVars, handoffLock, out, peer, from,
                   entries, manifest, committed, pumping, spawned, killed, crashes, stopped>>

(* serve_inherited refuses a missing socket file; serve_on signals ready.  *)
ServeInherited(i) ==
    /\ pc[i] = "serve" /\ path # None
    /\ accepting' = accepting \cup {i}
    /\ pc' = [pc EXCEPT ![i] = "ready"]
    /\ UNCHANGED <<fresh, stopping, ownVars, xferVars, paneVars, crashes, stopped>>

(* send_commit: the write succeeds exactly while the far end is open.      *)
SendCommit(i) ==
    /\ pc[i] = "ready" /\ ConnOpen(i)
    /\ committed' = committed \cup {i}
    /\ pc' = [pc EXCEPT ![i] = "resume"]
    /\ UNCHANGED <<fresh, accepting, stopping, ownVars, handoffLock, out, peer, from,
                   entries, wire, manifest, paneVars, crashes, stopped>>

(* After the commit only: the guards are re-opened and the pumps start.    *)
ResumePumps(i) ==
    /\ pc[i] = "resume"
    /\ pumping' = [pumping EXCEPT ![i] = registry[i]]
    /\ pc' = [pc EXCEPT ![i] = "owner"]
    /\ UNCHANGED <<fresh, accepting, stopping, ownVars, xferVars, registry, spawned,
                   killed, crashes, stopped>>

(* Every refusal before the commit (the request refused as busy or out of the
   version window, a bounded receive that failed or timed out, a check that
   failed, no readiness, no commit byte) ends the new process.             *)
Refuse(i) ==
    /\ pc[i] \in IncomingPhases
    /\ Exit(i)
    /\ UNCHANGED <<path, crashes, stopped>>

-----------------------------------------------------------------------------
(* Endings nobody negotiates.                                              *)

(* Only a fresh daemon installs the signal handler: it stops accepting,
   drains and saves while its other threads run on ...                     *)
Terminate(d) ==
    /\ "sigterm" \in Env
    /\ pc[d] = "owner" /\ d \in fresh
    /\ pc' = [pc EXCEPT ![d] = "draining"]
    /\ accepting' = accepting \ {d}
    /\ stopped' = TRUE
    /\ UNCHANGED <<fresh, stopping, ownVars, xferVars, paneVars, crashes>>

(* ... and removes the socket file, whoever is listening behind it.        *)
FinishShutdown(d) ==
    /\ pc[d] = "draining"
    /\ path' = None
    /\ Exit(d)
    /\ UNCHANGED <<crashes, stopped>>

Crash(d) ==
    /\ Alive(d) /\ crashes < MaxCrashes
    /\ crashes' = crashes + 1
    /\ Exit(d)
    /\ UNCHANGED <<path, stopped>>

-----------------------------------------------------------------------------
StartStep(d) == Probe(d) \/ Acquire(d) \/ Bind(d)

IncomingStep(i) ==
    \/ Dial(i) \/ RecvListener(i) \/ RecvLock(i) \/ AdoptPanes(i)
    \/ ServeInherited(i) \/ SendCommit(i) \/ ResumePumps(i) \/ Refuse(i)

OutgoingStep(o) ==
    \/ SendListener(o) \/ SendLock(o) \/ PauseAll(o) \/ SendPanes(o)
    \/ WaitForCommit(o) \/ Abort(o) \/ CloseTransfer(o)

EndStep(d) == StopAccepting(d) \/ ExitHandedOn(d) \/ FinishShutdown(d)

Next ==
    \/ \E d \in Daemons :
         \/ Start(d) \/ StartStep(d) \/ IncomingStep(d) \/ OutgoingStep(d)
         \/ EndStep(d) \/ Terminate(d) \/ Crash(d)
    \/ \E d \in Daemons, p \in Panes : Spawn(d, p) \/ Kill(d, p)
    \/ \E i, o \in Daemons : StartIncoming(i, o) \/ Grant(o, i)

Spec == Init /\ [][Next]_vars

(* The threads of a live process are scheduled and its waits are bounded; no
   client, operator or crash is ever obliged to act.                       *)
Fairness ==
    \A d \in Daemons :
        /\ WF_vars(StartStep(d)) /\ WF_vars(IncomingStep(d))
        /\ WF_vars(OutgoingStep(d)) /\ WF_vars(EndStep(d))

FairSpec == Spec /\ Fairness

-----------------------------------------------------------------------------
(* Properties.                                                             *)

(* A daemon owns the socket from its bind, or from its commit byte, until it
   is stopped or its own successor's commit byte is on the way to it.      *)
Owner(d) ==
    /\ pc[d] \in {"resume", "owner"}
    /\ d \notin stopping
    /\ ~(out[d] = "wait" /\ peer[d] \in committed)

(* ADR 0021 section 3, "one serving daemon, enforced by flock": whoever runs
   an accept loop holds the flocked description, across inheritance, aborts
   (an inherited lock never unlocks) and crashes.                          *)
ServingHoldsLock == accepting \subseteq lockHolders

(* Two processes that accept at the same time drain one listening socket: no
   order of probes, locks, cuts and crashes forks the socket path.         *)
NoSplitBrain == \A d, e \in accepting : listener[d] = listener[e]

(* serve's remove_file + bind never takes the path away from a listening
   socket that some process still holds (the re-probe under the lock).     *)
NeverUnlinksLive ==
    [][path' \in Daemons /\ path' # path => ~IsLive]_vars

(* The one-handoff lock: never two transfers under way at once.            *)
OneTransfer == \A d, e \in Daemons : out[d] # "idle" /\ out[e] # "idle" => d = e

(* ADR 0021 section 3: "exactly one serving daemon" is an invariant.       *)
OneOwner == \A d, e \in Daemons : Owner(d) /\ Owner(e) => d = e

(* ADR 0021 section 2, "There is no state in which the machine has no serving
   daemon": once a daemon has bound the socket, and until a process crashes
   or is stopped, somebody accepts on the listener the path names.         *)
SocketNeverDead ==
    path # None /\ crashes = 0 /\ ~stopped =>
        \E d \in accepting : listener[d] = path

(* "Updates must never kill agents" (ADR 0021, Context): without a crash or a
   shutdown some process still holds the master of every pane that was spawned
   and not killed.                                                         *)
NoAgentKilled ==
    crashes = 0 /\ ~stopped =>
        \A p \in spawned \ killed : \E d \in Daemons : p \in registry[d]

(* The state SIGTERM must not leave: the lock is held, so no daemon can start,
   and the file is gone, so no client can reach the one that runs.         *)
NeverHalfDead == \A d \in Daemons : Owner(d) => path # None

(* A pane a handoff parked is read again, by the daemon that kept it or by
   the one that took it over, unless it is killed or no process has it.    *)
AgentNeverStuck ==
    \A p \in Panes :
        []<>(\/ p \notin spawned \/ p \in killed
             \/ \A d \in Daemons : p \notin registry[d]
             \/ \E d \in Daemons : p \in pumping[d])

(* Every handoff ends: the incoming process serves or exits, and the daemon
   it asked is free for the next request or gone.                          *)
HandoffEnds ==
    \A d \in Daemons :
        /\ pc[d] \in IncomingPhases ~> pc[d] \in {"owner", "dead"}
        /\ out[d] # "idle" ~> out[d] = "idle"

-----------------------------------------------------------------------------
(* The inductive invariant behind ServingHoldsLock, NoSplitBrain, OneTransfer
   and NeverUnlinksLive, whatever the environment does.                    *)

EarlyPhases  == StartPhases \cup {"unborn"}
ServedPhases == {"ready", "resume", "owner", "draining"}
GroupPhases  == ServedPhases \cup {"panes", "serve"}

(* The processes behind the one locked description, or about to be.        *)
Carrier(d) == pc[d] \in GroupPhases \/ "lock" \in wire[d]

(* The listener a carrier has, or will have received by the time it serves. *)
CarriedListener(d) ==
    IF pc[d] = "listener" THEN listener[from[d]] ELSE listener[d]

LockInv == \A d \in Daemons :
    d \in lockHolders <=> pc[d] \in GroupPhases \cup {"reprobe", "bind"}

AcceptInv == \A d \in accepting : pc[d] \in {"ready", "resume", "owner"}

FromInv == \A i \in Daemons :
    /\ pc[i] \in IncomingPhases \cup {"resume"} => from[i] \in Daemons
    /\ from[i] # None => from[i] # i /\ pc[from[i]] \in ServedPhases \cup {"dead"}

OutInv == \A o \in Daemons : out[o] # "idle" =>
    /\ handoffLock = o
    /\ pc[o] \in ServedPhases
    /\ peer[o] \in Daemons /\ from[peer[o]] = o /\ pc[peer[o]] # "unborn"

WireInv == \A i \in Daemons :
    /\ "listener" \in wire[i] => pc[i] = "listener"
    /\ "lock" \in wire[i] => pc[i] \in {"listener", "lock"}
    /\ "panes" \in wire[i] => pc[i] \in {"listener", "lock", "panes"}

(* How far the receiver can be while its sender is in a given phase.       *)
PeerInv == \A o \in Daemons : out[o] # "idle" /\ pc[peer[o]] # "dead" =>
    /\ out[o] = "bound" => pc[peer[o]] = "dial" /\ wire[peer[o]] = {}
    /\ out[o] = "listener" => pc[peer[o]] = "listener" /\ wire[peer[o]] = {}
    /\ out[o] = "lock" => /\ pc[peer[o]] \in {"listener", "lock"}
                          /\ wire[peer[o]] \subseteq {"listener"}
    /\ out[o] \in {"pause", "panes"} => /\ pc[peer[o]] \in {"listener", "lock", "panes"}
                                        /\ "panes" \notin wire[peer[o]]

ListenerInv == \A i \in Daemons :
    /\ pc[i] \in {"lock", "panes", "serve", "ready", "resume"} =>
         listener[i] = listener[from[i]]
    /\ pc[i] \in EarlyPhases \cup {"request", "dial", "listener"} => listener[i] = None

GroupInv == \A d, e \in Daemons :
    Carrier(d) /\ Carrier(e) => CarriedListener(d) = CarriedListener(e)

(* A fresh daemon past its lock is alone, and still alone when it unlinks. *)
BindInv == \A d, e \in Daemons : pc[d] \in {"reprobe", "bind"} =>
    /\ ~Carrier(e)
    /\ pc[e] \in {"reprobe", "bind"} => e = d

LiveInv == \A d \in Daemons : pc[d] = "bind" => ~IsLive

IndInv ==
    /\ TypeOK /\ LockInv /\ AcceptInv /\ FromInv /\ OutInv /\ WireInv /\ PeerInv
    /\ ListenerInv /\ GroupInv /\ BindInv /\ LiveInv

(* The part behind OneOwner, which needs prompt peers: nobody commits to a
   daemon that has given up, and no handoff starts at a daemon that is taking
   part in another one.                                                    *)
Prompt == Env \cap {"slow", "rerequest", "chained"} = {}

Claims(d) ==
    /\ pc[d] \in {"resume", "owner", "draining"}
    /\ d \notin stopping
    /\ ~(out[d] = "wait" /\ peer[d] \in committed)

OneClaim == \A d, e \in Daemons : Claims(d) /\ Claims(e) => d = e

CommittedInv == \A i \in committed : pc[i] \in {"resume", "owner", "draining", "dead"}

StoppingInv == \A d \in stopping : pc[d] \in {"owner", "draining", "dead"}

OutgoingInv == \A o \in Daemons : out[o] # "idle" =>
    pc[o] \in {"owner", "draining"} /\ o \notin stopping

(* A transfer that was given up has a receiver that can never commit.      *)
GivenUpInv == \A o \in Daemons : out[o] \notin {"idle", "wait"} /\ pc[peer[o]] # "dead" =>
    /\ pc[peer[o]] \in {"dial", "listener", "lock", "panes"}
    /\ "panes" \notin wire[peer[o]]

PromptInv == OneClaim /\ CommittedInv /\ StoppingInv /\ OutgoingInv /\ GivenUpInv

-----------------------------------------------------------------------------
(* Refinement: the detailed protocol implements DaemonService.             *)

SocketOwner == IF \E d \in Daemons : Owner(d)
               THEN CHOOSE d \in Daemons : Owner(d) ELSE None

Service == INSTANCE DaemonService WITH
    owner <- SocketOwner,
    panes <- IF SocketOwner = None THEN {} ELSE registry[SocketOwner] \ killed

(* The commit byte is the cut: on it, and on nothing else, ownership passes,
   and the new owner has every pane the old one had.                       *)
ImplementsService == Service!Spec
=============================================================================
