----------------------------- MODULE PaneRegistry -----------------------------
(***************************************************************************)
(* The daemon's registry of panes, the record of it on disk, and what both *)
(* become over restarts.                                                   *)
(*                                                                         *)
(* A session of the daemon forks the child of a new pane outside every     *)
(* lock and takes the registry's lock to insert it.  A kill removes the    *)
(* entry; a detached task waits for the child and removes its checkout.    *)
(* After a verb that may have changed the registry, a detached task writes *)
(* all of it to disk, under a gate.  A daemon that starts spawns every     *)
(* pane on record again, on the harness session the record names.          *)
(*                                                                         *)
(* Children are numbered as they are forked, and a harness session has the *)
(* number of the child that opened it: Arreo's own choice of a fresh id    *)
(* (`pin`) and the harness's (`continue`) are the same number.             *)
(***************************************************************************)
EXTENDS Naturals, Sequences, FiniteSets

CONSTANTS
    Ids,          \* pane ids
    Trees,        \* names of worktrees
    Requests,     \* the spawns clients ask for: [id, kind, tree]
    Clients,      \* sessions of the daemon that act at the same time
    None,
    Last,         \* an argv that says "continue the last session here"
    MaxChildren,  \* bound on the children ever forked
    MaxVerbs,     \* bound on the verbs that change anything
    MaxTasks,     \* bound on the snapshot tasks waiting at once
    MaxEnds       \* bound on the times the daemon ends

(* The resume strategy of a pane's harness; "plain" has none. *)
Kind == {"pin", "continue", "plain"}

ASSUME RegistryAssumption ==
    /\ MaxChildren \in Nat /\ MaxVerbs \in Nat /\ MaxTasks \in Nat /\ MaxEnds \in Nat
    /\ Requests \subseteq [id : Ids, kind : Kind, tree : Trees \union {None}]
    /\ None \notin Nat /\ None \notin Trees /\ None # Last /\ Last \notin Nat

VARIABLES
    child,     \* the children forked so far: argv, what the entry knows, the process
    registry,  \* [Ids -> number of the child registered, or None]
    job,       \* [Clients -> the verb it is in the middle of]
    cleanup,   \* kill_pane's detached tasks: [child, where]
    tasks,     \* snapshot tasks that have not ended
    gate,      \* what the task that holds the gate has read (none or one)
    db,        \* [Ids -> record on disk, or None]
    tree,      \* [Trees -> "absent", "clean" or "dirty"]
    mode,      \* "up", "down" or "boot"
    todo,      \* the ids still to be restored, in a boot
    saved,     \* whether this daemon has written a snapshot (auxiliary)
    verbs, ends

vars == <<child, registry, job, cleanup, tasks, gate, db, tree, mode, todo, saved, verbs, ends>>

Child == 1..MaxChildren
Forked == DOMAIN child
Up == mode = "up"
Idle == [pc |-> "idle", id |-> None, kind |-> None, arg |-> None, tree |-> None, c |-> None]
Done == [Idle EXCEPT !.pc = "done"]
Live(c) == child[c].alive

(* What a snapshot keeps of an entry: harness, argv, session and worktree. *)
Entry(c) == [kind |-> child[c].kind, arg |-> child[c].arg,
             session |-> child[c].known, tree |-> child[c].tree]

Snapshot == [i \in Ids |-> IF registry[i] = None THEN None ELSE Entry(registry[i])]

Init ==
    /\ child = <<>>
    /\ registry = [i \in Ids |-> None]
    /\ job = [w \in Clients |-> Idle]
    /\ cleanup = {}
    /\ tasks = 0 /\ gate = {}
    /\ db = [i \in Ids |-> None]
    /\ tree = [t \in Trees |-> "absent"]
    /\ mode = "up" /\ todo = {}
    /\ saved = FALSE
    /\ verbs = 0 /\ ends = 0

-----------------------------------------------------------------------------
(* Forking. *)

Fresh == Len(child) + 1

(* Which sessions a child may write, from its argv (the harness's doing): the one
   named; the last one of its directory; a new one. *)
Opens(kind, arg, t) ==
    CASE kind = "plain" -> {None}
      [] kind # "plain" /\ arg \in Child -> {arg}
      [] kind # "plain" /\ arg = Last ->
           LET before == {child[c].on : c \in {d \in Forked : child[d].kind = kind /\ child[d].tree = t}}
           IN  IF before = {} THEN {Fresh} ELSE before
      [] OTHER -> {Fresh}

Fork(kind, arg, known, t) ==
    /\ Fresh \in Child
    /\ \E s \in Opens(kind, arg, t) :
         child' = Append(child, [kind |-> kind, arg |-> arg, known |-> known, learned |-> FALSE,
                                 on |-> s, tree |-> t, alive |-> TRUE])

(* Faulty: a session is chosen only where the argv names none, so that a split
   starts with the argv of its source. *)
RepinOnce(kind, arg) == IF kind = "pin" /\ arg = None THEN Fresh ELSE arg

(* A `pin` strategy chooses a session at every spawn and every split. *)
Repin(kind, arg) == IF kind = "pin" THEN Fresh ELSE arg

Pinned(kind, arg) == IF kind = "pin" THEN arg ELSE None

-----------------------------------------------------------------------------
(* The verbs. *)

Remade(t) == tree' = IF t = None THEN tree
                     ELSE [tree EXCEPT ![t] = IF @ = "absent" THEN "clean" ELSE @]

Begin(w) ==
    /\ Up /\ job[w].pc = "idle"
    /\ verbs < MaxVerbs /\ verbs' = verbs + 1

(* Spawn and SpawnWorktree.  The checkout first (worktree::ensure): one that is
   there is used as it is. *)
Spawn(w, r) ==
    /\ Begin(w)
    /\ Remade(r.tree)
    /\ job' = [job EXCEPT ![w] = [Idle EXCEPT !.pc = "fork", !.id = r.id, !.kind = r.kind,
                                             !.tree = r.tree]]
    /\ UNCHANGED <<child, registry, cleanup, tasks, gate, db, mode, todo, saved, ends>>

(* require_checkout was asked before the fork; a checkout that has gone since is
   not noticed, and the child starts in the home directory. *)
SpawnFork(w) ==
    /\ Up /\ job[w].pc = "fork"
    /\ LET j == job[w]
           arg == Repin(j.kind, None)
       IN  /\ Fork(j.kind, arg, Pinned(j.kind, arg), j.tree)
           /\ job' = [job EXCEPT ![w].pc = "register", ![w].c = Fresh]
    /\ UNCHANGED <<registry, cleanup, tasks, gate, db, tree, mode, todo, saved, verbs, ends>>

SpawnRegister(w) ==
    /\ Up /\ job[w].pc = "register"
    /\ registry[job[w].id] = None
    /\ registry' = [registry EXCEPT ![job[w].id] = job[w].c]
    /\ job' = [job EXCEPT ![w] = Done]
    /\ UNCHANGED <<child, cleanup, tasks, gate, db, tree, mode, todo, saved, verbs, ends>>

(* The id is taken, or the budget cannot be enforced: the entry is dropped, and
   nothing kills the child. *)
SpawnRefused(w) ==
    /\ Up /\ job[w].pc = "register"
    /\ job' = [job EXCEPT ![w] = Done]
    /\ UNCHANGED <<child, registry, cleanup, tasks, gate, db, tree, mode, todo, saved, verbs, ends>>

(* The child cannot be started. *)
ForkFails(w) ==
    /\ Up /\ job[w].pc \in {"fork", "splitfork"}
    /\ job' = [job EXCEPT ![w] = Done]
    /\ UNCHANGED <<child, registry, cleanup, tasks, gate, db, tree, mode, todo, saved, verbs, ends>>

(* The source's spec is read and the new id found free; then the fork; then an
   insert that does not ask again.  A split has no worktree. *)
Split(w, i, new) ==
    /\ Begin(w)
    /\ registry[i] # None /\ registry[new] = None
    /\ LET source == child[registry[i]]
       IN  job' = [job EXCEPT ![w] = [Idle EXCEPT !.pc = "splitfork", !.id = new,
                                        !.kind = source.kind, !.arg = source.arg]]
    /\ UNCHANGED <<child, registry, cleanup, tasks, gate, db, tree, mode, todo, saved, ends>>

SplitFork(w) ==
    /\ Up /\ job[w].pc = "splitfork"
    /\ LET j == job[w]
           arg == Repin(j.kind, j.arg)
       IN  /\ Fork(j.kind, arg, Pinned(j.kind, arg), None)
           /\ job' = [job EXCEPT ![w].pc = "insert", ![w].c = Fresh]
    /\ UNCHANGED <<registry, cleanup, tasks, gate, db, tree, mode, todo, saved, verbs, ends>>

SplitInsert(w) ==
    /\ Up /\ job[w].pc = "insert"
    /\ registry' = [registry EXCEPT ![job[w].id] = job[w].c]
    /\ job' = [job EXCEPT ![w] = Done]
    /\ UNCHANGED <<child, cleanup, tasks, gate, db, tree, mode, todo, saved, verbs, ends>>

(* The entry goes, SIGKILL is sent, and a detached task sees to the rest. *)
Removed(i) ==
    /\ registry[i] # None
    /\ registry' = [registry EXCEPT ![i] = None]
    /\ cleanup' = cleanup \union {[c |-> registry[i], at |-> "wait"]}

Kill(w, i) ==
    /\ Begin(w)
    /\ Removed(i)
    /\ job' = [job EXCEPT ![w] = Done]
    /\ UNCHANGED <<child, tasks, gate, db, tree, mode, todo, saved, ends>>

(* No such pane, or a new id that is taken: an error, and a snapshot all the same. *)
Refused(w) ==
    /\ Begin(w)
    /\ job' = [job EXCEPT ![w] = Done]
    /\ UNCHANGED <<child, registry, cleanup, tasks, gate, db, tree, mode, todo, saved, ends>>

(* A quick action looks at the pane first, under a lock it gives back: what is
   registered by that id when it kills may be another pane. *)
NotifyCheck(w, i) ==
    /\ Begin(w)
    /\ registry[i] # None /\ Live(registry[i])
    /\ job' = [job EXCEPT ![w] = [Idle EXCEPT !.pc = "notify", !.id = i]]
    /\ UNCHANGED <<child, registry, cleanup, tasks, gate, db, tree, mode, todo, saved, ends>>

NotifyKill(w) ==
    /\ Up /\ job[w].pc = "notify"
    /\ IF registry[job[w].id] = None
       THEN UNCHANGED <<registry, cleanup, tasks>>
       ELSE Removed(job[w].id) /\ tasks < MaxTasks /\ tasks' = tasks + 1
    /\ job' = [job EXCEPT ![w] = Idle]
    /\ UNCHANGED <<child, gate, db, tree, mode, todo, saved, verbs, ends>>

-----------------------------------------------------------------------------
(* After a verb: a snapshot if the verb may have changed the registry, or if a
   pane has learned its session, whose flag is then taken (one of them). *)

Learned == {c \in Forked : child[c].learned /\ \E i \in Ids : registry[i] = c}

Take ==
    IF Learned = {} THEN UNCHANGED child
    ELSE \E c \in Learned : child' = [child EXCEPT ![c].learned = FALSE]

Dispatched(w) ==
    /\ Up /\ job[w].pc = "done"
    /\ tasks < MaxTasks
    /\ Take
    /\ tasks' = tasks + 1
    /\ job' = [job EXCEPT ![w] = Idle]
    /\ UNCHANGED <<registry, cleanup, gate, db, tree, mode, todo, saved, verbs, ends>>

(* Any other message of a client. *)
DispatchedOther ==
    /\ Up /\ Learned # {} /\ tasks < MaxTasks
    /\ Take
    /\ tasks' = tasks + 1
    /\ UNCHANGED <<registry, job, cleanup, gate, db, tree, mode, todo, saved, verbs, ends>>

(* The harness prints its session: the engine of a registered pane keeps the first
   one it sees, and never replaces the one it was started with. *)
Capture(c) ==
    /\ Up /\ \E i \in Ids : registry[i] = c
    /\ child[c].kind # "plain" /\ child[c].known = None /\ Live(c)
    /\ child' = [child EXCEPT ![c].known = child[c].on, ![c].learned = TRUE]
    /\ UNCHANGED <<registry, job, cleanup, tasks, gate, db, tree, mode, todo, saved, verbs, ends>>

(* Faulty: the tasks do not wait for each other. *)
GateFreeAlways == TRUE

GateFree == gate = {}

SnapshotRead ==
    /\ Up /\ tasks > Cardinality(gate)
    /\ GateFree
    /\ gate' = gate \union {Snapshot}
    /\ UNCHANGED <<child, registry, job, cleanup, tasks, db, tree, mode, todo, saved, verbs, ends>>

SnapshotWrite ==
    /\ Up
    /\ \E read \in gate : db' = read /\ gate' = gate \ {read}
    /\ tasks' = tasks - 1
    /\ saved' = TRUE
    /\ UNCHANGED <<child, registry, job, cleanup, tree, mode, todo, verbs, ends>>

-----------------------------------------------------------------------------
(* Children and checkouts. *)

Exit(c) ==
    /\ Live(c)
    /\ child' = [child EXCEPT ![c].alive = FALSE]
    /\ UNCHANGED <<registry, job, cleanup, tasks, gate, db, tree, mode, todo, saved, verbs, ends>>

Work(c) ==
    /\ Live(c) /\ child[c].tree # None
    /\ \/ tree[child[c].tree] = "clean" /\ tree' = [tree EXCEPT ![child[c].tree] = "dirty"]
       \/ tree[child[c].tree] = "dirty" /\ tree' = [tree EXCEPT ![child[c].tree] = "clean"]
    /\ UNCHANGED <<child, registry, job, cleanup, tasks, gate, db, mode, todo, saved, verbs, ends>>

(* kill_pane's task: the child has exited, or the bound passed and the checkout
   is left alone. *)
CleanupWaited(k) ==
    /\ Up /\ k.at = "wait"
    /\ \/ ~Live(k.c) /\ child[k.c].tree # None
            /\ cleanup' = (cleanup \ {k}) \union {[k EXCEPT !.at = "status"]}
       \/ ~Live(k.c) /\ child[k.c].tree = None /\ cleanup' = cleanup \ {k}
       \/ Live(k.c) /\ cleanup' = cleanup \ {k}
    /\ UNCHANGED <<child, registry, job, tasks, gate, db, tree, mode, todo, saved, verbs, ends>>

(* worktree::remove: a status read that finds changes ends it. *)
CleanupStatus(k) ==
    /\ Up /\ k.at = "status"
    /\ cleanup' = (cleanup \ {k}) \union
                    (IF tree[child[k.c].tree] = "clean" THEN {[k EXCEPT !.at = "remove"]} ELSE {})
    /\ UNCHANGED <<child, registry, job, tasks, gate, db, tree, mode, todo, saved, verbs, ends>>

(* Faulty: --force, since the status was clean. *)
AfterRemoveForced(t) == "absent"

(* git worktree remove, without --force. *)
AfterRemove(t) == IF tree[t] = "dirty" THEN "dirty" ELSE "absent"

CleanupRemove(k) ==
    /\ Up /\ k.at = "remove"
    /\ cleanup' = cleanup \ {k}
    /\ tree' = [tree EXCEPT ![child[k.c].tree] = AfterRemove(child[k.c].tree)]
    /\ UNCHANGED <<child, registry, job, tasks, gate, db, mode, todo, saved, verbs, ends>>

-----------------------------------------------------------------------------
(* The end of a daemon, and the next one. *)

(* The process is gone: its tasks too, and the children are hung up on. *)
Ended ==
    /\ ends < MaxEnds
    /\ ends' = ends + 1
    /\ mode' = "down" /\ todo' = {}
    /\ child' = [c \in Forked |-> [child[c] EXCEPT !.alive = FALSE, !.learned = FALSE]]
    /\ registry' = [i \in Ids |-> None]
    /\ job' = [w \in Clients |-> Idle]
    /\ cleanup' = {} /\ tasks' = 0 /\ gate' = {}
    /\ saved' = FALSE
    /\ UNCHANGED <<tree, verbs>>

(* SIGTERM takes the gate, writes the registry and exits. *)
Sigterm == Up /\ GateFree /\ db' = Snapshot /\ Ended

Crash == mode # "down" /\ UNCHANGED db /\ Ended

Boot ==
    /\ mode = "down"
    /\ mode' = "boot"
    /\ todo' = {i \in Ids : db[i] # None}
    /\ UNCHANGED <<child, registry, job, cleanup, tasks, gate, db, tree, saved, verbs, ends>>

(* The session a record resumes: the one recorded, else the one its argv carries.
   The argv that names it replaces whatever resume argv the record has; a
   `continue` strategy without a session continues the last one. *)
Carried(r) == IF r.session # None THEN r.session
              ELSE IF r.arg \in Child THEN r.arg ELSE None

Resumable(r) == r.kind = "continue" \/ (r.kind = "pin" /\ Carried(r) # None)

ResumeArg(r) == IF Carried(r) = None THEN Last ELSE Carried(r)

Restored(i) ==
    /\ registry' = [registry EXCEPT ![i] = Fresh]
    /\ todo' = todo \ {i}
    /\ Remade(db[i].tree)
    /\ UNCHANGED <<job, cleanup, tasks, gate, db, mode, saved, verbs, ends>>

RestoreResumed(i) ==
    /\ Resumable(db[i])
    /\ Fork(db[i].kind, ResumeArg(db[i]), Carried(db[i]), db[i].tree)
    /\ Restored(i)

(* Nothing to resume, or the harness refused: the recorded command, as it is. *)
RestorePlain(i) ==
    /\ Fork(db[i].kind, db[i].arg, None, db[i].tree)
    /\ Restored(i)

(* The checkout cannot be made or the command cannot be started. *)
RestoreSkipped(i) ==
    /\ todo' = todo \ {i}
    /\ UNCHANGED <<child, registry, job, cleanup, tasks, gate, db, tree, mode, saved, verbs, ends>>

Serve ==
    /\ mode = "boot" /\ todo = {}
    /\ mode' = "up"
    /\ UNCHANGED <<child, registry, job, cleanup, tasks, gate, db, tree, todo, saved, verbs, ends>>

-----------------------------------------------------------------------------
Verb(w) ==
    \/ \E r \in Requests : Spawn(w, r)
    \/ SpawnFork(w) \/ SpawnRegister(w) \/ SpawnRefused(w) \/ ForkFails(w)
    \/ \E i, new \in Ids : Split(w, i, new)
    \/ SplitFork(w) \/ SplitInsert(w)
    \/ \E i \in Ids : Kill(w, i) \/ NotifyCheck(w, i)
    \/ Refused(w) \/ NotifyKill(w) \/ Dispatched(w)

Next ==
    \/ \E w \in Clients : Verb(w)
    \/ DispatchedOther \/ SnapshotRead \/ SnapshotWrite
    \/ \E c \in Forked : Capture(c) \/ Exit(c) \/ Work(c)
    \/ \E k \in cleanup : CleanupWaited(k) \/ CleanupStatus(k) \/ CleanupRemove(k)
    \/ Sigterm \/ Crash \/ Boot \/ Serve
    \/ \E i \in todo : RestoreResumed(i) \/ RestorePlain(i) \/ RestoreSkipped(i)

Spec == Init /\ [][Next]_vars

-----------------------------------------------------------------------------
(* Properties. *)

TypeOK ==
    /\ Forked \subseteq Child
    /\ \A c \in Forked :
         child[c] \in [kind : Kind, arg : Child \union {None, Last}, known : Child \union {None},
                       learned : BOOLEAN, on : Child \union {None}, tree : Trees \union {None},
                       alive : BOOLEAN]
    /\ \A i \in Ids : registry[i] # None => registry[i] \in Forked
    /\ tasks \in 0..MaxTasks
    /\ mode \in {"up", "down", "boot"} /\ todo \subseteq Ids

(* SNAPSHOT_GATE (daemon.rs): detached snapshots may start in any order, and yet
   "the DB always ends" at the newest state: when no verb and no snapshot is under
   way and no session waits to be recorded, the disk is the registry. *)
Quiet ==
    /\ Up /\ tasks = 0 /\ Learned = {}
    /\ \A w \in Clients : job[w].pc # "done"

DiskConverges == saved /\ Quiet => db = Snapshot

(* "two panes writing one harness session is one session corrupted, not one
   session shared" (daemon.rs, Split): no two live children on one session. *)
SessionsApart ==
    \A c, d \in Forked :
      c # d /\ Live(c) /\ Live(d) /\ child[c].on # None => child[c].on # child[d].on

(* The same of the strategy that pins: over spawns, splits, kills and restarts. *)
PinnedApart ==
    \A c, d \in Forked :
      c # d /\ Live(c) /\ Live(d) /\ child[c].kind = "pin" /\ child[d].kind = "pin"
        => child[c].on # child[d].on

(* worktree::remove: a checkout with uncommitted work is never removed, whenever the
   work was done. *)
UncommittedKept == [][\A t \in Trees : tree[t] = "dirty" => tree'[t] # "absent"]_vars
=============================================================================
