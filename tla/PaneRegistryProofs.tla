-------------------------- MODULE PaneRegistryProofs --------------------------
(***************************************************************************)
(* Three promises of the pane registry, for any ids, clients, requests and *)
(* worktrees: the disk ends at the registry, pinned sessions are never     *)
(* shared, and a checkout with changes is not removed.                     *)
(*                                                                         *)
(* For the first, the invariant follows the newest state of the registry:  *)
(* a verb is about to ask for a snapshot, a task has still to read, the    *)
(* one behind the gate has read the newest state, or it is on disk.  For   *)
(* the second, that a pinned child writes the session its argv names, that *)
(* no two children this daemon holds name the same one, and that neither   *)
(* does any record written, so that the children of the next daemon are    *)
(* apart again.                                                            *)
(***************************************************************************)
EXTENDS PaneRegistry, FiniteSetTheorems, TLAPS

Argv == Child \union {None, Last}
Session == Child \union {None}
Where == Trees \union {None}
Bit == {TRUE, FALSE}
ChildRec == [kind : Kind, arg : Argv, known : Session, learned : Bit,
             on : Session, tree : Where, alive : Bit]
Record == [kind : Kind, arg : Argv, session : Session, tree : Where]
Records == [Ids -> Record \union {None}]
Pc == {"idle", "fork", "register", "splitfork", "insert", "notify", "done"}
JobRec == [pc : Pc, id : Ids \union {None}, kind : Kind \union {None}, arg : Argv,
           tree : Where, c : Session]

(* What a verb has learned by the step it is at. *)
JobFits(j, forked) ==
    /\ j.pc \in {"fork", "splitfork"} => j.kind \in Kind /\ j.id \in Ids
    /\ j.pc \in {"register", "insert"} => j.c \in forked /\ j.id \in Ids
    /\ j.pc = "notify" => j.id \in Ids

Types ==
    /\ child \in Seq(ChildRec) /\ Len(child) <= MaxChildren
    /\ registry \in [Ids -> Forked \union {None}]
    /\ job \in [Clients -> JobRec]
    /\ \A w \in Clients : JobFits(job[w], Forked)
    /\ tasks \in 0..MaxTasks
    /\ gate \subseteq Records
    /\ db \in Records
    /\ mode \in {"up", "down", "boot"}
    /\ todo \subseteq {i \in Ids : db[i] # None}

(* What a daemon that is not up can hold. *)
DownInv ==
    /\ mode # "boot" => todo = {}
    /\ mode # "up" => /\ tasks = 0 /\ gate = {} /\ saved = FALSE
                      /\ \A w \in Clients : job[w].pc = "idle"
    /\ mode = "down" => \A i \in Ids : registry[i] = None
    /\ mode = "down" => \A c \in Forked : ~child[c].alive

(* One task is behind the gate, and it has not ended. *)
GateInv ==
    /\ \A r, s \in gate : r = s
    /\ gate # {} => tasks > 0

(* A snapshot of what is registered now is still to be read. *)
Pending ==
    \/ tasks > Cardinality(gate)
    \/ Learned # {}
    \/ \E w \in Clients : job[w].pc = "done"

NewestInv ==
    Pending \/ IF gate = {} THEN saved => db = Snapshot ELSE gate = {Snapshot}

-----------------------------------------------------------------------------

Pins(r) == r # None /\ r.kind = "pin"

(* A record of a pinned pane names its session in its argv. *)
PinnedRecord(r, n) == r.arg \in 1..n /\ r.session \in {None, r.arg}

ApartRecords(d, n) ==
    /\ \A i \in Ids : Pins(d[i]) => PinnedRecord(d[i], n)
    /\ \A i, j \in Ids : i # j /\ Pins(d[i]) /\ Pins(d[j]) => d[i].arg # d[j].arg

Pin(c) == child[c].kind = "pin"

(* A child that may still be registered, or may still write. *)
InHand(w, c) == job[w].pc \in {"register", "insert"} /\ job[w].c = c

Held(c) ==
    \/ child[c].alive
    \/ \E i \in Ids : registry[i] = c
    \/ \E w \in Clients : InHand(w, c)

ArgvInv ==
    \A c \in Forked : Pin(c) =>
      /\ child[c].arg \in 1..Len(child)
      /\ child[c].on = child[c].arg /\ child[c].known \in {None, child[c].arg}

(* A child is registered once, by the verb that forked it. *)
OnceInv ==
    /\ \A i, j \in Ids : registry[i] # None /\ registry[i] = registry[j] => i = j
    /\ \A w \in Clients, c \in Forked : InHand(w, c) =>
         /\ \A i \in Ids : registry[i] # c
         /\ \A v \in Clients : InHand(v, c) => v = w

HeldInv ==
    \A c, d \in Forked : c # d /\ Pin(c) /\ Pin(d) /\ Held(c) /\ Held(d) => child[c].arg # child[d].arg

RecordInv == \A d \in gate \union {db} : ApartRecords(d, Len(child))

(* In a boot, what is held was restored from a record that is done with. *)
BootInv ==
    mode = "boot" => \A c \in Forked : Pin(c) /\ Held(c) =>
      \E i \in Ids \ todo : Pins(db[i]) /\ db[i].arg = child[c].arg

PinInv == ArgvInv /\ OnceInv /\ HeldInv /\ RecordInv /\ BootInv

-----------------------------------------------------------------------------
(* Forking, and the shapes of the other changes to child. *)

(* A session a child opens is one of a child, or none; a pinned one is the one named. *)
LEMMA OpensFact ==
    ASSUME Types, NEW kind \in Kind, NEW arg \in Argv, NEW t \in Where, Fresh \in Child
    PROVE  /\ Opens(kind, arg, t) \subseteq Session
           /\ kind = "pin" /\ arg \in Child => Opens(kind, arg, t) = {arg}
<1>1. CASE kind = "plain"
  <2>1. Opens(kind, arg, t) = {None}
    BY <1>1 DEF Opens
  <2> QED BY <1>1, <2>1 DEF Session
<1>2. CASE kind # "plain" /\ arg \in Child
  <2>1. arg # Last
    BY <1>2, RegistryAssumption DEF Child
  <2>2. Opens(kind, arg, t) = {arg}
    BY <1>2, <2>1 DEF Opens
  <2> QED BY <1>2, <2>2 DEF Session
<1>3. CASE kind # "plain" /\ arg = Last
  <2> DEFINE before == {child[c].on : c \in {d \in Forked : child[d].kind = kind /\ child[d].tree = t}}
  <2>1. arg \notin Child
    BY <1>3, RegistryAssumption DEF Child
  <2>2. before \subseteq Session
    <3> SUFFICES ASSUME NEW c \in Forked PROVE child[c].on \in Session
      OBVIOUS
    <3>1. child[c] \in ChildRec
      BY DEF Types, Forked
    <3> QED BY <3>1 DEF ChildRec
  <2>3. Opens(kind, arg, t) = IF before = {} THEN {Fresh} ELSE before
    BY <1>3, <2>1 DEF Opens
  <2> QED BY <2>1, <2>2, <2>3 DEF Session
<1>4. CASE kind # "plain" /\ arg \notin Child /\ arg # Last
  BY <1>4 DEF Opens, Session
<1> QED BY <1>1, <1>2, <1>3, <1>4

LEMMA ForkFact ==
    ASSUME Types, NEW kind \in Kind, NEW arg \in Argv, NEW known \in Session, NEW t \in Where,
           Fork(kind, arg, known, t)
    PROVE  /\ Fresh \in Child /\ Fresh \notin Forked
           /\ child' \in Seq(ChildRec) /\ Len(child') = Len(child) + 1 /\ Len(child') <= MaxChildren
           /\ Forked' = Forked \union {Fresh}
           /\ \A c \in Forked : child'[c] = child[c]
           /\ child'[Fresh].kind = kind /\ child'[Fresh].arg = arg /\ child'[Fresh].known = known
           /\ child'[Fresh].learned = FALSE
           /\ kind = "pin" /\ arg \in Child => child'[Fresh].on = arg
<1>1. Fresh \in Child
  BY DEF Fork
<1>2. PICK s \in Opens(kind, arg, t) :
        child' = Append(child, [kind |-> kind, arg |-> arg, known |-> known, learned |-> FALSE,
                                on |-> s, tree |-> t, alive |-> TRUE])
  BY DEF Fork
<1> DEFINE new == [kind |-> kind, arg |-> arg, known |-> known, learned |-> FALSE,
                   on |-> s, tree |-> t, alive |-> TRUE]
<1>3. s \in Session /\ (kind = "pin" /\ arg \in Child => s = arg)
  BY <1>1, <1>2, OpensFact
<1>4. new \in ChildRec
  BY <1>3 DEF ChildRec, Bit
<1>5. new.kind = kind /\ new.arg = arg /\ new.known = known /\ new.learned = FALSE /\ new.on = s
  OBVIOUS
<1> HIDE DEF new
<1>6. child \in Seq(ChildRec) /\ child' = Append(child, new)
  BY <1>2 DEF Types, new
<1>7. /\ child' \in Seq(ChildRec) /\ Len(child') = Len(child) + 1
      /\ DOMAIN child' = 1..(Len(child) + 1) /\ DOMAIN child = 1..Len(child)
      /\ \A c \in 1..Len(child) : child'[c] = child[c]
      /\ child'[Len(child) + 1] = new /\ Len(child) \in Nat
  BY <1>4, <1>6
<1>8. Len(child') <= MaxChildren
  BY <1>1, <1>7, RegistryAssumption DEF Fresh, Child
<1> QED BY <1>1, <1>3, <1>5, <1>7, <1>8 DEF Forked, Fresh

(* A change of one field of one child. *)
LEMMA FieldFact ==
    ASSUME NEW s \in Seq(ChildRec), NEW c \in DOMAIN s, NEW r \in ChildRec
    PROVE  /\ [s EXCEPT ![c] = r] \in Seq(ChildRec)
           /\ Len([s EXCEPT ![c] = r]) = Len(s)
           /\ DOMAIN [s EXCEPT ![c] = r] = DOMAIN s
BY DEF Bit

LEMMA MapFact ==
    ASSUME NEW s \in Seq(ChildRec), NEW f, f = [c \in DOMAIN s |-> f[c]],
           \A c \in DOMAIN s : f[c] \in ChildRec
    PROVE  f \in Seq(ChildRec) /\ Len(f) = Len(s) /\ DOMAIN f = DOMAIN s
<1>1. Len(s) \in Nat /\ DOMAIN s = 1..Len(s)
  OBVIOUS
<1> QED BY <1>1

(* The same children, with the same argv on the same session. *)
Kept ==
    /\ child' \in Seq(ChildRec) /\ Len(child') = Len(child) /\ Forked' = Forked
    /\ \A c \in Forked : child'[c].kind = child[c].kind /\ child'[c].arg = child[c].arg
                           /\ child'[c].on = child[c].on /\ child'[c].tree = child[c].tree

LEMMA TakeFact ==
    ASSUME Types, Take
    PROVE  /\ Kept
           /\ \A c \in Forked : child'[c].known = child[c].known /\ child'[c].alive = child[c].alive
<1>1. CASE Learned = {}
  BY <1>1 DEF Take, Types, Kept, Forked
<1>2. CASE Learned # {}
  <2>1. PICK c \in Learned : child' = [child EXCEPT ![c].learned = FALSE]
    BY <1>2 DEF Take
  <2>2. c \in DOMAIN child /\ child[c] \in ChildRec /\ child \in Seq(ChildRec)
    BY DEF Learned, Forked, Types
  <2> DEFINE r == [child[c] EXCEPT !.learned = FALSE]
  <2>3. r \in ChildRec /\ r.kind = child[c].kind /\ r.arg = child[c].arg /\ r.on = child[c].on
          /\ r.tree = child[c].tree /\ r.known = child[c].known /\ r.alive = child[c].alive
    BY <2>2 DEF ChildRec, Bit
  <2>4. child' = [child EXCEPT ![c] = r]
    BY <2>1
  <2> HIDE DEF r
  <2> QED BY <2>2, <2>3, <2>4, FieldFact DEF Kept, Forked
<1> QED BY <1>1, <1>2

LEMMA CaptureFact ==
    ASSUME Types, NEW c \in Forked, Capture(c)
    PROVE  /\ Kept
           /\ child'[c].known = child[c].on /\ child'[c].learned = TRUE
           /\ \A d \in Forked : child'[d].alive = child[d].alive
           /\ \A d \in Forked \ {c} : child'[d] = child[d]
<1>1. c \in DOMAIN child /\ child[c] \in ChildRec /\ child \in Seq(ChildRec)
  BY DEF Forked, Types
<1> DEFINE r == [child[c] EXCEPT !.known = child[c].on, !.learned = TRUE]
<1>2. r \in ChildRec /\ r.kind = child[c].kind /\ r.arg = child[c].arg /\ r.on = child[c].on
        /\ r.tree = child[c].tree /\ r.alive = child[c].alive
        /\ r.known = child[c].on /\ r.learned = TRUE
  BY <1>1 DEF ChildRec, Bit
<1>3. child' = [child EXCEPT ![c] = r]
  BY <1>1 DEF Capture
<1> HIDE DEF r
<1> QED BY <1>1, <1>2, <1>3, FieldFact DEF Kept, Forked

LEMMA ExitFact ==
    ASSUME Types, NEW c \in Forked, Exit(c)
    PROVE  /\ Kept
           /\ \A d \in Forked : child'[d].known = child[d].known /\ child'[d].learned = child[d].learned
           /\ \A d \in Forked : child'[d].alive => child[d].alive
<1>1. c \in DOMAIN child /\ child[c] \in ChildRec /\ child \in Seq(ChildRec)
  BY DEF Forked, Types
<1> DEFINE r == [child[c] EXCEPT !.alive = FALSE]
<1>2. r \in ChildRec /\ r.kind = child[c].kind /\ r.arg = child[c].arg /\ r.on = child[c].on
        /\ r.tree = child[c].tree /\ r.known = child[c].known /\ r.learned = child[c].learned
        /\ r.alive = FALSE
  BY <1>1 DEF ChildRec, Bit
<1>3. child' = [child EXCEPT ![c] = r]
  BY <1>1 DEF Exit
<1> HIDE DEF r
<1> QED BY <1>1, <1>2, <1>3, FieldFact DEF Kept, Forked

LEMMA EndedFact ==
    ASSUME Types, Ended
    PROVE  /\ Kept
           /\ \A c \in Forked : child'[c].known = child[c].known /\ child'[c].alive = FALSE
<1> DEFINE dead(c) == [child[c] EXCEPT !.alive = FALSE, !.learned = FALSE]
<1>1. child \in Seq(ChildRec) /\ Forked = DOMAIN child /\ \A c \in Forked : child[c] \in ChildRec
  BY DEF Types, Forked
<1>2. \A c \in Forked : dead(c) \in ChildRec /\ dead(c).kind = child[c].kind /\ dead(c).arg = child[c].arg
        /\ dead(c).on = child[c].on /\ dead(c).tree = child[c].tree
        /\ dead(c).known = child[c].known /\ dead(c).alive = FALSE
  BY <1>1 DEF ChildRec, Bit
<1>3. child' = [c \in DOMAIN child |-> dead(c)]
  BY DEF Ended, Forked
<1> HIDE DEF dead
<1>4. /\ child' = [c \in DOMAIN child |-> child'[c]]
      /\ \A c \in DOMAIN child : child'[c] = dead(c)
  BY <1>3
<1>5. child' \in Seq(ChildRec) /\ Len(child') = Len(child) /\ DOMAIN child' = DOMAIN child
  BY <1>1, <1>2, <1>4, MapFact
<1> QED BY <1>1, <1>2, <1>4, <1>5 DEF Kept, Forked

(* What a snapshot writes is typed. *)
LEMMA SnapshotFact ==
    ASSUME Types
    PROVE  /\ Snapshot \in Records
           /\ \A i \in Ids : registry[i] # None => Snapshot[i] = Entry(registry[i]) /\ registry[i] \in Forked
           /\ \A i \in Ids : registry[i] = None => Snapshot[i] = None
<1>1. \A c \in Forked : Entry(c) \in Record
  <2> SUFFICES ASSUME NEW c \in Forked PROVE Entry(c) \in Record
    OBVIOUS
  <2>1. child[c] \in ChildRec
    BY DEF Types, Forked
  <2> QED BY <2>1 DEF Entry, Record, ChildRec
<1>2. \A i \in Ids : registry[i] # None => registry[i] \in Forked
  BY DEF Types
<1> QED BY <1>1, <1>2 DEF Snapshot, Records

-----------------------------------------------------------------------------
(* Types. *)

LEMMA JobFact ==
    ASSUME NEW f \in [Clients -> JobRec], NEW F, NEW G, F \subseteq G,
           \A v \in Clients : JobFits(f[v], F),
           NEW w \in Clients, NEW j \in JobRec, JobFits(j, G)
    PROVE  /\ [f EXCEPT ![w] = j] \in [Clients -> JobRec]
           /\ \A v \in Clients : JobFits([f EXCEPT ![w] = j][v], G)
<1>1. \A v \in Clients : JobFits(f[v], G)
  BY DEF JobFits
<1> QED BY <1>1

LEMMA JobConstants ==
    /\ Idle \in JobRec /\ Done \in JobRec /\ Idle.pc = "idle" /\ Done.pc = "done"
    /\ \A F : JobFits(Idle, F) /\ JobFits(Done, F)
BY DEF Idle, Done, JobRec, JobFits, Pc, Argv, Session, Where

(* A verb that is over, or that has an answer to give. *)
LEMMA JobEnds ==
    ASSUME Types, NEW w \in Clients, Forked' = Forked,
           job' = [job EXCEPT ![w] = Idle] \/ job' = [job EXCEPT ![w] = Done]
    PROVE  job' \in [Clients -> JobRec] /\ \A v \in Clients : JobFits(job'[v], Forked')
<1>1. job \in [Clients -> JobRec] /\ \A v \in Clients : JobFits(job[v], Forked)
  BY DEF Types
<1> QED BY <1>1, JobConstants, JobFact

LEMMA TypesInit == Init => Types /\ DownInv /\ GateInv
<1> SUFFICES ASSUME Init PROVE Types /\ DownInv /\ GateInv
  OBVIOUS
<1>1. child = <<>> /\ child \in Seq(ChildRec) /\ Len(child) = 0 /\ Forked = {}
  BY DEF Init, Forked
<1>2. job \in [Clients -> JobRec] /\ \A w \in Clients : JobFits(job[w], Forked)
  BY JobConstants DEF Init
<1>3. Types
  BY <1>1, <1>2, RegistryAssumption DEF Init, Types, Records
<1> QED BY <1>3 DEF Init, DownInv, GateInv

LEMMA VerbTypes ==
    ASSUME Types, NEW w \in Clients, Verb(w)
    PROVE  Types'
<1> USE DEF Types
<1>0. job \in [Clients -> JobRec] /\ \A v \in Clients : JobFits(job[v], Forked)
  OBVIOUS
<1>1. ASSUME NEW r \in Requests, Spawn(w, r) PROVE Types'
  <2>1. r \in [id : Ids, kind : Kind, tree : Trees \union {None}]
    BY RegistryAssumption
  <2> DEFINE j == [Idle EXCEPT !.pc = "fork", !.id = r.id, !.kind = r.kind, !.tree = r.tree]
  <2>2. j \in JobRec /\ JobFits(j, Forked)
    BY <2>1 DEF Idle, JobRec, JobFits, Pc, Argv, Session, Where
  <2>3. job' = [job EXCEPT ![w] = j] /\ UNCHANGED <<child, registry, cleanup, tasks, gate, db, mode, todo, saved, ends>>
    BY <1>1 DEF Spawn
  <2> HIDE DEF j
  <2>4. job' \in [Clients -> JobRec] /\ \A v \in Clients : JobFits(job'[v], Forked)
    BY <1>0, <2>2, <2>3, JobFact
  <2> QED BY <2>3, <2>4 DEF Forked
<1>2. CASE SpawnFork(w)
  <2> DEFINE arg == Repin(job[w].kind, None)
  <2>0. job[w] \in JobRec /\ job[w].kind \in Kind /\ job[w].id \in Ids /\ job[w].tree \in Where
    BY <1>0, <1>2 DEF SpawnFork, JobFits, JobRec
  <2>1. Fork(job[w].kind, arg, Pinned(job[w].kind, arg), job[w].tree) /\ Fresh \in Child
    BY <1>2 DEF SpawnFork, Fork
  <2>2. arg \in Argv /\ Pinned(job[w].kind, arg) \in Session
    BY <2>1 DEF Repin, Pinned, Argv, Session
  <2> DEFINE j == [job[w] EXCEPT !.pc = "register", !.c = Fresh]
  <2>3. job' = [job EXCEPT ![w] = j] /\ UNCHANGED <<registry, tasks, gate, db, mode, todo>>
    BY <1>0, <1>2 DEF SpawnFork
  <2>4. /\ child' \in Seq(ChildRec) /\ Len(child') <= MaxChildren /\ Forked' = Forked \union {Fresh}
    BY <2>0, <2>1, <2>2, ForkFact
  <2>5. j \in JobRec /\ JobFits(j, Forked')
    BY <2>0, <2>1, <2>4 DEF JobRec, JobFits, Pc, Session
  <2> HIDE DEF j
  <2>6. job' \in [Clients -> JobRec] /\ \A v \in Clients : JobFits(job'[v], Forked')
    BY <1>0, <2>3, <2>4, <2>5, JobFact
  <2> QED BY <2>3, <2>4, <2>6
<1>3. CASE SpawnRegister(w)
  <2>1. job[w].c \in Forked /\ job[w].id \in Ids
    BY <1>0, <1>3 DEF SpawnRegister, JobFits
  <2>2. /\ UNCHANGED <<child, tasks, gate, db, mode, todo>> /\ Forked' = Forked
        /\ registry' \in [Ids -> Forked \union {None}]
    BY <1>3, <2>1 DEF SpawnRegister, Forked
  <2>3. job' \in [Clients -> JobRec] /\ \A v \in Clients : JobFits(job'[v], Forked')
    BY <1>3, <2>2, JobEnds DEF SpawnRegister
  <2> QED BY <2>2, <2>3
<1>4. CASE SpawnRefused(w) \/ ForkFails(w) \/ Refused(w)
  <2>1. UNCHANGED <<child, registry, tasks, gate, db, mode, todo>> /\ Forked' = Forked
    BY <1>4 DEF SpawnRefused, ForkFails, Refused, Forked
  <2>2. job' \in [Clients -> JobRec] /\ \A v \in Clients : JobFits(job'[v], Forked')
    BY <1>4, <2>1, JobEnds DEF SpawnRefused, ForkFails, Refused
  <2> QED BY <2>1, <2>2
<1>5. ASSUME NEW i \in Ids, NEW new \in Ids, Split(w, i, new) PROVE Types'
  <2>1. registry[i] \in Forked
    BY <1>5 DEF Split
  <2>2. child[registry[i]] \in ChildRec
    BY <2>1 DEF Forked
  <2> DEFINE j == [Idle EXCEPT !.pc = "splitfork", !.id = new,
                     !.kind = child[registry[i]].kind, !.arg = child[registry[i]].arg]
  <2>3. job' = [job EXCEPT ![w] = j] /\ UNCHANGED <<child, registry, tasks, gate, db, mode, todo>>
    BY <1>5 DEF Split
  <2>4. j \in JobRec /\ JobFits(j, Forked)
    BY <2>2 DEF Idle, JobRec, JobFits, Pc, Argv, Session, Where, ChildRec
  <2> HIDE DEF j
  <2>5. job' \in [Clients -> JobRec] /\ \A v \in Clients : JobFits(job'[v], Forked)
    BY <1>0, <2>3, <2>4, JobFact
  <2> QED BY <2>3, <2>5 DEF Forked
<1>6. CASE SplitFork(w)
  <2> DEFINE arg == Repin(job[w].kind, job[w].arg)
  <2>0. job[w] \in JobRec /\ job[w].kind \in Kind /\ job[w].id \in Ids /\ job[w].arg \in Argv
    BY <1>0, <1>6 DEF SplitFork, JobFits, JobRec
  <2>1. Fork(job[w].kind, arg, Pinned(job[w].kind, arg), None) /\ Fresh \in Child
    BY <1>6 DEF SplitFork, Fork
  <2>2. arg \in Argv /\ Pinned(job[w].kind, arg) \in Session /\ None \in Where
    BY <2>0, <2>1 DEF Repin, Pinned, Argv, Session, Where
  <2> DEFINE j == [job[w] EXCEPT !.pc = "insert", !.c = Fresh]
  <2>3. job' = [job EXCEPT ![w] = j] /\ UNCHANGED <<registry, tasks, gate, db, mode, todo>>
    BY <1>0, <1>6 DEF SplitFork
  <2>4. /\ child' \in Seq(ChildRec) /\ Len(child') <= MaxChildren /\ Forked' = Forked \union {Fresh}
    BY <2>0, <2>1, <2>2, ForkFact
  <2>5. j \in JobRec /\ JobFits(j, Forked')
    BY <2>0, <2>1, <2>4 DEF JobRec, JobFits, Pc, Session
  <2> HIDE DEF j
  <2>6. job' \in [Clients -> JobRec] /\ \A v \in Clients : JobFits(job'[v], Forked')
    BY <1>0, <2>3, <2>4, <2>5, JobFact
  <2> QED BY <2>3, <2>4, <2>6
<1>7. CASE SplitInsert(w)
  <2>1. job[w].c \in Forked /\ job[w].id \in Ids
    BY <1>0, <1>7 DEF SplitInsert, JobFits
  <2>2. /\ UNCHANGED <<child, tasks, gate, db, mode, todo>> /\ Forked' = Forked
        /\ registry' \in [Ids -> Forked \union {None}]
    BY <1>7, <2>1 DEF SplitInsert, Forked
  <2>3. job' \in [Clients -> JobRec] /\ \A v \in Clients : JobFits(job'[v], Forked')
    BY <1>7, <2>2, JobEnds DEF SplitInsert
  <2> QED BY <2>2, <2>3
<1>8. ASSUME NEW i \in Ids, Kill(w, i) PROVE Types'
  <2>1. /\ UNCHANGED <<child, tasks, gate, db, mode, todo>> /\ Forked' = Forked
        /\ registry' \in [Ids -> Forked \union {None}]
    BY <1>8 DEF Kill, Removed, Forked
  <2>2. job' \in [Clients -> JobRec] /\ \A v \in Clients : JobFits(job'[v], Forked')
    BY <1>8, <2>1, JobEnds DEF Kill
  <2> QED BY <2>1, <2>2
<1>9. ASSUME NEW i \in Ids, NotifyCheck(w, i) PROVE Types'
  <2> DEFINE j == [Idle EXCEPT !.pc = "notify", !.id = i]
  <2>1. job' = [job EXCEPT ![w] = j] /\ UNCHANGED <<child, registry, tasks, gate, db, mode, todo>>
    BY <1>9 DEF NotifyCheck
  <2>2. j \in JobRec /\ JobFits(j, Forked)
    BY DEF Idle, JobRec, JobFits, Pc, Argv, Session, Where
  <2> HIDE DEF j
  <2>3. job' \in [Clients -> JobRec] /\ \A v \in Clients : JobFits(job'[v], Forked)
    BY <1>0, <2>1, <2>2, JobFact
  <2> QED BY <2>1, <2>3 DEF Forked
<1>10. CASE NotifyKill(w)
  <2>1. /\ UNCHANGED <<child, gate, db, mode, todo>> /\ Forked' = Forked
        /\ registry' \in [Ids -> Forked \union {None}] /\ tasks' \in 0..MaxTasks
    BY <1>10, RegistryAssumption DEF NotifyKill, Removed, Forked
  <2>2. job' \in [Clients -> JobRec] /\ \A v \in Clients : JobFits(job'[v], Forked')
    BY <1>10, <2>1, JobEnds DEF NotifyKill
  <2> QED BY <2>1, <2>2
<1>11. CASE Dispatched(w)
  <2>1. Kept /\ UNCHANGED <<registry, gate, db, mode, todo>> /\ tasks' \in 0..MaxTasks
    BY <1>11, TakeFact, RegistryAssumption DEF Dispatched
  <2>2. job' \in [Clients -> JobRec] /\ \A v \in Clients : JobFits(job'[v], Forked')
    BY <1>11, <2>1, JobEnds DEF Dispatched, Kept
  <2> QED BY <2>1, <2>2 DEF Kept
<1> QED
  BY <1>1, <1>2, <1>3, <1>4, <1>5, <1>6, <1>7, <1>8, <1>9, <1>10, <1>11 DEF Verb

(* What no verb changes. *)
LEMMA VerbFact ==
    ASSUME Types, NEW w \in Clients, Verb(w)
    PROVE  mode = "up" /\ UNCHANGED <<mode, todo, gate, db, saved>> /\ tasks' >= tasks
<1>1. tasks \in Nat
  BY RegistryAssumption DEF Types
<1> DEFINE Same == mode = "up" /\ UNCHANGED <<mode, todo, gate, db, saved>> /\ tasks' >= tasks
<1>2. ASSUME NEW r \in Requests, Spawn(w, r) PROVE Same
  BY <1>1, <1>2 DEF Spawn, Begin, Up
<1>3. CASE SpawnFork(w) \/ SplitFork(w)
  BY <1>1, <1>3 DEF SpawnFork, SplitFork, Up
<1>4. CASE SpawnRegister(w) \/ SplitInsert(w)
  BY <1>1, <1>4 DEF SpawnRegister, SplitInsert, Up
<1>5. CASE SpawnRefused(w) \/ ForkFails(w) \/ Refused(w)
  BY <1>1, <1>5 DEF SpawnRefused, ForkFails, Refused, Begin, Up
<1>6. ASSUME NEW i \in Ids, Kill(w, i) \/ NotifyCheck(w, i) PROVE Same
  BY <1>1, <1>6 DEF Kill, NotifyCheck, Begin, Up
<1>8. ASSUME NEW i \in Ids, NEW new \in Ids, Split(w, i, new) PROVE Same
  BY <1>1, <1>8 DEF Split, Begin, Up
<1>7. CASE NotifyKill(w) \/ Dispatched(w)
  BY <1>1, <1>7 DEF NotifyKill, Dispatched, Up
<1> QED
  BY <1>2, <1>3, <1>4, <1>5, <1>6, <1>7, <1>8 DEF Verb

(* What a restored pane is started with. *)
LEMMA RestoreFact ==
    ASSUME Types, NEW i \in todo, RestoreResumed(i) \/ RestorePlain(i)
    PROVE  /\ i \in Ids /\ db[i] \in Record /\ db[i] # None /\ Restored(i)
           /\ \E arg \in Argv, known \in Session :
                /\ Fork(db[i].kind, arg, known, db[i].tree)
                /\ \/ arg = db[i].arg /\ known = None
                   \/ Resumable(db[i]) /\ arg = ResumeArg(db[i]) /\ known = Carried(db[i])
<1>1. i \in Ids /\ db[i] # None /\ db[i] \in Record
  BY DEF Types, Records
<1>2. Carried(db[i]) \in Session /\ ResumeArg(db[i]) \in Argv /\ db[i].arg \in Argv /\ None \in Session
  BY <1>1 DEF Carried, ResumeArg, Record, Session, Argv
<1>3. CASE RestoreResumed(i)
  BY <1>1, <1>2, <1>3 DEF RestoreResumed
<1>4. CASE RestorePlain(i)
  BY <1>1, <1>2, <1>4 DEF RestorePlain
<1> QED BY <1>3, <1>4

LEMMA GateCount ==
    ASSUME \A r, s \in gate : r = s
    PROVE  /\ gate = {} => Cardinality(gate) = 0
           /\ gate # {} => Cardinality(gate) = 1
<1>1. CASE gate = {}
  BY <1>1, FS_EmptySet
<1>2. CASE gate # {}
  <2>1. PICK r : r \in gate
    BY <1>2
  <2>2. gate = {r}
    BY <2>1
  <2> QED BY <2>2, FS_Singleton
<1> QED BY <1>1, <1>2

Safe == Types /\ DownInv /\ GateInv

(* Boots, ends, snapshots and children keep the types and the bounds of the gate. *)
LEMMA SafeStep == Safe /\ [Next]_vars => Safe'
<1> SUFFICES ASSUME Safe, [Next]_vars PROVE Safe'
  OBVIOUS
<1> USE DEF Safe
<1>0. /\ job \in [Clients -> JobRec] /\ \A v \in Clients : JobFits(job[v], Forked)
      /\ tasks \in Nat /\ tasks <= MaxTasks /\ MaxTasks \in Nat /\ child \in Seq(ChildRec)
  BY RegistryAssumption DEF Types
<1>1. ASSUME NEW w \in Clients, Verb(w) PROVE Safe'
  <2>1. Types' /\ mode = "up" /\ UNCHANGED <<mode, todo, gate, db, saved>> /\ tasks' >= tasks
    BY <1>1, VerbTypes, VerbFact
  <2>2. tasks' \in Nat
    BY <2>1, RegistryAssumption DEF Types
  <2> QED BY <1>0, <2>1, <2>2 DEF DownInv, GateInv
<1>2. CASE DispatchedOther
  <2>1. Kept /\ Up /\ UNCHANGED <<registry, job, gate, db, mode, todo, saved>> /\ tasks' = tasks + 1 /\ tasks < MaxTasks
    BY <1>2, TakeFact DEF DispatchedOther
  <2>2. Types'
    BY <1>0, <2>1 DEF Kept, Types
  <2> QED BY <1>0, <2>1, <2>2 DEF DownInv, GateInv, Up
<1>3. CASE SnapshotRead
  <2>1. Snapshot \in Records
    BY SnapshotFact
  <2>2. /\ Up /\ gate = {} /\ gate' = {Snapshot} /\ tasks > Cardinality(gate)
        /\ UNCHANGED <<child, registry, job, tasks, db, mode, todo, saved>>
    BY <1>3 DEF SnapshotRead, GateFree
  <2>3. Types'
    BY <2>1, <2>2 DEF Types, Forked
  <2>4. GateInv'
    BY <1>0, <2>2, GateCount DEF GateInv
  <2> QED BY <2>2, <2>3, <2>4 DEF DownInv, Up
<1>4. CASE SnapshotWrite
  <2>1. PICK read \in gate : db' = read /\ gate' = gate \ {read}
    BY <1>4 DEF SnapshotWrite
  <2>2. /\ Up /\ tasks' = tasks - 1 /\ saved' = TRUE
        /\ UNCHANGED <<child, registry, job, mode, todo>>
    BY <1>4 DEF SnapshotWrite
  <2>3. gate' = {} /\ tasks > 0
    BY <1>0, <2>1 DEF GateInv
  <2>4. todo = {}
    BY <2>2 DEF DownInv, Up
  <2>5. Types'
    BY <1>0, <2>1, <2>2, <2>3, <2>4 DEF Types, Forked
  <2> QED BY <2>2, <2>3, <2>4, <2>5 DEF DownInv, GateInv, Up
<1>5. ASSUME NEW c \in Forked, Capture(c) PROVE Safe'
  <2>1. Kept /\ Up /\ UNCHANGED <<registry, job, tasks, gate, db, mode, todo, saved>>
    BY <1>5, CaptureFact DEF Capture
  <2>2. Types'
    BY <1>0, <2>1 DEF Kept, Types
  <2> QED BY <1>0, <2>1, <2>2 DEF DownInv, GateInv, Up
<1>6. ASSUME NEW c \in Forked, Exit(c) PROVE Safe'
  <2>1. Kept /\ UNCHANGED <<registry, job, tasks, gate, db, mode, todo, saved>>
          /\ \A d \in Forked : child'[d].alive => child[d].alive
    BY <1>6, ExitFact DEF Exit
  <2>2. Types'
    BY <1>0, <2>1 DEF Kept, Types
  <2> QED BY <1>0, <2>1, <2>2 DEF DownInv, GateInv, Kept
<1>7. CASE \/ \E c \in Forked : Work(c)
           \/ \E k \in cleanup : CleanupWaited(k) \/ CleanupStatus(k) \/ CleanupRemove(k)
           \/ UNCHANGED vars
  <2>1. UNCHANGED <<child, registry, job, tasks, gate, db, mode, todo, saved>>
    BY <1>7 DEF Work, CleanupWaited, CleanupStatus, CleanupRemove, vars
  <2> QED BY <2>1 DEF Types, DownInv, GateInv, Forked
<1>8. CASE Sigterm \/ Crash
  <2>1. Kept /\ \A c \in Forked : child'[c].alive = FALSE
    BY <1>8, EndedFact DEF Sigterm, Crash
  <2>2. /\ mode' = "down" /\ todo' = {} /\ tasks' = 0 /\ gate' = {} /\ saved' = FALSE
        /\ registry' = [i \in Ids |-> None] /\ job' = [w \in Clients |-> Idle]
    BY <1>8 DEF Sigterm, Crash, Ended
  <2>3. db' \in Records
    BY <1>8, SnapshotFact DEF Sigterm, Crash, Types
  <2>4. job' \in [Clients -> JobRec] /\ \A v \in Clients : JobFits(job'[v], Forked') /\ job'[v].pc = "idle"
    BY <2>2, JobConstants
  <2>5. Types'
    BY <1>0, <2>1, <2>2, <2>3, <2>4 DEF Kept, Types
  <2> QED BY <2>1, <2>2, <2>4, <2>5 DEF DownInv, GateInv, Kept
<1>9. CASE Boot
  <2>1. /\ mode = "down" /\ mode' = "boot" /\ todo' = {i \in Ids : db[i] # None}
        /\ UNCHANGED <<child, registry, job, tasks, gate, db, saved>>
    BY <1>9 DEF Boot
  <2>2. Types'
    BY <2>1 DEF Types, Forked
  <2> QED BY <2>1, <2>2 DEF DownInv, GateInv
<1>10. CASE Serve
  <2>1. /\ mode = "boot" /\ todo = {} /\ mode' = "up"
        /\ UNCHANGED <<child, registry, job, tasks, gate, db, todo, saved>>
    BY <1>10 DEF Serve
  <2> QED BY <2>1 DEF Types, DownInv, GateInv, Forked
<1>11. ASSUME NEW i \in todo, RestoreResumed(i) \/ RestorePlain(i) PROVE Safe'
  <2>1. /\ i \in Ids /\ db[i] \in Record /\ Restored(i)
        /\ \E arg \in Argv, known \in Session : Fork(db[i].kind, arg, known, db[i].tree)
    BY <1>11, RestoreFact
  <2>2. db[i].kind \in Kind /\ db[i].tree \in Where
    BY <2>1 DEF Record
  <2>3. child' \in Seq(ChildRec) /\ Len(child') <= MaxChildren /\ Forked' = Forked \union {Fresh}
    BY <2>1, <2>2, ForkFact
  <2>4. /\ registry' = [registry EXCEPT ![i] = Fresh] /\ todo' = todo \ {i}
        /\ UNCHANGED <<job, tasks, gate, db, mode, saved>>
    BY <2>1 DEF Restored
  <2>5. \A v \in Clients : JobFits(job[v], Forked')
    BY <1>0, <2>3 DEF JobFits
  <2>6. Types'
    BY <1>0, <2>3, <2>4, <2>5 DEF Types
  <2>7. mode = "boot"
    BY DEF DownInv
  <2> QED BY <2>4, <2>6, <2>7 DEF DownInv, GateInv
<1>12. ASSUME NEW i \in todo, RestoreSkipped(i) PROVE Safe'
  <2>1. /\ todo' = todo \ {i}
        /\ UNCHANGED <<child, registry, job, tasks, gate, db, mode, saved>>
    BY <1>12 DEF RestoreSkipped
  <2> QED BY <2>1 DEF Types, DownInv, GateInv, Forked
<1> QED
  BY <1>1, <1>2, <1>3, <1>4, <1>5, <1>6, <1>7, <1>8, <1>9, <1>10, <1>11, <1>12 DEF Next

-----------------------------------------------------------------------------
(* The disk. *)

(* A step that registers nothing and teaches no child its session. *)
LEMMA NeutralSnapshot ==
    ASSUME Types, Types', registry' = registry, Forked \subseteq Forked',
           \A c \in Forked : /\ child'[c].kind = child[c].kind /\ child'[c].arg = child[c].arg
                             /\ child'[c].known = child[c].known /\ child'[c].tree = child[c].tree
    PROVE  Snapshot' = Snapshot
<1>1. \A i \in Ids : registry[i] # None => registry[i] \in Forked
  BY DEF Types
<1> QED BY <1>1 DEF Snapshot, Entry

LEMMA NeutralLearned ==
    ASSUME Types, registry' = registry, Forked \subseteq Forked',
           \A c \in Forked : child'[c].learned = child[c].learned
    PROVE  Learned # {} => Learned' # {}
BY DEF Learned

LEMMA NeutralStep ==
    ASSUME Types, Types', registry' = registry, Forked \subseteq Forked',
           \A c \in Forked : /\ child'[c].kind = child[c].kind /\ child'[c].arg = child[c].arg
                             /\ child'[c].known = child[c].known /\ child'[c].tree = child[c].tree
                             /\ child'[c].learned = child[c].learned,
           UNCHANGED <<tasks, gate, db, saved>>,
           \A w \in Clients : job[w].pc = "done" => job'[w].pc = "done",
           NewestInv
    PROVE  NewestInv'
<1>1. Snapshot' = Snapshot
  BY NeutralSnapshot
<1>2. Learned # {} => Learned' # {}
  BY NeutralLearned
<1>3. Pending => Pending'
  BY <1>2 DEF Pending
<1> QED BY <1>1, <1>3 DEF NewestInv

LEMMA VerbNewest ==
    ASSUME Safe, Types', NewestInv, NEW w \in Clients, Verb(w)
    PROVE  NewestInv'
<1> USE DEF Safe
<1>0. job \in [Clients -> JobRec] /\ job[w] \in JobRec /\ tasks \in Nat
  BY RegistryAssumption DEF Types
<1>1. ASSUME job' = [job EXCEPT ![w] = Done] PROVE NewestInv'
  BY <1>0, <1>1, JobConstants DEF NewestInv, Pending
<1>2. ASSUME UNCHANGED <<child, registry, tasks, gate, db, saved>>, job[w].pc # "done",
             \A v \in Clients \ {w} : job'[v] = job[v]
      PROVE  NewestInv'
  BY <1>2, NeutralStep DEF Forked
<1>3. ASSUME tasks' = tasks + 1, gate' = gate PROVE NewestInv'
  <2>1. tasks >= Cardinality(gate) /\ Cardinality(gate) \in Nat
    BY <1>0, GateCount DEF GateInv
  <2> QED BY <1>0, <1>3, <2>1 DEF NewestInv, Pending
<1>4. ASSUME NEW r \in Requests, Spawn(w, r) PROVE NewestInv'
  BY <1>0, <1>2, <1>4 DEF Spawn, Begin
<1>5. ASSUME NEW i \in Ids, NotifyCheck(w, i) PROVE NewestInv'
  BY <1>0, <1>2, <1>5 DEF NotifyCheck, Begin
<1>6. ASSUME NEW i \in Ids, NEW new \in Ids, Split(w, i, new) PROVE NewestInv'
  BY <1>0, <1>2, <1>6 DEF Split, Begin
<1>7. CASE SpawnFork(w) \/ SplitFork(w)
  <2>1. PICK kind \in Kind, arg \in Argv, known \in Session, t \in Where : Fork(kind, arg, known, t)
    <3>1. job[w].kind \in Kind /\ job[w].arg \in Argv /\ job[w].tree \in Where /\ None \in Where /\ None \in Argv
      BY <1>0, <1>7 DEF SpawnFork, SplitFork, Types, JobFits, JobRec, Argv, Where
    <3>2. Fresh \in Child
      BY <1>7 DEF SpawnFork, SplitFork, Fork
    <3>3. \A arg \in Argv : Repin(job[w].kind, arg) \in Argv
                              /\ Pinned(job[w].kind, Repin(job[w].kind, arg)) \in Session
      BY <3>2 DEF Repin, Pinned, Argv, Session
    <3> QED BY <1>7, <3>1, <3>3 DEF SpawnFork, SplitFork
  <2>2. Forked' = Forked \union {Fresh} /\ \A c \in Forked : child'[c] = child[c]
    BY <2>1, ForkFact
  <2>3. UNCHANGED <<registry, tasks, gate, db, saved>>
    BY <1>7 DEF SpawnFork, SplitFork
  <2>4. job[w].pc # "done" /\ \A v \in Clients \ {w} : job'[v] = job[v]
    BY <1>0, <1>7 DEF SpawnFork, SplitFork
  <2> QED BY <2>2, <2>3, <2>4, NeutralStep
<1>8. CASE SpawnRegister(w) \/ SplitInsert(w) \/ SpawnRefused(w) \/ ForkFails(w) \/ Refused(w)
  BY <1>1, <1>8 DEF SpawnRegister, SplitInsert, SpawnRefused, ForkFails, Refused
<1>9. ASSUME NEW i \in Ids, Kill(w, i) PROVE NewestInv'
  BY <1>1, <1>9 DEF Kill
<1>10. CASE NotifyKill(w)
  <2>1. CASE registry[job[w].id] = None
    BY <1>0, <1>2, <1>10, <2>1 DEF NotifyKill
  <2>2. CASE registry[job[w].id] # None
    BY <1>3, <1>10, <2>2 DEF NotifyKill
  <2> QED BY <2>1, <2>2
<1>11. CASE Dispatched(w)
  BY <1>3, <1>11 DEF Dispatched
<1> QED
  BY <1>4, <1>5, <1>6, <1>7, <1>8, <1>9, <1>10, <1>11 DEF Verb

LEMMA NewestStep == Safe /\ NewestInv /\ [Next]_vars => NewestInv'
<1> SUFFICES ASSUME Safe, NewestInv, [Next]_vars PROVE NewestInv'
  OBVIOUS
<1> USE DEF Safe
<1>0. Types' /\ DownInv' /\ GateInv' /\ tasks \in Nat
  BY SafeStep, RegistryAssumption DEF Types
<1>1. ASSUME NEW w \in Clients, Verb(w) PROVE NewestInv'
  BY <1>0, <1>1, VerbNewest
<1>2. CASE DispatchedOther
  <2>1. tasks' = tasks + 1 /\ gate' = gate
    BY <1>2 DEF DispatchedOther
  <2>2. tasks >= Cardinality(gate) /\ Cardinality(gate) \in Nat
    BY <1>0, GateCount DEF GateInv
  <2> QED BY <1>0, <2>1, <2>2 DEF NewestInv, Pending
<1>3. CASE SnapshotRead
  <2>1. gate = {} /\ gate' = {Snapshot} /\ UNCHANGED <<child, registry>>
    BY <1>3 DEF SnapshotRead, GateFree
  <2>2. Snapshot' = Snapshot
    BY <2>1 DEF Snapshot, Entry
  <2> QED BY <2>1, <2>2 DEF NewestInv
<1>4. CASE SnapshotWrite
  <2>1. PICK read \in gate : db' = read /\ gate' = gate \ {read}
    BY <1>4 DEF SnapshotWrite
  <2>2. tasks' = tasks - 1 /\ UNCHANGED <<child, registry, job>>
    BY <1>4 DEF SnapshotWrite
  <2>3. gate' = {} /\ Cardinality(gate) = 1 /\ Cardinality(gate') = 0 /\ tasks > 0
    BY <1>0, <2>1, GateCount, FS_EmptySet DEF GateInv
  <2>4. Snapshot' = Snapshot /\ Learned' = Learned
    BY <2>2 DEF Snapshot, Entry, Learned, Forked
  <2>5. Pending => Pending'
    BY <1>0, <2>2, <2>3, <2>4 DEF Pending
  <2> QED BY <2>1, <2>3, <2>4, <2>5 DEF NewestInv
<1>5. ASSUME NEW c \in Forked, Capture(c) PROVE NewestInv'
  <2>1. Forked' = Forked /\ child'[c].learned = TRUE /\ registry' = registry
    BY <1>5, CaptureFact DEF Kept, Capture
  <2>2. c \in Learned'
    BY <1>5, <2>1 DEF Learned, Capture
  <2> QED BY <2>2 DEF NewestInv, Pending
<1>6. ASSUME NEW c \in Forked, Exit(c) PROVE NewestInv'
  <2>1. UNCHANGED <<registry, tasks, gate, db, saved, job>>
    BY <1>6 DEF Exit
  <2> QED BY <1>0, <1>6, <2>1, ExitFact, NeutralStep DEF Kept
<1>7. CASE \/ \E c \in Forked : Work(c)
           \/ \E k \in cleanup : CleanupWaited(k) \/ CleanupStatus(k) \/ CleanupRemove(k)
           \/ UNCHANGED vars
  <2>1. UNCHANGED <<child, registry, job, tasks, gate, db, mode, todo, saved>>
    BY <1>7 DEF Work, CleanupWaited, CleanupStatus, CleanupRemove, vars
  <2> QED BY <1>0, <2>1, NeutralStep DEF Forked
<1>8. CASE mode' # "up"
  BY <1>0, <1>8 DEF DownInv, NewestInv
<1>9. CASE Serve
  BY <1>9 DEF Serve, DownInv, NewestInv
<1>10. ASSUME Sigterm \/ Crash \/ Boot \/ \E i \in todo : RestoreResumed(i) \/ RestorePlain(i) \/ RestoreSkipped(i)
       PROVE  mode' # "up"
  <2>1. todo # {} => mode = "boot"
    BY DEF DownInv
  <2> QED BY <1>10, <2>1 DEF Sigterm, Crash, Ended, Boot, RestoreResumed, RestorePlain, RestoreSkipped, Restored
<1> QED
  BY <1>1, <1>2, <1>3, <1>4, <1>5, <1>6, <1>7, <1>8, <1>9, <1>10 DEF Next

(* "the DB always ends" at the newest state: however the detached snapshots of any
   number of clients interleave with their verbs, with sessions learned late and with
   restarts, once all is quiet the disk is the registry. *)
THEOREM DiskTheorem == Spec => []DiskConverges
<1>1. Init => Safe /\ NewestInv
  <2>1. Init => Safe
    BY TypesInit DEF Safe
  <2>2. Init => NewestInv
    BY DEF Init, NewestInv
  <2> QED BY <2>1, <2>2
<1>2. Safe /\ NewestInv /\ [Next]_vars => (Safe /\ NewestInv)'
  BY SafeStep, NewestStep
<1>3. Safe /\ NewestInv => DiskConverges
  <2> SUFFICES ASSUME Safe, NewestInv, saved, Quiet PROVE db = Snapshot
    BY DEF DiskConverges
  <2>1. gate = {}
    BY RegistryAssumption DEF Safe, GateInv, Quiet
  <2>2. ~Pending
    BY <2>1, FS_EmptySet DEF Pending, Quiet
  <2> QED BY <2>1, <2>2 DEF NewestInv
<1> QED BY <1>1, <1>2, <1>3, PTL DEF Spec

-----------------------------------------------------------------------------
(* Pinned sessions. *)

(* A child in the hands of a verb was forked. *)
LEMMA HandFact ==
    ASSUME Types
    PROVE  \A w \in Clients : \A c : InHand(w, c) => c \in Forked /\ job[w].id \in Ids
BY DEF Types, InHand, JobFits

LEMMA SnapshotApart ==
    ASSUME Types, ArgvInv, OnceInv, HeldInv
    PROVE  ApartRecords(Snapshot, Len(child))
<1>1. ASSUME NEW i \in Ids, Pins(Snapshot[i])
      PROVE  /\ registry[i] \in Forked /\ Pin(registry[i]) /\ Held(registry[i])
             /\ Snapshot[i].arg = child[registry[i]].arg /\ Snapshot[i].session = child[registry[i]].known
  <2>1. registry[i] # None /\ Snapshot[i] = Entry(registry[i]) /\ registry[i] \in Forked
    BY <1>1, SnapshotFact DEF Pins
  <2> QED BY <1>1, <2>1 DEF Pins, Entry, Pin, Held
<1>2. ASSUME NEW i \in Ids, Pins(Snapshot[i]) PROVE PinnedRecord(Snapshot[i], Len(child))
  BY <1>1, <1>2 DEF PinnedRecord, ArgvInv
<1>3. ASSUME NEW i \in Ids, NEW j \in Ids, i # j, Pins(Snapshot[i]), Pins(Snapshot[j])
      PROVE  Snapshot[i].arg # Snapshot[j].arg
  <2>1. registry[i] # None
    BY <1>3, SnapshotFact DEF Pins
  <2>2. registry[i] # registry[j]
    BY <1>3, <2>1 DEF OnceInv
  <2> QED BY <1>1, <1>3, <2>2 DEF HeldInv
<1> QED BY <1>2, <1>3 DEF ApartRecords

(* Nothing new is registered, in hand or alive. *)
Shrinks ==
    /\ \A i \in Ids : registry'[i] = registry[i] \/ registry'[i] = None
    /\ \A w \in Clients, c \in Child : InHand(w, c)' => InHand(w, c)

LEMMA ForkedChild ==
    ASSUME Types PROVE Forked = 1..Len(child) /\ Forked \subseteq Child /\ Len(child) \in Nat
BY RegistryAssumption DEF Types, Forked, Child

LEMMA ShrinkHeld ==
    ASSUME Types, Kept, Shrinks, \A c \in Forked : child'[c].alive => child[c].alive
    PROVE  \A c \in Forked : Held(c)' => Held(c)
<1> SUFFICES ASSUME NEW c \in Forked, Held(c)' PROVE Held(c)
  OBVIOUS
<1>1. c \in Child /\ c # None
  BY ForkedChild, RegistryAssumption DEF Child
<1> QED BY <1>1 DEF Held, Shrinks

LEMMA ShrinkStep ==
    ASSUME Safe, Types', PinInv, Kept, Shrinks,
           \A c \in Forked : child'[c].alive => child[c].alive,
           \A c \in Forked : child'[c].known = child[c].known \/ child'[c].known = child[c].on,
           gate' \union {db'} \subseteq gate \union {db, Snapshot},
           mode' = "boot" => mode = "down" \/ (mode = "boot" /\ db' = db /\ todo' \subseteq todo)
    PROVE  PinInv'
<1> USE DEF PinInv, Safe
<1>0. Forked' = Forked /\ Len(child') = Len(child)
        /\ \A c \in Forked : child'[c].kind = child[c].kind /\ child'[c].arg = child[c].arg /\ child'[c].on = child[c].on
  BY DEF Kept
<1>1. \A c \in Forked : Held(c)' => Held(c)
  BY ShrinkHeld
<1>2. ArgvInv'
  BY <1>0 DEF ArgvInv, Pin
<1>3. OnceInv'
  <2>1. \A i, j \in Ids : registry'[i] # None /\ registry'[i] = registry'[j] => i = j
    BY DEF OnceInv, Shrinks
  <2>2. ASSUME NEW w \in Clients, NEW c \in Forked, InHand(w, c)'
        PROVE  (\A i \in Ids : registry'[i] # c) /\ \A v \in Clients : InHand(v, c)' => v = w
    <3>1. c \in Child /\ c # None
      BY ForkedChild, RegistryAssumption DEF Child
    <3>2. InHand(w, c) /\ \A v \in Clients : InHand(v, c)' => InHand(v, c)
      BY <2>2, <3>1 DEF Shrinks
    <3> QED BY <3>1, <3>2 DEF OnceInv, Shrinks
  <2> QED BY <1>0, <2>1, <2>2 DEF OnceInv
<1>4. HeldInv'
  BY <1>0, <1>1 DEF HeldInv, Pin
<1>5. RecordInv'
  BY <1>0, SnapshotApart DEF RecordInv
<1>6. BootInv'
  <2> SUFFICES ASSUME mode' = "boot", NEW c \in Forked, Pin(c)', Held(c)'
               PROVE  \E i \in Ids \ todo' : Pins(db'[i]) /\ db'[i].arg = child'[c].arg
    BY <1>0 DEF BootInv
  <2>1. Pin(c) /\ Held(c) /\ child'[c].arg = child[c].arg
    BY <1>0, <1>1 DEF Pin
  <2>2. mode # "down"
    <3> SUFFICES ASSUME mode = "down" PROVE FALSE
      OBVIOUS
    <3>1. c # None
      BY ForkedChild, RegistryAssumption
    <3> QED BY <2>1, <3>1 DEF DownInv, Held, InHand
  <2> QED BY <2>1, <2>2 DEF BootInv
<1> QED BY <1>2, <1>3, <1>4, <1>5, <1>6

(* The child in hand is registered. *)
LEMMA RegisterStep ==
    ASSUME Safe, PinInv, NEW w \in Clients, SpawnRegister(w) \/ SplitInsert(w)
    PROVE  PinInv'
<1> USE DEF PinInv, Safe
<1> DEFINE new == job[w].c
<1>0. /\ mode = "up" /\ InHand(w, new) /\ new \in Forked /\ job[w].id \in Ids
      /\ registry' = [registry EXCEPT ![job[w].id] = new]
      /\ job' = [job EXCEPT ![w] = Done]
      /\ UNCHANGED <<child, gate, db, mode>> /\ Forked' = Forked
  BY HandFact DEF SpawnRegister, SplitInsert, InHand, Up, Forked
<1>1. new # None /\ new \in Child
  BY <1>0, ForkedChild, RegistryAssumption DEF Child
<1>2. \A v \in Clients : \A c : InHand(v, c)' => v # w /\ InHand(v, c)
  <2>1. job \in [Clients -> JobRec]
    BY DEF Types
  <2> QED BY <1>0, <2>1, JobConstants DEF InHand
<1>3. \A i \in Ids : registry'[i] = IF i = job[w].id THEN new ELSE registry[i]
  BY <1>0 DEF Types
<1>4. \A c \in Forked : Held(c)' => Held(c)
  BY <1>0, <1>2, <1>3 DEF Held
<1>5. ArgvInv'
  BY <1>0 DEF ArgvInv, Pin
<1>6. OnceInv'
  <2>1. \A i \in Ids : registry[i] # new
    BY <1>0 DEF OnceInv
  <2>2. \A v \in Clients : InHand(v, new) => v = w
    BY <1>0 DEF OnceInv
  <2>3. \A i, j \in Ids : registry'[i] # None /\ registry'[i] = registry'[j] => i = j
    BY <1>3, <2>1 DEF OnceInv
  <2>4. ASSUME NEW v \in Clients, NEW c \in Forked, InHand(v, c)'
        PROVE  (\A i \in Ids : registry'[i] # c) /\ \A u \in Clients : InHand(u, c)' => u = v
    <3>1. InHand(v, c) /\ c # new
      BY <1>2, <2>2, <2>4
    <3> QED BY <1>2, <1>3, <3>1 DEF OnceInv
  <2> QED BY <1>0, <2>3, <2>4 DEF OnceInv
<1>7. HeldInv'
  BY <1>0, <1>4 DEF HeldInv, Pin
<1>8. RecordInv' /\ BootInv'
  BY <1>0 DEF RecordInv, BootInv
<1> QED BY <1>5, <1>6, <1>7, <1>8

(* A new pinned child is on a session that nobody held. *)
LEMMA ForkHeld ==
    ASSUME Safe, PinInv, NEW kind \in Kind, NEW arg \in Argv, NEW known \in Session, NEW t \in Where,
           Fork(kind, arg, known, t),
           kind = "pin" => /\ arg \in 1..(Len(child) + 1) /\ known \in {None, arg}
                           /\ \A c \in Forked : Pin(c) /\ Held(c) => child[c].arg # arg,
           \A c \in Forked : Held(c)' => Held(c)
    PROVE  ArgvInv' /\ HeldInv'
<1> USE DEF PinInv, Safe
<1>1. /\ Fresh \in Child /\ Fresh \notin Forked
      /\ Len(child') = Len(child) + 1
      /\ Forked' = Forked \union {Fresh}
      /\ \A c \in Forked : child'[c] = child[c]
      /\ child'[Fresh].kind = kind /\ child'[Fresh].arg = arg /\ child'[Fresh].known = known
      /\ kind = "pin" /\ arg \in Child => child'[Fresh].on = arg
  BY ForkFact
<1>2. Len(child) \in Nat /\ Fresh = Len(child) + 1 /\ Child = 1..MaxChildren /\ MaxChildren \in Nat
  BY ForkedChild, RegistryAssumption DEF Fresh, Child
<1>3. 1..(Len(child) + 1) \subseteq Child
  BY <1>1, <1>2
<1>4. ArgvInv'
  <2> SUFFICES ASSUME NEW c \in Forked', child'[c].kind = "pin"
               PROVE  /\ child'[c].arg \in 1..Len(child')
                      /\ child'[c].on = child'[c].arg /\ child'[c].known \in {None, child'[c].arg}
    BY DEF ArgvInv, Pin
  <2>1. CASE c \in Forked
    <3>1. child'[c] = child[c] /\ Pin(c)
      BY <1>1, <2>1 DEF Pin
    <3>2. child[c].arg \in 1..Len(child) /\ child[c].on = child[c].arg /\ child[c].known \in {None, child[c].arg}
      BY <2>1, <3>1 DEF ArgvInv
    <3> QED BY <1>1, <1>2, <3>1, <3>2
  <2>2. CASE c = Fresh
    BY <1>1, <1>3, <2>2
  <2> QED BY <1>1, <2>1, <2>2
<1>5. HeldInv'
  <2> SUFFICES ASSUME NEW c \in Forked', NEW d \in Forked', c # d, Pin(c)', Pin(d)', Held(c)', Held(d)'
               PROVE  child'[c].arg # child'[d].arg
    BY DEF HeldInv
  <2>1. CASE c \in Forked /\ d \in Forked
    BY <1>1, <2>1 DEF HeldInv, Pin
  <2>2. CASE c = Fresh /\ d \in Forked
    BY <1>1, <2>2 DEF Pin
  <2>3. CASE d = Fresh /\ c \in Forked
    BY <1>1, <2>3 DEF Pin
  <2> QED BY <1>1, <2>1, <2>2, <2>3
<1> QED BY <1>4, <1>5

LEMMA RecordsGrow ==
    ASSUME Types, RecordInv, Len(child') = Len(child) + 1, UNCHANGED <<gate, db>>
    PROVE  RecordInv'
<1>1. Len(child) \in Nat
  BY ForkedChild
<1> QED BY <1>1 DEF RecordInv, ApartRecords, PinnedRecord

LEMMA ForkStep ==
    ASSUME Safe, PinInv, NEW w \in Clients, SpawnFork(w) \/ SplitFork(w)
    PROVE  PinInv'
<1> USE DEF PinInv, Safe
<1>0. job \in [Clients -> JobRec] /\ job[w] \in JobRec
  BY DEF Types
<1>1. Fresh \in Child /\ mode = "up" /\ UNCHANGED <<registry, gate, db, mode>>
  BY <1>0 DEF SpawnFork, SplitFork, Fork, Up
<1>2. PICK kind \in Kind, arg \in Argv, known \in Session, t \in Where :
        /\ Fork(kind, arg, known, t)
        /\ kind = "pin" => arg = Fresh /\ known = Fresh
  <2>1. job[w].kind \in Kind /\ job[w].arg \in Argv /\ job[w].tree \in Where /\ None \in Where /\ None \in Argv
    BY <1>0 DEF SpawnFork, SplitFork, Types, JobFits, JobRec, Argv, Where
  <2>2. \A arg \in Argv : LET new == Repin(job[w].kind, arg) IN
          /\ new \in Argv /\ Pinned(job[w].kind, new) \in Session
          /\ job[w].kind = "pin" => new = Fresh /\ Pinned(job[w].kind, new) = Fresh
    BY <1>1 DEF Repin, Pinned, Argv, Session
  <2> QED BY <2>1, <2>2 DEF SpawnFork, SplitFork
<1>3. /\ Fresh \notin Forked /\ Len(child') = Len(child) + 1 /\ Forked' = Forked \union {Fresh}
      /\ \A c \in Forked : child'[c] = child[c]
  BY <1>2, ForkFact
<1>4. \A v \in Clients : \A c : InHand(v, c)' => InHand(v, c) \/ (v = w /\ c = Fresh)
  <2>1. PICK pc \in {"register", "insert"} :
          job' = [job EXCEPT ![w] = [job[w] EXCEPT !.pc = pc, !.c = Fresh]]
    <3>1. CASE SpawnFork(w)
      BY <1>0, <3>1 DEF SpawnFork
    <3>2. CASE SplitFork(w)
      BY <1>0, <3>2 DEF SplitFork
    <3> QED BY <3>1, <3>2
  <2> DEFINE j == [job[w] EXCEPT !.pc = pc, !.c = Fresh]
  <2>2. j.c = Fresh
    BY <1>0 DEF JobRec
  <2>3. job'[w] = j /\ \A v \in Clients \ {w} : job'[v] = job[v]
    BY <1>0, <2>1
  <2> HIDE DEF j
  <2> QED BY <2>2, <2>3 DEF InHand
<1>5. \A c \in Forked : Held(c)' => Held(c)
  <2> SUFFICES ASSUME NEW c \in Forked, Held(c)' PROVE Held(c)
    OBVIOUS
  <2> QED BY <1>1, <1>3, <1>4 DEF Held
<1>6. ArgvInv' /\ HeldInv'
  <2>1. Len(child) \in Nat /\ Fresh = Len(child) + 1
    BY ForkedChild DEF Fresh
  <2>2. \A c \in Forked : Pin(c) => child[c].arg # Fresh
    BY <2>1 DEF ArgvInv
  <2>3. kind = "pin" => /\ arg \in 1..(Len(child) + 1) /\ known \in {None, arg}
                        /\ \A c \in Forked : Pin(c) /\ Held(c) => child[c].arg # arg
    BY <1>2, <2>1, <2>2
  <2> QED BY <1>2, <1>5, <2>3, ForkHeld
<1>7. OnceInv'
  <2>1. \A i \in Ids : registry'[i] # Fresh
    <3>1. registry \in [Ids -> Forked \union {None}] /\ Fresh # None
      BY <1>1, RegistryAssumption DEF Types, Child
    <3> QED BY <1>1, <1>3, <3>1
  <2>2. \A v \in Clients : ~InHand(v, Fresh)
    BY <1>3, HandFact
  <2>3. ASSUME NEW v \in Clients, NEW c \in Forked', InHand(v, c)'
        PROVE  (\A i \in Ids : registry'[i] # c) /\ \A u \in Clients : InHand(u, c)' => u = v
    <3>1. CASE c = Fresh
      BY <1>4, <2>1, <2>2, <2>3, <3>1
    <3>2. CASE c # Fresh
      <4>1. c \in Forked /\ InHand(v, c)
        BY <1>3, <1>4, <2>3, <3>2
      <4> QED BY <1>1, <1>4, <3>2, <4>1 DEF OnceInv
    <3> QED BY <3>1, <3>2
  <2> QED BY <1>1, <2>3 DEF OnceInv
<1>8. RecordInv' /\ BootInv'
  BY <1>1, <1>3, RecordsGrow DEF BootInv
<1> QED BY <1>6, <1>7, <1>8

(* A restored pane takes up the session its record names, which no other record does. *)
LEMMA RestoreStep ==
    ASSUME Safe, PinInv, NEW i \in todo, RestoreResumed(i) \/ RestorePlain(i)
    PROVE  PinInv'
<1> USE DEF PinInv, Safe
<1>1. /\ i \in Ids /\ db[i] \in Record /\ db[i] # None /\ Restored(i) /\ mode = "boot"
      /\ db[i].kind \in Kind /\ db[i].tree \in Where
  BY RestoreFact DEF Record, DownInv
<1>2. PICK arg \in Argv, known \in Session :
        /\ Fork(db[i].kind, arg, known, db[i].tree)
        /\ \/ arg = db[i].arg /\ known = None
           \/ Resumable(db[i]) /\ arg = ResumeArg(db[i]) /\ known = Carried(db[i])
  BY RestoreFact
<1>3. /\ registry' = [registry EXCEPT ![i] = Fresh] /\ todo' = todo \ {i}
      /\ UNCHANGED <<job, gate, db, mode>>
  BY <1>1 DEF Restored
<1>4. /\ Fresh \in Child /\ Fresh \notin Forked /\ Len(child') = Len(child) + 1
      /\ Forked' = Forked \union {Fresh} /\ \A c \in Forked : child'[c] = child[c]
      /\ child'[Fresh].kind = db[i].kind /\ child'[Fresh].arg = arg
  BY <1>1, <1>2, ForkFact
<1>5. \A j \in Ids : registry'[j] = IF j = i THEN Fresh ELSE registry[j]
  BY <1>1, <1>3 DEF Types
<1>6. \A v \in Clients : \A c : ~InHand(v, c) /\ ~InHand(v, c)'
  BY <1>1, <1>3 DEF DownInv, InHand
<1>7. \A c \in Forked : Held(c)' => Held(c)
  <2> SUFFICES ASSUME NEW c \in Forked, Held(c)' PROVE Held(c)
    OBVIOUS
  <2> QED BY <1>4, <1>5, <1>6 DEF Held
<1>8. Len(child) \in Nat /\ Fresh = Len(child) + 1 /\ 1..Len(child) \subseteq Child
  BY <1>4, ForkedChild DEF Fresh
<1>9. db[i].kind = "pin" => arg = db[i].arg /\ known \in {None, arg} /\ arg \in 1..Len(child)
  <2> SUFFICES ASSUME db[i].kind = "pin" PROVE arg = db[i].arg /\ known \in {None, arg} /\ arg \in 1..Len(child)
    OBVIOUS
  <2>1. db[i].arg \in 1..Len(child) /\ db[i].session \in {None, db[i].arg}
    BY <1>1 DEF RecordInv, ApartRecords, Pins, PinnedRecord
  <2>2. db[i].arg # None
    BY <1>8, <2>1, RegistryAssumption
  <2>3. Carried(db[i]) = db[i].arg /\ ResumeArg(db[i]) = db[i].arg
    BY <1>8, <2>1, <2>2 DEF Carried, ResumeArg
  <2> QED BY <1>2, <2>1, <2>3
<1>10. ArgvInv' /\ HeldInv'
  <2>1. ASSUME db[i].kind = "pin", NEW c \in Forked, Pin(c), Held(c) PROVE child[c].arg # arg
    <3>1. PICK j \in Ids \ todo : Pins(db[j]) /\ db[j].arg = child[c].arg
      BY <1>1, <2>1 DEF BootInv
    <3>2. db[i].arg # db[j].arg
      BY <1>1, <2>1, <3>1 DEF RecordInv, ApartRecords, Pins
    <3> QED BY <1>9, <2>1, <3>1, <3>2
  <2>2. db[i].kind = "pin" => /\ arg \in 1..(Len(child) + 1) /\ known \in {None, arg}
                        /\ \A c \in Forked : Pin(c) /\ Held(c) => child[c].arg # arg
    BY <1>8, <1>9, <2>1
  <2> QED BY <1>1, <1>2, <1>7, <2>2, ForkHeld
<1>11. OnceInv'
  <2>1. \A j \in Ids : registry[j] # Fresh
    <3>1. registry \in [Ids -> Forked \union {None}] /\ Fresh # None
      BY <1>4, RegistryAssumption DEF Types, Child
    <3> QED BY <1>4, <3>1
  <2>2. \A j, k \in Ids : registry'[j] # None /\ registry'[j] = registry'[k] => j = k
    BY <1>5, <2>1 DEF OnceInv
  <2> QED BY <1>6, <2>2 DEF OnceInv
<1>12. BootInv'
  <2> SUFFICES ASSUME NEW c \in Forked', Pin(c)', Held(c)'
               PROVE  \E j \in Ids \ todo' : Pins(db[j]) /\ db[j].arg = child'[c].arg
    BY <1>3 DEF BootInv
  <2>1. CASE c = Fresh
    BY <1>1, <1>3, <1>4, <1>9, <2>1 DEF Pin, Pins
  <2>2. CASE c \in Forked
    <3>1. Pin(c) /\ Held(c) /\ child'[c] = child[c]
      BY <1>4, <1>7, <2>2 DEF Pin
    <3> QED BY <1>1, <1>3, <2>2, <3>1 DEF BootInv
  <2> QED BY <1>4, <2>1, <2>2
<1> QED BY <1>3, <1>4, <1>10, <1>11, <1>12, RecordsGrow

LEMMA VerbPin ==
    ASSUME Safe, Types', PinInv, NEW w \in Clients, Verb(w)
    PROVE  PinInv'
<1>0. /\ job \in [Clients -> JobRec] /\ registry \in [Ids -> Forked \union {None}] /\ child \in Seq(ChildRec)
      /\ mode' = "up" /\ UNCHANGED <<gate, db>>
  <2>1. Types
    BY DEF Safe
  <2> QED BY <2>1, VerbFact DEF Types
<1>1. ASSUME Kept, \A i \in Ids : registry'[i] = registry[i] \/ registry'[i] = None,
             \A c \in Forked : child'[c].alive = child[c].alive /\ child'[c].known = child[c].known,
             \A v \in Clients \ {w} : job'[v] = job[v],
             job'[w].pc \notin {"register", "insert"}
      PROVE  PinInv'
  <2>1. Shrinks
    BY <1>1 DEF Shrinks, InHand
  <2> QED BY <1>0, <1>1, <2>1, ShrinkStep
<1>2. UNCHANGED child => Kept
  BY <1>0 DEF Kept, Forked
<1>3. ASSUME NEW r \in Requests, Spawn(w, r) PROVE PinInv'
  <2> DEFINE j == [Idle EXCEPT !.pc = "fork", !.id = r.id, !.kind = r.kind, !.tree = r.tree]
  <2>1. j.pc = "fork"
    BY DEF Idle
  <2>2. job' = [job EXCEPT ![w] = j] /\ UNCHANGED <<child, registry>>
    BY <1>3 DEF Spawn
  <2> HIDE DEF j
  <2> QED BY <1>0, <1>1, <1>2, <2>1, <2>2
<1>4. ASSUME NEW i \in Ids, NEW new \in Ids, Split(w, i, new) PROVE PinInv'
  <2> DEFINE j == [Idle EXCEPT !.pc = "splitfork", !.id = new,
                     !.kind = child[registry[i]].kind, !.arg = child[registry[i]].arg]
  <2>1. j.pc = "splitfork"
    BY DEF Idle
  <2>2. job' = [job EXCEPT ![w] = j] /\ UNCHANGED <<child, registry>>
    BY <1>4 DEF Split
  <2> HIDE DEF j
  <2> QED BY <1>0, <1>1, <1>2, <2>1, <2>2
<1>5. ASSUME NEW i \in Ids, NotifyCheck(w, i) PROVE PinInv'
  <2> DEFINE j == [Idle EXCEPT !.pc = "notify", !.id = i]
  <2>1. j.pc = "notify"
    BY DEF Idle
  <2>2. job' = [job EXCEPT ![w] = j] /\ UNCHANGED <<child, registry>>
    BY <1>5 DEF NotifyCheck
  <2> HIDE DEF j
  <2> QED BY <1>0, <1>1, <1>2, <2>1, <2>2
<1>6. CASE SpawnRefused(w) \/ ForkFails(w) \/ Refused(w)
  <2>1. job' = [job EXCEPT ![w] = Done] /\ UNCHANGED <<child, registry>>
    BY <1>6 DEF SpawnRefused, ForkFails, Refused
  <2> QED BY <1>0, <1>1, <1>2, <2>1, JobConstants
<1>7. ASSUME NEW i \in Ids, Kill(w, i) PROVE PinInv'
  <2>1. job' = [job EXCEPT ![w] = Done] /\ UNCHANGED child /\ registry' = [registry EXCEPT ![i] = None]
    BY <1>7 DEF Kill, Removed
  <2> QED BY <1>0, <1>1, <1>2, <2>1, JobConstants
<1>8. CASE NotifyKill(w)
  <2>1. /\ job' = [job EXCEPT ![w] = Idle] /\ UNCHANGED child
        /\ registry' = registry \/ registry' = [registry EXCEPT ![job[w].id] = None]
    BY <1>8 DEF NotifyKill, Removed
  <2>2. \A i \in Ids : registry'[i] = registry[i] \/ registry'[i] = None
    BY <1>0, <2>1
  <2> QED BY <1>0, <1>1, <1>2, <2>1, <2>2, JobConstants
<1>9. CASE Dispatched(w)
  <2>1. job' = [job EXCEPT ![w] = Idle] /\ Take /\ UNCHANGED registry
    BY <1>9 DEF Dispatched
  <2> QED BY <1>0, <1>1, <2>1, JobConstants, TakeFact DEF Safe
<1> QED
  BY <1>3, <1>4, <1>5, <1>6, <1>7, <1>8, <1>9, RegisterStep, ForkStep DEF Verb

LEMMA PinStep == Safe /\ PinInv /\ [Next]_vars => PinInv'
<1> SUFFICES ASSUME Safe, PinInv, [Next]_vars PROVE PinInv'
  OBVIOUS
<1>0. Types /\ Types' /\ child \in Seq(ChildRec)
  BY SafeStep DEF Safe, Types
<1>1. ASSUME Kept, UNCHANGED <<registry, job>>,
             \A c \in Forked : child'[c].alive => child[c].alive,
             \A c \in Forked : child'[c].known = child[c].known \/ child'[c].known = child[c].on,
             gate' \union {db'} \subseteq gate \union {db, Snapshot},
             mode' = "boot" => mode = "down" \/ (mode = "boot" /\ db' = db /\ todo' \subseteq todo)
      PROVE  PinInv'
  <2>1. Shrinks
    BY <1>1 DEF Shrinks, InHand
  <2> QED BY <1>0, <1>1, <2>1, ShrinkStep
<1>2. UNCHANGED child => Kept
  BY <1>0 DEF Kept, Forked
<1>3. ASSUME NEW w \in Clients, Verb(w) PROVE PinInv'
  BY <1>0, <1>3, VerbPin
<1>4. CASE DispatchedOther
  BY <1>0, <1>1, <1>4, TakeFact DEF DispatchedOther
<1>5. CASE SnapshotRead
  BY <1>1, <1>2, <1>5 DEF SnapshotRead
<1>6. CASE SnapshotWrite
  BY <1>1, <1>2, <1>6 DEF SnapshotWrite, Up
<1>7. ASSUME NEW c \in Forked, Capture(c) PROVE PinInv'
  BY <1>0, <1>1, <1>7, CaptureFact DEF Capture
<1>8. ASSUME NEW c \in Forked, Exit(c) PROVE PinInv'
  BY <1>0, <1>1, <1>8, ExitFact DEF Exit
<1>9. CASE \/ \E c \in Forked : Work(c)
           \/ \E k \in cleanup : CleanupWaited(k) \/ CleanupStatus(k) \/ CleanupRemove(k)
           \/ UNCHANGED vars
  <2>1. UNCHANGED <<child, registry, job, tasks, gate, db, mode, todo, saved>>
    BY <1>9 DEF Work, CleanupWaited, CleanupStatus, CleanupRemove, vars
  <2> QED BY <1>1, <1>2, <2>1
<1>10. CASE Sigterm \/ Crash
  <2>1. Kept /\ \A c \in Forked : child'[c].known = child[c].known /\ child'[c].alive = FALSE
    BY <1>0, <1>10, EndedFact DEF Sigterm, Crash
  <2>2. /\ mode' = "down" /\ gate' = {} /\ (db' = db \/ db' = Snapshot)
        /\ registry' = [i \in Ids |-> None] /\ job' = [w \in Clients |-> Idle]
    BY <1>10 DEF Sigterm, Crash, Ended
  <2>3. Shrinks
    BY <2>2, JobConstants DEF Shrinks, InHand
  <2> QED BY <1>0, <2>1, <2>2, <2>3, ShrinkStep
<1>11. CASE Boot \/ Serve
  BY <1>1, <1>2, <1>11 DEF Boot, Serve
<1>12. ASSUME NEW i \in todo, RestoreResumed(i) \/ RestorePlain(i) PROVE PinInv'
  BY <1>12, RestoreStep
<1>13. ASSUME NEW i \in todo, RestoreSkipped(i) PROVE PinInv'
  <2>1. UNCHANGED <<child, registry, job, gate, db, mode>> /\ todo' = todo \ {i} /\ mode = "boot"
    BY <1>13 DEF RestoreSkipped, Safe, DownInv
  <2> QED BY <1>1, <1>2, <2>1
<1> QED
  BY <1>3, <1>4, <1>5, <1>6, <1>7, <1>8, <1>9, <1>10, <1>11, <1>12, <1>13 DEF Next

(* "two panes writing one harness session is one session corrupted": of a harness that
   pins its sessions, no two live children write one, over any spawns, splits, kills,
   crashes and restores of any number of clients. *)
THEOREM PinnedTheorem == Spec => []PinnedApart
<1>1. Init => Safe /\ PinInv
  <2> SUFFICES ASSUME Init PROVE Safe /\ PinInv
    OBVIOUS
  <2>1. Safe
    BY TypesInit DEF Safe
  <2>2. Forked = {}
    BY DEF Init, Forked
  <2>3. RecordInv
    BY DEF Init, RecordInv, ApartRecords, Pins
  <2> QED BY <2>1, <2>2, <2>3 DEF Init, PinInv, ArgvInv, OnceInv, HeldInv, BootInv
<1>2. Safe /\ PinInv /\ [Next]_vars => (Safe /\ PinInv)'
  BY SafeStep, PinStep
<1>3. Safe /\ PinInv => PinnedApart
  <2> SUFFICES ASSUME Safe, PinInv, NEW c \in Forked, NEW d \in Forked,
                      c # d, Live(c), Live(d), Pin(c), Pin(d)
               PROVE  child[c].on # child[d].on
    BY DEF PinnedApart, Pin
  <2>1. Held(c) /\ Held(d)
    BY DEF Held, Live
  <2>2. child[c].on = child[c].arg /\ child[d].on = child[d].arg
    BY DEF PinInv, ArgvInv
  <2> QED BY <2>1, <2>2 DEF PinInv, HeldInv
<1> QED BY <1>1, <1>2, <1>3, PTL DEF Spec

-----------------------------------------------------------------------------
(* Checkouts. *)

TreeInv == tree \in [Trees -> {"absent", "clean", "dirty"}]

TreeKept == TreeInv' /\ \A t \in Trees : tree[t] = "dirty" => tree'[t] # "absent"

LEMMA RemadeFact ==
    ASSUME TreeInv, NEW t, Remade(t) PROVE TreeKept
BY DEF Remade, TreeInv, TreeKept

LEMMA TreeStep == TreeInv /\ [Next]_vars => TreeKept
<1> SUFFICES ASSUME TreeInv, [Next]_vars PROVE TreeKept
  OBVIOUS
<1>1. ASSUME tree' = tree PROVE TreeKept
  BY <1>1 DEF TreeInv, TreeKept
<1>2. ASSUME NEW w \in Clients, Verb(w) PROVE TreeKept
  <2>1. ASSUME NEW r \in Requests, Spawn(w, r) PROVE TreeKept
    BY <2>1, RemadeFact DEF Spawn
  <2>2. ASSUME NEW i \in Ids, NEW new \in Ids, Split(w, i, new) PROVE tree' = tree
    BY <2>2 DEF Split
  <2>3. ASSUME NEW i \in Ids, Kill(w, i) \/ NotifyCheck(w, i) PROVE tree' = tree
    BY <2>3 DEF Kill, NotifyCheck
  <2>4. ASSUME SpawnFork(w) \/ SplitFork(w) PROVE tree' = tree
    BY <2>4 DEF SpawnFork, SplitFork
  <2>5. ASSUME \/ SpawnRegister(w) \/ SpawnRefused(w) \/ ForkFails(w) \/ SplitInsert(w) \/ Refused(w)
               \/ NotifyKill(w) \/ Dispatched(w)
        PROVE  tree' = tree
    BY <2>5 DEF SpawnRegister, SpawnRefused, ForkFails, SplitInsert, Refused, NotifyKill, Dispatched
  <2> QED BY <1>1, <1>2, <2>1, <2>2, <2>3, <2>4, <2>5 DEF Verb
<1>3. ASSUME DispatchedOther \/ SnapshotRead \/ SnapshotWrite \/ Boot \/ Serve PROVE tree' = tree
  BY <1>3 DEF DispatchedOther, SnapshotRead, SnapshotWrite, Boot, Serve
<1>4. ASSUME Sigterm \/ Crash PROVE tree' = tree
  BY <1>4 DEF Sigterm, Crash, Ended
<1>5. ASSUME NEW c \in Forked, Capture(c) \/ Exit(c) PROVE tree' = tree
  BY <1>5 DEF Capture, Exit
<1>6. ASSUME NEW c \in Forked, Work(c) PROVE TreeKept
  BY <1>6 DEF Work, TreeInv, TreeKept
<1>7. ASSUME NEW k \in cleanup, CleanupWaited(k) \/ CleanupStatus(k) PROVE tree' = tree
  BY <1>7 DEF CleanupWaited, CleanupStatus
<1>8. ASSUME NEW k \in cleanup, CleanupRemove(k) PROVE TreeKept
  BY <1>8 DEF CleanupRemove, AfterRemove, TreeInv, TreeKept
<1>9. ASSUME NEW i \in todo, RestoreResumed(i) \/ RestorePlain(i) PROVE TreeKept
  BY <1>9, RemadeFact DEF RestoreResumed, RestorePlain, Restored
<1>10. ASSUME NEW i \in todo, RestoreSkipped(i) PROVE tree' = tree
  BY <1>10 DEF RestoreSkipped
<1>11. ASSUME UNCHANGED vars PROVE tree' = tree
  BY <1>11 DEF vars
<1> QED
  BY <1>1, <1>2, <1>3, <1>4, <1>5, <1>6, <1>7, <1>8, <1>9, <1>10, <1>11 DEF Next

(* worktree::remove: whoever works in a checkout while a kill's detached task is about to
   remove it, what is not committed is never removed. *)
THEOREM UncommittedTheorem == Spec => UncommittedKept
<1>1. Init => TreeInv
  BY DEF Init, TreeInv
<1>2. TreeInv /\ [Next]_vars => TreeInv'
  BY TreeStep DEF TreeKept
<1>3. TreeInv /\ [Next]_vars => [\A t \in Trees : tree[t] = "dirty" => tree'[t] # "absent"]_vars
  BY TreeStep DEF TreeKept
<1> QED BY <1>1, <1>2, <1>3, PTL DEF Spec, UncommittedKept
=============================================================================
