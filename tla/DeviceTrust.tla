------------------------------ MODULE DeviceTrust ------------------------------
(***************************************************************************)
(* Who may use this machine: the device authority (certificate files and   *)
(* store rows), the trust ledger, and the two processes that work on them  *)
(* without a lock between them.  An operator's command (issue, rotate,     *)
(* revoke, trust) takes several steps and may die between any two.  The    *)
(* daemon answers from an index that it built when it started, corrected   *)
(* by the store, and keeps sessions open.                                  *)
(*                                                                         *)
(* A device is its key.  Names, roles, serials, signatures and the audit   *)
(* log are left out; every certificate verifies.                            *)
(***************************************************************************)
EXTENDS Naturals, FiniteSets

CONSTANTS
    Devices,
    Operators,   \* commands that may be under way at once
    NoRow,
    MaxIssued,   \* bound on the certificates issued
    MaxDeaths,   \* bound on the processes that die
    FreshKeys,   \* whether a rotation always moves onto a key not seen before
    Overlaps     \* whether a process may write between another's read and write

ASSUME TrustAssumption ==
    /\ MaxIssued \in Nat /\ MaxDeaths \in Nat
    /\ FreshKeys \in BOOLEAN /\ Overlaps \in BOOLEAN
    /\ NoRow \notin [revoked : BOOLEAN, retired : BOOLEAN]

VARIABLES
    row,          \* [Devices -> the store's record, or NoRow]
    file,         \* [Devices -> "none", "torn" or "whole"]: the certificate file
    grant,        \* [Devices -> "none", "live" or "cut"]: this machine's ledger
    initialized,  \* the ledger's one-way marker
    daemon,       \* "down", "boot" or "up"
    index,        \* the devices of the daemon's in-memory index
    todo,         \* the devices the boot has still to grant
    session,      \* [Devices -> "none", "resolved", "touching", "open", "frame" or "busy"]
    seen,         \* [Devices -> the record touch has read]
    job,          \* [Operators -> the command under way]
    issued,       \* certificates issued so far
    deaths,
    reported,     \* devices an operator was told are revoked
    after,        \* devices that were served after that
    begun,        \* rotations begun by a device with a whole certificate that could connect
    ran           \* whether a daemon has been up

vars == <<row, file, grant, initialized, daemon, index, todo, session, seen, job,
          issued, deaths, reported, after, begun, ran>>

store  == <<row, file, grant, initialized>>
server == <<daemon, index, todo, session, seen, ran>>
told   == <<reported, after, begun>>

Idle == [op |-> "none", at |-> "idle", dev |-> NoRow, to |-> NoRow, old |-> NoRow]

Init ==
    /\ row = [d \in Devices |-> NoRow] /\ file = [d \in Devices |-> "none"]
    /\ grant = [d \in Devices |-> "none"] /\ initialized = FALSE
    /\ daemon = "down" /\ index = {} /\ todo = {}
    /\ session = [d \in Devices |-> "none"] /\ seen = [d \in Devices |-> NoRow]
    /\ job = [o \in Operators |-> Idle]
    /\ issued = 0 /\ deaths = 0
    /\ reported = {} /\ after = {} /\ begun = {} /\ ran = FALSE

-----------------------------------------------------------------------------
(* The decisions. *)

(* may_connect: the store has neither revoked nor retired the device. *)
MayConnect(r) == r # NoRow => ~r.revoked /\ ~r.retired

(* Faulty: the pinning door takes any key. *)
MayPinAny(d) == TRUE

(* may_pin: the pinning door decides as the connecting door does. *)
MayPin(d) == MayConnect(row[d])

(* reload: certificates whose record allows it, then every other certificate of
   the directory, and then the retired ones out again.  A revoked device whose
   file is still there is in the index. *)
Reload == {d \in Devices : file[d] = "whole" /\ (row[d] # NoRow => ~row[d].retired)}

(* device: the store has the last word, and a miss reloads once. *)
Looked(d) == IF MayConnect(row[d]) /\ d \notin index THEN Reload ELSE index

Admits(d) == MayConnect(row[d]) /\ d \in Looked(d)

(* authorize: the same two, without the reload. *)
Authorized(d) == MayConnect(row[d]) /\ d \in index

(* The two gates of a verb: who are you, and may you, here. *)
Passes(d) == Authorized(d) /\ grant[d] = "live"

Busy == \/ \E o \in Operators : job[o].at # "idle"
        \/ \E d \in Devices : session[d] = "touching"

MayBegin == Overlaps \/ ~Busy

-----------------------------------------------------------------------------
(* An operator's commands. *)

Step(o, at) == job' = [job EXCEPT ![o].at = at]
Done(o) == job' = [job EXCEPT ![o] = Idle]

(* issue: decided on the record read here. *)
Issue(o, d) ==
    /\ job[o].at = "idle" /\ MayBegin /\ issued < MaxIssued
    /\ MayPin(d)
    /\ issued' = issued + 1
    /\ job' = [job EXCEPT ![o] = [op |-> "issue", at |-> "open", dev |-> d, to |-> d, old |-> NoRow]]
    /\ begun' = {p \in begun : d \notin {p[1], p[2]}}
    /\ UNCHANGED <<store, server, deaths, reported, after>>

(* Faulty: the old key is retired before the new one is pinned. *)
FirstRetires == "retire"

(* The first step of a rotation after its reads: the new certificate. *)
First == "open"

(* rotate: the old device has a record that is not revoked.  The new key is not
   looked up. *)
Rotate(o, d, n) ==
    /\ job[o].at = "idle" /\ MayBegin /\ issued < MaxIssued
    /\ row[d] # NoRow /\ ~row[d].revoked /\ n # d
    /\ FreshKeys => row[n] = NoRow /\ file[n] = "none"
    /\ issued' = issued + 1
    /\ job' = [job EXCEPT ![o] = [op |-> "rotate", at |-> First, dev |-> d, to |-> n, old |-> row[d]]]
    /\ begun' = IF Admits(d) /\ file[d] = "whole"
                THEN {p \in begun : p[1] # d} \union {<<d, n>>} ELSE begun
    /\ UNCHANGED <<store, server, deaths, reported, after>>

(* pin: the certificate file is truncated and written in place, ... *)
PinOpen(o) ==
    /\ job[o].at = "open"
    /\ file' = [file EXCEPT ![job[o].to] = "torn"]
    /\ Step(o, "write")
    /\ UNCHANGED <<row, grant, initialized, server, issued, deaths, told>>

PinWrite(o) ==
    /\ job[o].at = "write"
    /\ file' = [file EXCEPT ![job[o].to] = "whole"]
    /\ Step(o, "upsert")
    /\ UNCHANGED <<row, grant, initialized, server, issued, deaths, told>>

(* ... and the record replaces whatever the store has. *)
PinUpsert(o) ==
    /\ job[o].at = "upsert"
    /\ row' = [row EXCEPT ![job[o].to] = [revoked |-> FALSE, retired |-> FALSE]]
    /\ IF job[o].op = "issue" THEN Step(o, "grant")
       ELSE IF First = "open" THEN Step(o, "retire") ELSE Done(o)
    /\ UNCHANGED <<file, grant, initialized, server, issued, deaths, told>>

(* grant_on_this_machine, for issue and for pairing; a rotation grants nothing. *)
Grant(o) ==
    /\ job[o].at = "grant"
    /\ grant' = [grant EXCEPT ![job[o].to] = "live"]
    /\ Done(o)
    /\ UNCHANGED <<row, file, initialized, server, issued, deaths, told>>

(* rotate: the old record as it was read, retired and not revoked. *)
Retire(o) ==
    /\ job[o].at = "retire"
    /\ row' = [row EXCEPT ![job[o].dev] = [job[o].old EXCEPT !.retired = TRUE, !.revoked = FALSE]]
    /\ Step(o, "remove")
    /\ UNCHANGED <<file, grant, initialized, server, issued, deaths, told>>

(* The file of the old or revoked device goes last; a revocation is reported. *)
Remove(o) ==
    /\ job[o].at = "remove"
    /\ file' = [file EXCEPT ![job[o].dev] = "none"]
    /\ IF job[o].op = "rotate" /\ First # "open" THEN Step(o, "open") ELSE Done(o)
    /\ reported' = IF job[o].op = "revoke" THEN reported \union {job[o].dev} ELSE reported
    /\ UNCHANGED <<row, grant, initialized, server, issued, deaths, after, begun>>

(* revoke: a device without a record is refused; the update is one statement, and
   finds out whether it is the one that revoked. *)
Revoke(o, d) ==
    /\ job[o].at = "idle" /\ MayBegin
    /\ row[d] # NoRow
    /\ IF row[d].revoked
       THEN reported' = reported \union {d} /\ UNCHANGED <<row, job>>
       ELSE /\ row' = [row EXCEPT ![d].revoked = TRUE]
            /\ job' = [job EXCEPT ![o] = [op |-> "revoke", at |-> "remove", dev |-> d, to |-> d, old |-> NoRow]]
            /\ UNCHANGED reported
    /\ UNCHANGED <<file, grant, initialized, server, issued, deaths, after, begun>>

(* machines trust: refused for a device that is not pinned here. *)
Trust(o, d) ==
    /\ job[o].at = "idle" /\ MayBegin
    /\ row[d] # NoRow \/ file[d] = "whole"
    /\ grant' = [grant EXCEPT ![d] = "live"]
    /\ UNCHANGED <<row, file, initialized, server, job, issued, deaths, told>>

(* devices revoke --machine: this machine's grant, and only it. *)
Cut(o, d) ==
    /\ job[o].at = "idle" /\ MayBegin
    /\ grant[d] = "live"
    /\ grant' = [grant EXCEPT ![d] = "cut"]
    /\ UNCHANGED <<row, file, initialized, server, job, issued, deaths, told>>

CommandDies(o) ==
    /\ job[o].at # "idle" /\ deaths < MaxDeaths
    /\ deaths' = deaths + 1
    /\ Done(o)
    /\ UNCHANGED <<store, server, issued, told>>

-----------------------------------------------------------------------------
(* The daemon. *)

(* main: the authority is loaded, and what it lists and lets connect is what the
   ledger is filled with, once. *)
Boot ==
    /\ daemon = "down"
    /\ daemon' = "boot"
    /\ index' = Reload
    /\ todo' = IF initialized THEN {}
               ELSE {d \in Devices : MayConnect(row[d]) /\ (row[d] # NoRow \/ d \in Reload)}
    /\ UNCHANGED <<store, session, seen, ran, job, issued, deaths, told>>

Backfill(d) ==
    /\ daemon = "boot" /\ d \in todo
    /\ grant' = [grant EXCEPT ![d] = "live"]
    /\ todo' = todo \ {d}
    /\ UNCHANGED <<row, file, initialized, daemon, index, session, seen, ran, job, issued, deaths, told>>

(* Faulty: the marker is not written. *)
MarkedNever == initialized

Marked == TRUE

Serve ==
    /\ daemon = "boot" /\ todo = {}
    /\ initialized' = Marked
    /\ daemon' = "up" /\ ran' = TRUE
    /\ UNCHANGED <<row, file, grant, index, todo, session, seen, job, issued, deaths, told>>

(* pinned_key: the resolver of the handshake. *)
Resolve(d) ==
    /\ daemon = "up" /\ session[d] = "none"
    /\ Admits(d)
    /\ index' = Looked(d)
    /\ session' = [session EXCEPT ![d] = "resolved"]
    /\ UNCHANGED <<store, daemon, todo, seen, ran, job, issued, deaths, told>>

(* After the handshake: the second look, and the read of touch. *)
Admit(d) ==
    /\ session[d] = "resolved"
    /\ index' = Looked(d)
    /\ IF Admits(d)
       THEN /\ MayBegin
            /\ session' = [session EXCEPT ![d] = "touching"]
            /\ seen' = [seen EXCEPT ![d] = row[d]]
       ELSE session' = [session EXCEPT ![d] = "none"] /\ UNCHANGED seen
    /\ UNCHANGED <<store, daemon, todo, ran, job, issued, deaths, told>>

(* touch: the whole record that was read is written back. *)
Touch(d) ==
    /\ session[d] = "touching"
    /\ row' = IF seen[d] = NoRow THEN row ELSE [row EXCEPT ![d] = seen[d]]
    /\ session' = [session EXCEPT ![d] = "open"]
    /\ seen' = [seen EXCEPT ![d] = NoRow]
    /\ UNCHANGED <<file, grant, initialized, daemon, index, todo, ran, job, issued, deaths, told>>

Served(d) == after' = IF d \in reported THEN after \union {d} ELSE after

(* The client's next frame: the timer of the wait is dropped, and starts anew with
   the next one. *)
Frame(d) ==
    /\ session[d] = "open"
    /\ session' = [session EXCEPT ![d] = "frame"]
    /\ UNCHANGED <<store, daemon, index, todo, seen, ran, job, issued, deaths, told>>

(* A verb that is refused is answered, and the session goes on. *)
Verb(d) ==
    /\ session[d] = "frame"
    /\ IF Passes(d) THEN Served(d) ELSE UNCHANGED after
    /\ session' = [session EXCEPT ![d] = "open"]
    /\ UNCHANGED <<store, daemon, index, todo, seen, ran, job, issued, deaths, reported, begun>>

(* Attach, Resume and Wait own the connection until they are done. *)
Stream(d) ==
    /\ session[d] = "frame" /\ Passes(d)
    /\ Served(d)
    /\ session' = [session EXCEPT ![d] = "busy"]
    /\ UNCHANGED <<store, daemon, index, todo, seen, ran, job, issued, deaths, reported, begun>>

StreamEnds(d) ==
    /\ session[d] = "busy"
    /\ session' = [session EXCEPT ![d] = "open"]
    /\ UNCHANGED <<store, daemon, index, todo, seen, ran, job, issued, deaths, told>>

(* Faulty: the tick asks the index only. *)
CutOffFromIndex(d) == d \notin index /\ d \notin Reload

(* is_revoked: neither door lets the device in. *)
CutOff(d) == ~Authorized(d) /\ ~Admits(d)

(* cutoff_tick, between two frames. *)
Tick(d) ==
    /\ session[d] = "open" /\ CutOff(d)
    /\ index' = Looked(d)
    /\ session' = [session EXCEPT ![d] = "none"]
    /\ UNCHANGED <<store, daemon, todo, seen, ran, job, issued, deaths, told>>

Leave(d) ==
    /\ session[d] \in {"open", "frame", "busy"}
    /\ session' = [session EXCEPT ![d] = "none"]
    /\ UNCHANGED <<store, daemon, index, todo, seen, ran, job, issued, deaths, told>>

DaemonDies ==
    /\ daemon # "down" /\ deaths < MaxDeaths
    /\ deaths' = deaths + 1
    /\ daemon' = "down" /\ index' = {} /\ todo' = {}
    /\ session' = [d \in Devices |-> "none"] /\ seen' = [d \in Devices |-> NoRow]
    /\ UNCHANGED <<store, ran, job, issued, told>>

-----------------------------------------------------------------------------
Command(o) ==
    \/ \E d \in Devices : Issue(o, d) \/ Revoke(o, d) \/ Trust(o, d) \/ Cut(o, d)
    \/ \E d, n \in Devices : Rotate(o, d, n)
    \/ PinOpen(o) \/ PinWrite(o) \/ PinUpsert(o) \/ Grant(o) \/ Retire(o) \/ Remove(o)
    \/ CommandDies(o)

Session(d) ==
    \/ Resolve(d) \/ Admit(d) \/ Touch(d) \/ Frame(d) \/ Verb(d) \/ Stream(d) \/ StreamEnds(d)
    \/ Tick(d) \/ Leave(d)

Next ==
    \/ \E o \in Operators : Command(o)
    \/ \E d \in Devices : Session(d) \/ Backfill(d)
    \/ Boot \/ Serve \/ DaemonDies

(* The runtime goes on with a handshake, and wakes the timer of a session that
   waits for its next frame.  What a stream waits for is the client or the pane. *)
Fairness ==
    \A d \in Devices :
      WF_vars(Admit(d)) /\ WF_vars(Touch(d)) /\ WF_vars(Verb(d) \/ Stream(d)) /\ WF_vars(Tick(d))

Spec == Init /\ [][Next]_vars /\ Fairness

-----------------------------------------------------------------------------
(* Properties. *)

(* "Stolen phone, one command": once an operator has been told that a device is
   revoked, no verb of that device runs again, over restarts of the daemon, an
   index built before, and a certificate file that a dead command left behind. *)
RevokedNeverServed == after = {}

(* rotate pins the new key before the old one retires: a device that could connect
   when its rotation began can connect with one of the two keys at every moment,
   whatever dies, unless it is revoked, moves on, or is issued anew (which writes
   over its certificate in place). *)
NeverLockedOut ==
    \A p \in begun :
      \/ Admits(p[1]) \/ Admits(p[2])
      \/ \E d \in {p[1], p[2]} : row[d] # NoRow /\ row[d].revoked
      \/ row[p[2]] # NoRow /\ row[p[2]].retired

(* "It runs once, ever": a grant that was cut on a machine whose daemon has served
   is not restored by a later boot. *)
CutStaysCut ==
    [][\A d \in Devices :
         ran /\ daemon = "boot" /\ grant[d] = "cut" /\ todo' # todo => grant'[d] = "cut"]_vars

(* A session of a revoked device that is not streaming ends, one that was still
   shaking hands when the device was revoked too, unless its client sends another
   frame first. *)
OpenSessionCut ==
    \A d \in Devices :
      (d \in reported /\ session[d] \notin {"none", "busy"}) ~> (session[d] \in {"none", "frame"})

(* "every live session for that device ends": the one of a client that goes on
   sending frames, each of them refused, too. *)
ChattySessionCut ==
    \A d \in Devices :
      (d \in reported /\ session[d] # "busy") ~> (session[d] \in {"none", "busy"})

(* The same, of a session that streams. *)
StreamCut ==
    \A d \in Devices : (d \in reported /\ session[d] = "busy") ~> (session[d] # "busy")
================================================================================
