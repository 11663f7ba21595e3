---------------------------- MODULE DeferredUpdate ----------------------------
(***************************************************************************)
(* The update of the installed server binary, on Unix.  Four names in one  *)
(* directory: the binary, `.prev` (what it replaced), `.staged` (the       *)
(* candidate of an update in progress) and `.next` (an update kept for the *)
(* next start), with a marker in the state directory that says `.next`     *)
(* waits.                                                                  *)
(*                                                                         *)
(* Two processes change them.  The command line runs one verb at a time,   *)
(* under the update lock: `--server --from`, `--server --rollback`,        *)
(* `--apply-now`.  The daemon, at its start and before it binds, confirms  *)
(* or promotes what waits; it takes the daemon's lock and not the update   *)
(* lock.  `--status` takes no lock at all.  Every file operation is a step *)
(* of its own, and either process may die between two of them.             *)
(***************************************************************************)
EXTENDS Naturals, FiniteSets

CONSTANTS
    Version,     \* what a binary reports; two files of one version are identical
    First,       \* the version installed at the beginning
    Elsewhere,   \* the version of a second installation, at another path
    Panes,       \* panes the daemon may serve
    NoFile, NoMarker, Torn,
    Overlaps,    \* whether a daemon may start while a verb runs
    MaxVerbs,    \* bound on the verbs that change anything
    MaxDeaths    \* bound on the processes that die

ASSUME UpdateAssumption ==
    /\ First \in Version /\ Elsewhere \in Version
    /\ NoMarker \notin Version /\ Torn \notin Version
    /\ NoFile \notin [v : Version, x : BOOLEAN]
    /\ Overlaps \in BOOLEAN /\ MaxVerbs \in Nat /\ MaxDeaths \in Nat

Name == {"current", "prev", "staged", "next"}
Process == {"daemon", "cli"}

VARIABLES
    file,     \* [Name -> NoFile or the file: its version, and whether it can be run]
    marker,   \* the pending version, NoMarker, or Torn: a marker cut off mid-write
    image,    \* the daemon process: the name its executable has, and its version
    panes,    \* live panes
    job,      \* [Process -> where it is, the version and the name it works on]
    peek,     \* what `--status` read the installed binary report, or NoMarker
    fresh,    \* whether the marker is younger than the last install (auxiliary)
    cut,      \* whether a verb died after it installed and before it dropped
              \* what its install superseded (auxiliary)
    verbs, deaths

vars == <<file, marker, image, panes, job, peek, fresh, cut, verbs, deaths>>

At(p, pc) == job[p].pc = pc
Goto(p, pc) == job' = [job EXCEPT ![p].pc = pc]
Rest(p) == IF p = "daemon" THEN "serve" ELSE "idle"

(* is_runnable and verify_runs: a file that was written and not yet made
   executable cannot be run. *)
Runnable(f) == f # NoFile /\ f.x
Reports(f, v) == Runnable(f) /\ f.v = v
Waiting == marker \in Version

(* rename(2) over the installed name: an image keeps its inode, so the one that
   ran the replaced file has no path any more, and the one that ran the source
   now runs the installed file. *)
Renamed(from) ==
    /\ file' = [file EXCEPT !["current"] = file[from], ![from] = NoFile]
    /\ image' = [image EXCEPT !.exe = IF @ = from THEN "current"
                                      ELSE IF @ = "current" THEN "gone" ELSE @]

Init ==
    /\ file = [n \in Name |-> IF n = "current" THEN [v |-> First, x |-> TRUE] ELSE NoFile]
    /\ marker = NoMarker
    /\ image = [exe |-> "current", v |-> First]
    /\ panes = {}
    /\ job = [p \in Process |-> [pc |-> IF p = "daemon" THEN "off" ELSE "idle",
                                 v |-> First, src |-> "next"]]
    /\ peek = NoMarker
    /\ fresh = FALSE /\ cut = FALSE
    /\ verbs = 0 /\ deaths = 0

-----------------------------------------------------------------------------
(* update::swap: drop the old `.prev`, link the installed file there, one rename.
   A swap that fails removes the link, and `promote_in` then discards the stage. *)

(* Faulty: a failed swap keeps the stage, to be tried again. *)
FailedKeepingStage(p) == Rest(p)

Failed(p) == IF job[p].src = "next" THEN "discard" ELSE "idle"
Swapped(p) == IF job[p].src = "staged" THEN "supersede"
              ELSE IF p = "daemon" THEN "exec" ELSE "idle"

SwapUnlink(p) ==
    /\ At(p, "unlink")
    /\ file' = [file EXCEPT !["prev"] = NoFile]
    /\ Goto(p, "link")
    /\ UNCHANGED <<marker, image, panes, peek, fresh, cut, verbs, deaths>>

SwapLink(p) ==
    /\ At(p, "link") /\ file["prev"] = NoFile
    /\ file' = [file EXCEPT !["prev"] = file["current"]]
    /\ Goto(p, "rename")
    /\ UNCHANGED <<marker, image, panes, peek, fresh, cut, verbs, deaths>>

(* hard_link fails: `.prev` exists again, or the file system refuses. *)
SwapLinkFails(p) ==
    /\ At(p, "link")
    /\ Goto(p, Failed(p))
    /\ UNCHANGED <<file, marker, image, panes, peek, fresh, cut, verbs, deaths>>

SwapRename(p) ==
    /\ At(p, "rename") /\ file[job[p].src] # NoFile
    /\ Renamed(job[p].src)
    /\ Goto(p, Swapped(p))
    /\ fresh' = (fresh /\ job[p].src = "next")
    /\ UNCHANGED <<marker, panes, peek, cut, verbs, deaths>>

(* The source is gone, or the file system refuses. *)
SwapRenameFails(p) ==
    /\ At(p, "rename")
    /\ file' = [file EXCEPT !["prev"] = NoFile]
    /\ Goto(p, Failed(p))
    /\ UNCHANGED <<marker, image, panes, peek, fresh, cut, verbs, deaths>>

-----------------------------------------------------------------------------
(* deferred::promote_in *)

Promote(p) ==
    /\ At(p, "promote")
    /\ job' = [job EXCEPT ![p] = IF Waiting
                                 THEN [pc |-> "check", v |-> marker, src |-> "next"]
                                 ELSE [@ EXCEPT !.pc = Rest(p)]]
    /\ UNCHANGED <<file, marker, image, panes, peek, fresh, cut, verbs, deaths>>

(* Faulty: the bytes are compared, the mode is trusted. *)
PromotableByBytes(v) == file["next"] # NoFile /\ file["next"].v = v

(* The stage is proven again: runnable, and the version the marker recorded. *)
Promotable(v) == Reports(file["next"], v)

PromoteCheck(p) ==
    /\ At(p, "check")
    /\ IF ~Promotable(job[p].v)
       THEN Goto(p, "discard") /\ UNCHANGED marker
       ELSE IF file["next"].v = file["current"].v
       THEN Goto(p, Rest(p)) /\ marker' = NoMarker
       ELSE Goto(p, "unlink") /\ UNCHANGED marker
    /\ UNCHANGED <<file, image, panes, peek, fresh, cut, verbs, deaths>>

(* discard_in, and the second half of clear_superseded_pending. *)
Discard(p) ==
    /\ At(p, "discard")
    /\ file' = [file EXCEPT !["next"] = NoFile]
    /\ Goto(p, "unmark")
    /\ UNCHANGED <<marker, image, panes, peek, fresh, cut, verbs, deaths>>

Unmark(p) ==
    /\ At(p, "unmark")
    /\ marker' = NoMarker
    /\ Goto(p, Rest(p))
    /\ UNCHANGED <<file, image, panes, peek, fresh, cut, verbs, deaths>>

-----------------------------------------------------------------------------
(* The daemon's start. *)

(* The file named is executed; `exe` is "other" for the second installation. *)
Start(exe) ==
    /\ At("daemon", "off")
    /\ Overlaps \/ At("cli", "idle")
    /\ exe = "current" => Runnable(file["current"])
    /\ image' = [exe |-> exe, v |-> IF exe = "current" THEN file["current"].v ELSE Elsewhere]
    /\ Goto("daemon", "read")
    /\ UNCHANGED <<file, marker, panes, peek, fresh, cut, verbs, deaths>>

(* same_file: the marker's target is the file this process runs. *)
Ours == image.exe = "current"

StartRead ==
    /\ At("daemon", "read")
    /\ job' = [job EXCEPT !["daemon"] = IF Waiting /\ Ours
                                        THEN [@ EXCEPT !.pc = "confirm", !.v = marker]
                                        ELSE [@ EXCEPT !.pc = "serve"]]
    /\ UNCHANGED <<file, marker, image, panes, peek, fresh, cut, verbs, deaths>>

(* Confirm before promoting.  The marker is read again before it is cleared, and
   `.prev` is released only when it was. *)
StartConfirm ==
    /\ At("daemon", "confirm")
    /\ LET v == job["daemon"].v IN
       IF ~Reports(file["current"], v)
       THEN Goto("daemon", "promote") /\ UNCHANGED marker
       ELSE /\ Goto("daemon", IF marker = v THEN "release" ELSE "serve")
            /\ marker' = IF marker = v THEN NoMarker ELSE marker
    /\ UNCHANGED <<file, image, panes, peek, fresh, cut, verbs, deaths>>

StartRelease ==
    /\ At("daemon", "release")
    /\ file' = [file EXCEPT !["prev"] = NoFile]
    /\ Goto("daemon", "serve")
    /\ UNCHANGED <<marker, image, panes, peek, fresh, cut, verbs, deaths>>

(* reexec_into: the new image goes through the start again; a failed exec serves
   the image it has. *)
Exec ==
    /\ At("daemon", "exec")
    /\ IF Runnable(file["current"])
       THEN /\ image' = [exe |-> "current", v |-> file["current"].v]
            /\ Goto("daemon", "read")
       ELSE Goto("daemon", "serve") /\ UNCHANGED image
    /\ UNCHANGED <<file, marker, panes, peek, fresh, cut, verbs, deaths>>

Spawn ==
    /\ At("daemon", "serve")
    /\ \E q \in Panes \ panes : panes' = panes \union {q}
    /\ UNCHANGED <<file, marker, image, job, peek, fresh, cut, verbs, deaths>>

Exit ==
    /\ \E q \in panes : panes' = panes \ {q}
    /\ UNCHANGED <<file, marker, image, job, peek, fresh, cut, verbs, deaths>>

Stop ==
    /\ At("daemon", "serve")
    /\ Goto("daemon", "off")
    /\ panes' = {}
    /\ UNCHANGED <<file, marker, image, peek, fresh, cut, verbs, deaths>>

-----------------------------------------------------------------------------
(* The command line. *)

(* UpdateLock, held for the verb; a daemon in its start takes no notice of it. *)
Verb ==
    /\ At("cli", "idle")
    /\ Overlaps \/ job["daemon"].pc \in {"off", "serve"}
    /\ verbs < MaxVerbs
    /\ verbs' = verbs + 1

(* update::stage: a candidate that is not the installed file is copied beside it,
   and then made executable. *)
ServerStage(v) ==
    /\ Verb
    /\ file["current"] # NoFile => file["current"].v # v
    /\ file' = [file EXCEPT !["staged"] = [v |-> v, x |-> FALSE]]
    /\ image' = [image EXCEPT !.exe = IF @ = "staged" THEN "gone" ELSE @]
    /\ job' = [job EXCEPT !["cli"] = [pc |-> "chmod", v |-> v, src |-> "staged"]]
    /\ UNCHANGED <<marker, panes, peek, fresh, cut, deaths>>

ServerChmod ==
    /\ At("cli", "chmod")
    /\ file' = [file EXCEPT !["staged"].x = TRUE]
    /\ Goto("cli", "handoff")
    /\ UNCHANGED <<marker, image, panes, peek, fresh, cut, verbs, deaths>>

(* The candidate does not run, is not a server, or another handoff is under way. *)
ServerRefuse ==
    /\ At("cli", "handoff")
    /\ file' = [file EXCEPT !["staged"] = NoFile]
    /\ Goto("cli", "idle")
    /\ UNCHANGED <<marker, image, panes, peek, fresh, cut, verbs, deaths>>

ServerNoDaemon ==
    /\ At("cli", "handoff") /\ At("daemon", "off")
    /\ Goto("cli", "unlink")
    /\ UNCHANGED <<file, marker, image, panes, peek, fresh, cut, verbs, deaths>>

(* wait_for_takeover succeeds: the staged file serves, with the panes. *)
ServerTookOver ==
    /\ At("cli", "handoff") /\ At("daemon", "serve")
    /\ image' = [exe |-> "staged", v |-> job["cli"].v]
    /\ Goto("cli", "unlink")
    /\ UNCHANGED <<file, marker, panes, peek, fresh, cut, verbs, deaths>>

(* The handoff failed: defer_install keeps the artifact as `.next`. *)
ServerHandoffFails ==
    /\ At("cli", "handoff")
    /\ file' = [file EXCEPT !["next"] = [v |-> job["cli"].v, x |-> FALSE]]
    /\ Goto("cli", "keep")
    /\ UNCHANGED <<marker, image, panes, peek, fresh, cut, verbs, deaths>>

(* set_executable_like, by path: the file may have been taken away meanwhile. *)
KeepChmod ==
    /\ At("cli", "keep")
    /\ IF file["next"] = NoFile
       THEN /\ file' = [file EXCEPT !["staged"] = NoFile]
            /\ Goto("cli", "idle")
       ELSE /\ file' = [file EXCEPT !["next"].x = TRUE]
            /\ Goto("cli", "mark")
    /\ UNCHANGED <<marker, image, panes, peek, fresh, cut, verbs, deaths>>

(* write_marker_in truncates and then writes. *)
MarkOpen ==
    /\ At("cli", "mark")
    /\ marker' = Torn
    /\ Goto("cli", "marking")
    /\ UNCHANGED <<file, image, panes, peek, fresh, cut, verbs, deaths>>

MarkWrite ==
    /\ At("cli", "marking")
    /\ marker' = job["cli"].v
    /\ file' = [file EXCEPT !["staged"] = NoFile]
    /\ fresh' = TRUE
    /\ Goto("cli", "idle")
    /\ UNCHANGED <<image, panes, peek, cut, verbs, deaths>>

(* Faulty: an install leaves what waited before it. *)
SupersedeNothing ==
    /\ At("cli", "supersede")
    /\ Goto("cli", "idle")
    /\ UNCHANGED <<file, marker, image, panes, peek, fresh, cut, verbs, deaths>>

(* clear_superseded_pending *)
Supersede ==
    /\ At("cli", "supersede")
    /\ Goto("cli", IF Waiting THEN "discard" ELSE "idle")
    /\ UNCHANGED <<file, marker, image, panes, peek, fresh, cut, verbs, deaths>>

Rollback ==
    /\ Verb
    /\ file["prev"] # NoFile
    /\ Renamed("prev")
    /\ fresh' = FALSE
    /\ job' = [job EXCEPT !["cli"].pc = "supersede", !["cli"].src = "staged"]
    /\ UNCHANGED <<marker, panes, peek, cut, deaths>>

(* apply_now: the window is read from the daemon if one serves, and a machine with
   no socket has no panes. *)
ApplyNow ==
    /\ Verb
    /\ Waiting
    /\ At("daemon", "serve") => panes = {}
    /\ Goto("cli", "promote")
    /\ UNCHANGED <<file, marker, image, panes, peek, fresh, cut, deaths>>

(* pending_status runs the installed file, and then clears the marker if it names
   what that reported. *)
StatusRead ==
    /\ peek = NoMarker /\ Waiting /\ Runnable(file["current"])
    /\ peek' = file["current"].v
    /\ UNCHANGED <<file, marker, image, panes, job, fresh, cut, verbs, deaths>>

StatusClear ==
    /\ peek # NoMarker
    /\ peek' = NoMarker
    /\ marker' = IF marker = peek THEN NoMarker ELSE marker
    /\ UNCHANGED <<file, image, panes, job, fresh, cut, verbs, deaths>>

-----------------------------------------------------------------------------
(* A process dies: its locks go with it, its files stay as they are. *)
Installing(j) == j.pc = "supersede" \/ (j.pc \in {"discard", "unmark"} /\ j.src = "staged")

Die(p) ==
    /\ job[p].pc \notin {"off", "idle"}
    /\ deaths < MaxDeaths
    /\ deaths' = deaths + 1
    /\ Goto(p, IF p = "daemon" THEN "off" ELSE "idle")
    /\ panes' = IF p = "daemon" THEN {} ELSE panes
    /\ cut' = (cut \/ (p = "cli" /\ Installing(job[p])))
    /\ UNCHANGED <<file, marker, image, peek, fresh, verbs>>

DaemonStep ==
    \/ SwapUnlink("daemon") \/ SwapLink("daemon") \/ SwapLinkFails("daemon")
    \/ SwapRename("daemon") \/ SwapRenameFails("daemon")
    \/ Promote("daemon") \/ PromoteCheck("daemon") \/ Discard("daemon") \/ Unmark("daemon")
    \/ StartRead \/ StartConfirm \/ StartRelease \/ Exec

CliStep ==
    \/ SwapUnlink("cli") \/ SwapLink("cli") \/ SwapLinkFails("cli")
    \/ SwapRename("cli") \/ SwapRenameFails("cli")
    \/ Promote("cli") \/ PromoteCheck("cli") \/ Discard("cli") \/ Unmark("cli")
    \/ ServerChmod \/ ServerRefuse \/ ServerNoDaemon \/ ServerTookOver \/ ServerHandoffFails
    \/ KeepChmod \/ MarkOpen \/ MarkWrite \/ Supersede

Next ==
    \/ DaemonStep \/ CliStep
    \/ \E exe \in {"current", "other"} : Start(exe)
    \/ Spawn \/ Exit \/ Stop
    \/ \E v \in Version : ServerStage(v)
    \/ Rollback \/ ApplyNow
    \/ StatusRead \/ StatusClear
    \/ \E p \in Process : Die(p)

Spec == Init /\ [][Next]_vars

-----------------------------------------------------------------------------
(* Properties. *)

TypeOK ==
    /\ file \in [Name -> {NoFile} \union [v : Version, x : BOOLEAN]]
    /\ marker \in Version \union {NoMarker, Torn}
    /\ image \in [exe : Name \union {"other", "gone"}, v : Version]
    /\ panes \subseteq Panes
    /\ job \in [Process -> [pc : {"off", "idle", "serve", "read", "confirm", "release", "exec",
                                  "promote", "check", "unlink", "link", "rename", "discard",
                                  "unmark", "chmod", "handoff", "keep", "mark", "marking",
                                  "supersede"},
                            v : Version, src : {"staged", "next"}]]
    /\ peek \in Version \union {NoMarker}
    /\ fresh \in BOOLEAN /\ cut \in BOOLEAN
    /\ verbs \in Nat /\ deaths \in Nat

(* The design's first promise (update/mod.rs): the binary path is never missing
   and never something that cannot be run, whatever step an update dies at. *)
CurrentRunnable == Runnable(file["current"])

(* clear_superseded_pending: an update that waited is not promoted over an install
   or a rollback the operator made after it, unless that verb died before it could
   drop what waited. *)
NoDowngrade ==
    [][\A p \in Process :
         At(p, "rename") /\ job[p].src = "next" /\ job'[p].pc # "rename"
             /\ file'["current"] # file["current"]
           => fresh \/ cut]_vars

(* start_decision does not defer in silence: once the installed binary has started,
   the update it found waiting has taken over, or was discarded. *)
StartSettles ==
    [][~At("daemon", "serve") /\ job'["daemon"].pc = "serve" /\ image'.exe = "current"
         => marker' \notin Version]_vars
=============================================================================
