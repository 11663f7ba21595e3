------------------------- MODULE DeferredUpdateProofs --------------------------
(***************************************************************************)
(* The three promises of the update, for every number of versions, verbs   *)
(* and deaths, when a daemon starts only between verbs (~Overlaps).  With  *)
(* an overlap the first of them fails (Update_torn.cfg).                   *)
(*                                                                         *)
(* The invariant follows a file from where it is written to where it is    *)
(* installed: what a swap is about to rename can be run, what `.prev` has  *)
(* was installed once, and what waits is younger than the last install, or *)
(* the verb that installed is still there to drop it.                      *)
(***************************************************************************)
EXTENDS DeferredUpdate, TLAPS

File == {NoFile} \union [v : Version, x : BOOLEAN]

Pc == {"off", "idle", "serve", "read", "confirm", "release", "exec", "promote", "check",
       "unlink", "link", "rename", "discard", "unmark", "chmod", "handoff", "keep", "mark",
       "marking", "supersede"}

Job == [pc : Pc, v : Version, src : {"staged", "next"}]

(* A verb and a start of the daemon are never under way together. *)
Exclusive == job["cli"].pc = "idle" \/ job["daemon"].pc \in {"off", "serve"}

(* Everything that may become the installed file can be run. *)
Sourced ==
    /\ Runnable(file["current"])
    /\ file["prev"] # NoFile => Runnable(file["prev"])
    /\ \A p \in Process :
         /\ job[p].pc \in {"unlink", "link", "rename"} => Runnable(file[job[p].src])
         /\ job[p].pc = "check" => job[p].src = "next"
    /\ job["cli"].pc \in {"chmod", "handoff", "supersede"} => job["cli"].src = "staged"
    /\ job["cli"].pc = "chmod" => file["staged"] # NoFile
    /\ job["cli"].pc = "handoff" => Runnable(file["staged"])
    /\ job["daemon"].src = "next"

(* What waits, or is being promoted, was kept after the last install. *)
Younger ==
    /\ Waiting => fresh \/ cut \/ Installing(job["cli"])
    /\ \A p \in Process :
         job[p].pc \in {"check", "unlink", "link", "rename"} /\ job[p].src = "next" => fresh \/ cut

(* What the start has read is what waits, until it no longer does. *)
Settling ==
    /\ job["daemon"].pc = "confirm" => marker = job["daemon"].v \/ ~Waiting
    /\ job["daemon"].pc = "release" => ~Waiting

IndInv == TypeOK /\ Exclusive /\ Sourced /\ Younger /\ Settling

-----------------------------------------------------------------------------
(* The type invariant, in the names used here. *)
LEMMA Types ==
    TypeOK <=> /\ file \in [Name -> File]
               /\ marker \in Version \union {NoMarker, Torn}
               /\ image \in [exe : Name \union {"other", "gone"}, v : Version]
               /\ panes \subseteq Panes
               /\ job \in [Process -> Job]
               /\ peek \in Version \union {NoMarker}
               /\ fresh \in BOOLEAN /\ cut \in BOOLEAN
               /\ verbs \in Nat /\ deaths \in Nat
  BY DEF TypeOK, File, Job, Pc

LEMMA NextTypes ==
    TypeOK' <=> /\ file' \in [Name -> File]
                /\ marker' \in Version \union {NoMarker, Torn}
                /\ image' \in [exe : Name \union {"other", "gone"}, v : Version]
                /\ panes' \subseteq Panes
                /\ job' \in [Process -> Job]
                /\ peek' \in Version \union {NoMarker}
                /\ fresh' \in BOOLEAN /\ cut' \in BOOLEAN
                /\ verbs' \in Nat /\ deaths' \in Nat
  BY DEF TypeOK, File, Job, Pc

(* A process moves on, and works on the same file. *)
LEMMA Moved ==
    ASSUME TypeOK, NEW p \in Process, NEW pc \in Pc, Goto(p, pc)
    PROVE  /\ job' \in [Process -> Job]
           /\ job'[p].pc = pc /\ job'[p].v = job[p].v /\ job'[p].src = job[p].src
           /\ \A q \in Process \ {p} : job'[q] = job[q]
  <1>1. job \in [Process -> Job] /\ job[p] \in Job
    BY Types
  <1>2. job' = [job EXCEPT ![p] = [job[p] EXCEPT !.pc = pc]]
    BY DEF Goto
  <1>3. /\ [job[p] EXCEPT !.pc = pc] \in Job
        /\ [job[p] EXCEPT !.pc = pc].pc = pc
        /\ [job[p] EXCEPT !.pc = pc].v = job[p].v
        /\ [job[p] EXCEPT !.pc = pc].src = job[p].src
    BY <1>1 DEF Job
  <1> QED BY <1>1, <1>2, <1>3

(* A file that is there has a version and a mode. *)
LEMMA Files ==
    ASSUME TypeOK, NEW n \in Name, file[n] # NoFile
    PROVE  file[n] \in [v : Version, x : BOOLEAN] /\ file[n].v \in Version
  <1>1. file[n] \in [v : Version, x : BOOLEAN]
    BY Types DEF File
  <1> QED BY <1>1

LEMMA InitHolds == Init => IndInv
  <1> SUFFICES ASSUME Init PROVE IndInv
    OBVIOUS
  <1> USE DEF Init
  <1>1. [v |-> First, x |-> TRUE] \in File /\ [v |-> First, x |-> TRUE] # NoFile
    <2>1. [v |-> First, x |-> TRUE] \in [v : Version, x : BOOLEAN]
      BY UpdateAssumption
    <2> QED BY <2>1, UpdateAssumption DEF File
  <1>2. TypeOK
    <2>1. /\ [pc |-> "off", v |-> First, src |-> "next"] \in Job
          /\ [pc |-> "idle", v |-> First, src |-> "next"] \in Job
      BY UpdateAssumption DEF Job, Pc
    <2>2. job \in [Process -> Job]
      BY <2>1 DEF Process
    <2>3. file \in [Name -> File]
      BY <1>1 DEF File, Name
    <2>4. image \in [exe : Name \union {"other", "gone"}, v : Version]
      BY UpdateAssumption DEF Name
    <2> QED BY <2>2, <2>3, <2>4, Types, UpdateAssumption
  <1>3. Exclusive /\ Younger /\ Settling
    BY UpdateAssumption DEF Exclusive, Younger, Settling, Process, Waiting
  <1>4. Sourced
    BY <1>1 DEF Sourced, Process, Runnable, Name
  <1> QED BY <1>2, <1>3, <1>4 DEF IndInv

-----------------------------------------------------------------------------
(* update::swap *)

LEMMA SwapUnlinkKeeps == ASSUME IndInv, NEW p \in Process, SwapUnlink(p) PROVE IndInv'
  <1> USE DEF IndInv, SwapUnlink, At
  <1>0. job \in [Process -> Job] /\ file \in [Name -> File]
    BY Types
  <1>1. /\ job' \in [Process -> Job]
        /\ job'[p].pc = "link" /\ job'[p].v = job[p].v /\ job'[p].src = job[p].src
        /\ \A q \in Process \ {p} : job'[q] = job[q]
    BY Moved DEF Pc, Process
  <1>2. /\ file' \in [Name -> File] /\ file'["prev"] = NoFile
        /\ \A n \in Name \ {"prev"} : file'[n] = file[n]
    BY <1>0 DEF File, Name
  <1>3. TypeOK'
    BY <1>1, <1>2, Types, NextTypes
  <1>4. Exclusive'
    BY <1>1 DEF Exclusive, Process
  <1>5. Sourced'
    BY <1>0, <1>1, <1>2 DEF Sourced, Process, Name, Runnable, Job
  <1>6. Younger'
    BY <1>0, <1>1 DEF Younger, Process, Waiting, Installing
  <1>7. Settling'
    BY <1>0, <1>1 DEF Settling, Process, Waiting
  <1> QED BY <1>3, <1>4, <1>5, <1>6, <1>7

LEMMA SwapLinkKeeps == ASSUME IndInv, NEW p \in Process, SwapLink(p) PROVE IndInv'
  <1> USE DEF IndInv, SwapLink, At
  <1>0. job \in [Process -> Job] /\ file \in [Name -> File]
    BY Types
  <1>1. /\ job' \in [Process -> Job]
        /\ job'[p].pc = "rename" /\ job'[p].v = job[p].v /\ job'[p].src = job[p].src
        /\ \A q \in Process \ {p} : job'[q] = job[q]
    BY Moved DEF Pc, Process
  <1>2. /\ file' \in [Name -> File] /\ file'["prev"] = file["current"]
        /\ \A n \in Name \ {"prev"} : file'[n] = file[n]
    BY <1>0 DEF File, Name
  <1>3. TypeOK'
    BY <1>1, <1>2, Types, NextTypes
  <1>4. Exclusive'
    BY <1>1 DEF Exclusive, Process
  <1>5. Sourced'
    BY <1>0, <1>1, <1>2 DEF Sourced, Process, Name, Runnable, Job
  <1>6. Younger'
    BY <1>0, <1>1 DEF Younger, Process, Waiting, Installing
  <1>7. Settling'
    BY <1>0, <1>1 DEF Settling, Process, Waiting
  <1> QED BY <1>3, <1>4, <1>5, <1>6, <1>7

LEMMA SwapLinkFailsKeeps == ASSUME IndInv, NEW p \in Process, SwapLinkFails(p) PROVE IndInv'
  <1> USE DEF IndInv, SwapLinkFails, At
  <1>0. job \in [Process -> Job] /\ file \in [Name -> File]
    BY Types
  <1>1. /\ job' \in [Process -> Job]
        /\ job'[p].pc = Failed(p) /\ job'[p].v = job[p].v /\ job'[p].src = job[p].src
        /\ \A q \in Process \ {p} : job'[q] = job[q]
    BY Moved DEF Pc, Process, Failed
  <1>2. file' \in [Name -> File] /\ \A n \in Name : file'[n] = file[n]
    BY <1>0
  <1>3. TypeOK'
    BY <1>1, <1>2, Types, NextTypes
  <1>4. Exclusive'
    BY <1>1 DEF Exclusive, Process, Failed
  <1>5. Sourced'
    BY <1>0, <1>1, <1>2 DEF Sourced, Process, Name, Runnable, Job, Failed
  <1>6. Younger'
    BY <1>0, <1>1 DEF Younger, Process, Waiting, Installing, Failed
  <1>7. Settling'
    BY <1>0, <1>1 DEF Settling, Process, Waiting, Failed
  <1> QED BY <1>3, <1>4, <1>5, <1>6, <1>7

LEMMA SwapRenameKeeps == ASSUME IndInv, NEW p \in Process, SwapRename(p) PROVE IndInv'
  <1> USE DEF IndInv, SwapRename, At
  <1> DEFINE src == job[p].src
  <1>0. job \in [Process -> Job] /\ file \in [Name -> File] /\ src \in {"staged", "next"}
    BY Types DEF Job
  <1>1. /\ job' \in [Process -> Job]
        /\ job'[p].pc = Swapped(p) /\ job'[p].v = job[p].v /\ job'[p].src = job[p].src
        /\ \A q \in Process \ {p} : job'[q] = job[q]
    BY Moved DEF Pc, Process, Swapped
  <1>2. /\ file' \in [Name -> File] /\ file'["current"] = file[src] /\ file'[src] = NoFile
        /\ \A n \in Name \ {"current", src} : file'[n] = file[n]
    BY <1>0 DEF File, Name, Renamed
  <1>a. image' \in [exe : Name \union {"other", "gone"}, v : Version]
    BY Types DEF Renamed, Name
  <1>b. fresh' = (fresh /\ src = "next") /\ fresh' \in BOOLEAN
    OBVIOUS
  <1> HIDE DEF src
  <1>3. TypeOK'
    BY <1>1, <1>2, Types, NextTypes, <1>a, <1>b
  <1>4. Exclusive'
    BY <1>1, <1>b DEF Exclusive, Process, Swapped
  <1>5. Sourced'
    BY <1>0, <1>1, <1>2, <1>b DEF Sourced, Process, Name, Runnable, Job, Exclusive, Swapped, src
  <1>6. Younger'
    <2>1. CASE src = "next"
      BY <1>0, <1>1, <1>b, <2>1 DEF Younger, Process, Waiting, Installing, Swapped, src
    <2>2. CASE src = "staged"
      <3>1. p = "cli" /\ job'["cli"].pc = "supersede" /\ job["daemon"].pc \in {"off", "serve"}
        BY <1>1, <2>2 DEF Sourced, Swapped, Exclusive, Process, src
      <3> QED BY <1>1, <3>1 DEF Younger, Process, Installing
    <2> QED BY <1>0, <2>1, <2>2
  <1>7. Settling'
    BY <1>0, <1>1, <1>b DEF Settling, Process, Waiting, Swapped, Exclusive
  <1> QED BY <1>3, <1>4, <1>5, <1>6, <1>7

LEMMA SwapRenameFailsKeeps == ASSUME IndInv, NEW p \in Process, SwapRenameFails(p) PROVE IndInv'
  <1> USE DEF IndInv, SwapRenameFails, At
  <1>0. job \in [Process -> Job] /\ file \in [Name -> File]
    BY Types
  <1>1. /\ job' \in [Process -> Job]
        /\ job'[p].pc = Failed(p) /\ job'[p].v = job[p].v /\ job'[p].src = job[p].src
        /\ \A q \in Process \ {p} : job'[q] = job[q]
    BY Moved DEF Pc, Process, Failed
  <1>2. /\ file' \in [Name -> File] /\ file'["prev"] = NoFile
        /\ \A n \in Name \ {"prev"} : file'[n] = file[n]
    BY <1>0 DEF File, Name
  <1>3. TypeOK'
    BY <1>1, <1>2, Types, NextTypes
  <1>4. Exclusive'
    BY <1>1 DEF Exclusive, Process, Failed
  <1>5. Sourced'
    BY <1>0, <1>1, <1>2 DEF Sourced, Process, Name, Runnable, Job, Failed
  <1>6. Younger'
    BY <1>0, <1>1 DEF Younger, Process, Waiting, Installing, Failed
  <1>7. Settling'
    BY <1>0, <1>1 DEF Settling, Process, Waiting, Failed
  <1> QED BY <1>3, <1>4, <1>5, <1>6, <1>7

-----------------------------------------------------------------------------
(* deferred::promote_in *)

LEMMA PromoteKeeps == ASSUME IndInv, NEW p \in Process, Promote(p) PROVE IndInv'
  <1> USE DEF IndInv, Promote, At
  <1>0. job \in [Process -> Job] /\ file \in [Name -> File]
    BY Types
  <1>a. CASE Waiting
    <2>1. [pc |-> "check", v |-> marker, src |-> "next"] \in Job
      BY <1>a DEF Waiting, Job, Pc
    <2>2. /\ job' \in [Process -> Job]
          /\ job'[p].pc = "check" /\ job'[p].src = "next"
          /\ \A q \in Process \ {p} : job'[q] = job[q]
      BY <1>0, <1>a, <2>1
    <2>3. TypeOK'
      BY <2>2, Types, NextTypes
    <2>4. Exclusive' /\ Sourced'
      BY <1>0, <2>2 DEF Exclusive, Sourced, Process
    <2>5. Younger' /\ Settling'
      BY <1>0, <1>a, <2>2 DEF Younger, Settling, Waiting, Process, Installing, Exclusive
    <2> QED BY <2>3, <2>4, <2>5
  <1>b. CASE ~Waiting
    <2>1. [job[p] EXCEPT !.pc = Rest(p)] \in Job
      BY <1>0 DEF Rest, Job, Pc
    <2>2. /\ job' \in [Process -> Job]
          /\ job'[p].pc = Rest(p) /\ job'[p].src = job[p].src
          /\ \A q \in Process \ {p} : job'[q] = job[q]
      BY <1>0, <1>b, <2>1 DEF Job
    <2>3. TypeOK'
      BY <2>2, Types, NextTypes
    <2>4. Exclusive' /\ Sourced'
      BY <1>0, <2>2 DEF Exclusive, Sourced, Process, Rest
    <2>5. Younger' /\ Settling'
      BY <1>0, <1>b, <2>2 DEF Younger, Settling, Waiting, Process, Rest
    <2> QED BY <2>3, <2>4, <2>5
  <1> QED BY <1>a, <1>b

LEMMA PromoteCheckKeeps == ASSUME IndInv, NEW p \in Process, PromoteCheck(p) PROVE IndInv'
  <1> USE DEF IndInv, PromoteCheck, At
  <1>0. job \in [Process -> Job] /\ file \in [Name -> File]
    BY Types
  <1> DEFINE same == file["next"].v = file["current"].v
             pc == IF ~Promotable(job[p].v) THEN "discard" ELSE IF same THEN Rest(p) ELSE "unlink"
  <1>p. Goto(p, pc) /\ marker' \in {marker, NoMarker} /\ pc \in Pc
    BY DEF Pc, Rest
  <1>q. /\ pc \in {"discard", "unlink", Rest(p)}
        /\ pc = "unlink" => Runnable(file["next"])
    BY DEF Promotable, Reports, Rest, Process
  <1> HIDE DEF pc
  <1>1. /\ job' \in [Process -> Job]
        /\ job'[p].pc = pc /\ job'[p].v = job[p].v /\ job'[p].src = job[p].src
        /\ \A q \in Process \ {p} : job'[q] = job[q]
    BY <1>p, Moved DEF Pc, Process
  <1>2. file' \in [Name -> File] /\ \A n \in Name : file'[n] = file[n]
    BY <1>0
  <1>3. TypeOK'
    BY <1>1, <1>2, Types, NextTypes, <1>p
  <1>4. Exclusive'
    BY <1>1, <1>p, <1>q, UpdateAssumption DEF Exclusive, Process, Rest
  <1>5. Sourced'
    BY <1>0, <1>1, <1>2, <1>p, <1>q, UpdateAssumption DEF Sourced, Process, Name, Runnable, Job, Rest
  <1>6. Younger'
    BY <1>0, <1>1, <1>p, <1>q, UpdateAssumption DEF Younger, Process, Waiting, Installing, Rest, Exclusive
  <1>7. Settling'
    BY <1>0, <1>1, <1>p, <1>q, UpdateAssumption DEF Settling, Process, Waiting, Rest, Exclusive
  <1> QED BY <1>3, <1>4, <1>5, <1>6, <1>7

LEMMA DiscardKeeps == ASSUME IndInv, NEW p \in Process, Discard(p) PROVE IndInv'
  <1> USE DEF IndInv, Discard, At
  <1>0. job \in [Process -> Job] /\ file \in [Name -> File]
    BY Types
  <1>1. /\ job' \in [Process -> Job]
        /\ job'[p].pc = "unmark" /\ job'[p].v = job[p].v /\ job'[p].src = job[p].src
        /\ \A q \in Process \ {p} : job'[q] = job[q]
    BY Moved DEF Pc, Process
  <1>2. /\ file' \in [Name -> File] /\ file'["next"] = NoFile
        /\ \A n \in Name \ {"next"} : file'[n] = file[n]
    BY <1>0 DEF File, Name
  <1>3. TypeOK'
    BY <1>1, <1>2, Types, NextTypes
  <1>4. Exclusive'
    BY <1>1 DEF Exclusive, Process
  <1>5. Sourced'
    BY <1>0, <1>1, <1>2 DEF Sourced, Process, Name, Runnable, Job, Exclusive
  <1>6. Younger'
    BY <1>0, <1>1 DEF Younger, Process, Waiting, Installing
  <1>7. Settling'
    BY <1>0, <1>1 DEF Settling, Process, Waiting
  <1> QED BY <1>3, <1>4, <1>5, <1>6, <1>7

LEMMA UnmarkKeeps == ASSUME IndInv, NEW p \in Process, Unmark(p) PROVE IndInv'
  <1> USE DEF IndInv, Unmark, At
  <1>0. job \in [Process -> Job] /\ file \in [Name -> File]
    BY Types
  <1>1. /\ job' \in [Process -> Job]
        /\ job'[p].pc = Rest(p) /\ job'[p].v = job[p].v /\ job'[p].src = job[p].src
        /\ \A q \in Process \ {p} : job'[q] = job[q]
    BY Moved DEF Pc, Process, Rest
  <1>2. file' \in [Name -> File] /\ \A n \in Name : file'[n] = file[n]
    BY <1>0
  <1>3. TypeOK'
    BY <1>1, <1>2, Types, NextTypes
  <1>4. Exclusive'
    BY <1>1, UpdateAssumption DEF Exclusive, Process, Rest
  <1>5. Sourced'
    BY <1>0, <1>1, <1>2, UpdateAssumption DEF Sourced, Process, Name, Runnable, Job, Rest
  <1>6. Younger'
    BY <1>0, <1>1, UpdateAssumption DEF Younger, Process, Waiting, Installing, Rest
  <1>7. Settling'
    BY <1>0, <1>1, UpdateAssumption DEF Settling, Process, Waiting, Rest
  <1> QED BY <1>3, <1>4, <1>5, <1>6, <1>7

-----------------------------------------------------------------------------
(* The daemon's start. *)

LEMMA StartKeeps == ASSUME IndInv, ~Overlaps, NEW exe \in {"current", "other"}, Start(exe) PROVE IndInv'
  <1> USE DEF IndInv, Start, At
  <1>0. job \in [Process -> Job] /\ file \in [Name -> File]
    BY Types
  <1>a. image' \in [exe : Name \union {"other", "gone"}, v : Version]
    BY Files, UpdateAssumption DEF Name, Runnable
  <1>1. /\ job' \in [Process -> Job]
        /\ job'["daemon"].pc = "read" /\ job'["daemon"].v = job["daemon"].v /\ job'["daemon"].src = job["daemon"].src
        /\ \A q \in Process \ {"daemon"} : job'[q] = job[q]
    BY Moved DEF Pc, Process
  <1>2. file' \in [Name -> File] /\ \A n \in Name : file'[n] = file[n]
    BY <1>0
  <1>3. TypeOK'
    BY <1>1, <1>2, Types, NextTypes, <1>a
  <1>4. Exclusive'
    BY <1>1 DEF Exclusive, Process
  <1>5. Sourced'
    BY <1>0, <1>1, <1>2 DEF Sourced, Process, Name, Runnable, Job
  <1>6. Younger'
    BY <1>0, <1>1 DEF Younger, Process, Waiting, Installing
  <1>7. Settling'
    BY <1>0, <1>1 DEF Settling, Process, Waiting
  <1> QED BY <1>3, <1>4, <1>5, <1>6, <1>7

LEMMA StartReadKeeps == ASSUME IndInv, StartRead PROVE IndInv'
  <1> USE DEF IndInv, StartRead, At
  <1> DEFINE goes == Waiting /\ Ours
             to == IF goes THEN [job["daemon"] EXCEPT !.pc = "confirm", !.v = marker]
                   ELSE [job["daemon"] EXCEPT !.pc = "serve"]
  <1>0. job \in [Process -> Job] /\ file \in [Name -> File] /\ job["daemon"] \in Job
    BY Types DEF Process
  <1>a. /\ to \in Job /\ to.src = job["daemon"].src /\ to.pc \in {"confirm", "serve"}
        /\ to.pc = "confirm" => to.v = marker
    BY <1>0 DEF Job, Pc, Waiting
  <1>b. job' = [job EXCEPT !["daemon"] = to]
    OBVIOUS
  <1> HIDE DEF to
  <1>1. job' \in [Process -> Job] /\ job'["daemon"] = to /\ job'["cli"] = job["cli"]
    BY <1>0, <1>a, <1>b DEF Process
  <1>2. file' \in [Name -> File] /\ \A n \in Name : file'[n] = file[n]
    BY <1>0
  <1>3. TypeOK'
    BY <1>1, <1>2, Types, NextTypes
  <1>4. Exclusive'
    BY <1>1, <1>a DEF Exclusive, Process
  <1>5. Sourced'
    BY <1>0, <1>1, <1>2, <1>a DEF Sourced, Process, Name, Runnable, Job
  <1>6. Younger'
    BY <1>0, <1>1, <1>a DEF Younger, Process, Waiting, Installing
  <1>7. Settling'
    BY <1>0, <1>1, <1>a DEF Settling, Process, Waiting
  <1> QED BY <1>3, <1>4, <1>5, <1>6, <1>7

LEMMA StartConfirmKeeps == ASSUME IndInv, StartConfirm PROVE IndInv'
  <1> USE DEF IndInv, StartConfirm, At
  <1>0. job \in [Process -> Job] /\ file \in [Name -> File]
    BY Types
  <1> DEFINE v == job["daemon"].v
             pc == IF ~Reports(file["current"], v) THEN "promote"
                   ELSE IF marker = v THEN "release" ELSE "serve"
  <1>p. Goto("daemon", pc) /\ pc \in Pc /\ pc \in {"promote", "release", "serve"}
    BY DEF Pc
  <1>q. marker' \in {marker, NoMarker} /\ (pc = "release" => marker' = NoMarker)
    OBVIOUS
  <1> HIDE DEF pc
  <1>1. /\ job' \in [Process -> Job]
        /\ job'["daemon"].pc = pc /\ job'["daemon"].v = job["daemon"].v /\ job'["daemon"].src = job["daemon"].src
        /\ \A q \in Process \ {"daemon"} : job'[q] = job[q]
    BY <1>p, Moved DEF Pc, Process
  <1>2. file' \in [Name -> File] /\ \A n \in Name : file'[n] = file[n]
    BY <1>0
  <1>3. TypeOK'
    BY <1>1, <1>2, Types, NextTypes, <1>q
  <1>4. Exclusive'
    BY <1>1, <1>p, <1>q, UpdateAssumption DEF Exclusive, Process
  <1>5. Sourced'
    BY <1>0, <1>1, <1>2, <1>p, <1>q, UpdateAssumption DEF Sourced, Process, Name, Runnable, Job
  <1>6. Younger'
    BY <1>0, <1>1, <1>p, <1>q, UpdateAssumption DEF Younger, Process, Waiting, Installing
  <1>7. Settling'
    BY <1>0, <1>1, <1>p, <1>q, UpdateAssumption DEF Settling, Process, Waiting
  <1> QED BY <1>3, <1>4, <1>5, <1>6, <1>7

LEMMA StartReleaseKeeps == ASSUME IndInv, StartRelease PROVE IndInv'
  <1> USE DEF IndInv, StartRelease, At
  <1>0. job \in [Process -> Job] /\ file \in [Name -> File]
    BY Types
  <1>1. /\ job' \in [Process -> Job]
        /\ job'["daemon"].pc = "serve" /\ job'["daemon"].v = job["daemon"].v /\ job'["daemon"].src = job["daemon"].src
        /\ \A q \in Process \ {"daemon"} : job'[q] = job[q]
    BY Moved DEF Pc, Process
  <1>2. /\ file' \in [Name -> File] /\ file'["prev"] = NoFile
        /\ \A n \in Name \ {"prev"} : file'[n] = file[n]
    BY <1>0 DEF File, Name
  <1>3. TypeOK'
    BY <1>1, <1>2, Types, NextTypes
  <1>4. Exclusive'
    BY <1>1 DEF Exclusive, Process
  <1>5. Sourced'
    BY <1>0, <1>1, <1>2 DEF Sourced, Process, Name, Runnable, Job
  <1>6. Younger'
    BY <1>0, <1>1 DEF Younger, Process, Waiting, Installing
  <1>7. Settling'
    BY <1>0, <1>1 DEF Settling, Process, Waiting
  <1> QED BY <1>3, <1>4, <1>5, <1>6, <1>7

LEMMA ExecKeeps == ASSUME IndInv, Exec PROVE IndInv'
  <1> USE DEF IndInv, Exec, At
  <1>0. job \in [Process -> Job] /\ file \in [Name -> File]
    BY Types
  <1>a. image' = [exe |-> "current", v |-> file["current"].v] /\ Goto("daemon", "read")
    BY DEF Sourced
  <1>b. image' \in [exe : Name \union {"other", "gone"}, v : Version]
    BY <1>a, Files DEF Name, Sourced, Runnable
  <1>1. /\ job' \in [Process -> Job]
        /\ job'["daemon"].pc = "read" /\ job'["daemon"].v = job["daemon"].v /\ job'["daemon"].src = job["daemon"].src
        /\ \A q \in Process \ {"daemon"} : job'[q] = job[q]
    BY <1>a, Moved DEF Pc, Process
  <1>2. file' \in [Name -> File] /\ \A n \in Name : file'[n] = file[n]
    BY <1>0
  <1>3. TypeOK'
    BY <1>1, <1>2, Types, NextTypes, <1>b
  <1>4. Exclusive'
    BY <1>1 DEF Exclusive, Process
  <1>5. Sourced'
    BY <1>0, <1>1, <1>2 DEF Sourced, Process, Name, Runnable, Job
  <1>6. Younger'
    BY <1>0, <1>1 DEF Younger, Process, Waiting, Installing
  <1>7. Settling'
    BY <1>0, <1>1 DEF Settling, Process, Waiting
  <1> QED BY <1>3, <1>4, <1>5, <1>6, <1>7

LEMMA PanesKeep == ASSUME IndInv, Spawn \/ Exit PROVE IndInv'
  <1>1. TypeOK'
    BY Types, NextTypes DEF IndInv, Spawn, Exit
  <1> QED BY <1>1 DEF IndInv, Spawn, Exit, Exclusive, Sourced, Younger, Settling, Waiting

LEMMA StopKeeps == ASSUME IndInv, Stop PROVE IndInv'
  <1> USE DEF IndInv, Stop, At
  <1>0. job \in [Process -> Job] /\ file \in [Name -> File]
    BY Types
  <1>1. /\ job' \in [Process -> Job]
        /\ job'["daemon"].pc = "off" /\ job'["daemon"].v = job["daemon"].v /\ job'["daemon"].src = job["daemon"].src
        /\ \A q \in Process \ {"daemon"} : job'[q] = job[q]
    BY Moved DEF Pc, Process
  <1>2. file' \in [Name -> File] /\ \A n \in Name : file'[n] = file[n]
    BY <1>0
  <1>3. TypeOK'
    BY <1>1, <1>2, Types, NextTypes
  <1>4. Exclusive'
    BY <1>1 DEF Exclusive, Process
  <1>5. Sourced'
    BY <1>0, <1>1, <1>2 DEF Sourced, Process, Name, Runnable, Job
  <1>6. Younger'
    BY <1>0, <1>1 DEF Younger, Process, Waiting, Installing
  <1>7. Settling'
    BY <1>0, <1>1 DEF Settling, Process, Waiting
  <1> QED BY <1>3, <1>4, <1>5, <1>6, <1>7

-----------------------------------------------------------------------------
(* The command line. *)

LEMMA ServerStageKeeps ==
    ASSUME IndInv, ~Overlaps, NEW v \in Version, ServerStage(v) PROVE IndInv'
  <1> USE DEF IndInv, ServerStage, Verb, At
  <1> DEFINE to == [pc |-> "chmod", v |-> v, src |-> "staged"]
             f == [v |-> v, x |-> FALSE]
  <1>0. job \in [Process -> Job] /\ file \in [Name -> File]
    BY Types
  <1>a. to \in Job /\ to.pc = "chmod" /\ to.src = "staged"
    BY DEF Job, Pc
  <1>b. f \in [v : Version, x : BOOLEAN]
    OBVIOUS
  <1>c. f \in File /\ f # NoFile
    BY <1>b, UpdateAssumption DEF File
  <1>d. job' = [job EXCEPT !["cli"] = to] /\ file' = [file EXCEPT !["staged"] = f]
    OBVIOUS
  <1>e. image' \in [exe : Name \union {"other", "gone"}, v : Version] /\ verbs' \in Nat
    BY Types DEF Name
  <1> HIDE DEF to, f
  <1>1. job' \in [Process -> Job] /\ job'["cli"] = to /\ job'["daemon"] = job["daemon"]
    BY <1>0, <1>a, <1>d DEF Process
  <1>2. /\ file' \in [Name -> File] /\ file'["staged"] # NoFile
        /\ \A n \in Name \ {"staged"} : file'[n] = file[n]
    BY <1>0, <1>c, <1>d DEF Name
  <1>3. TypeOK'
    BY <1>1, <1>2, Types, NextTypes, <1>e
  <1>4. Exclusive'
    BY <1>1, <1>a DEF Exclusive, Process
  <1>5. Sourced'
    BY <1>0, <1>1, <1>2, <1>a DEF Sourced, Process, Name, Runnable, Job
  <1>6. Younger'
    BY <1>0, <1>1, <1>a DEF Younger, Process, Waiting, Installing
  <1>7. Settling'
    BY <1>0, <1>1, <1>a DEF Settling, Process, Waiting
  <1> QED BY <1>3, <1>4, <1>5, <1>6, <1>7

LEMMA ServerChmodKeeps == ASSUME IndInv, ServerChmod PROVE IndInv'
  <1> USE DEF IndInv, ServerChmod, At
  <1>0. job \in [Process -> Job] /\ file \in [Name -> File]
    BY Types
  <1>a. file["staged"] # NoFile
    BY DEF Sourced
  <1>b. file["staged"] \in [v : Version, x : BOOLEAN]
    BY <1>a, Files DEF Name
  <1>c. [file["staged"] EXCEPT !.x = TRUE] \in [v : Version, x : BOOLEAN]
    BY <1>b
  <1>d. /\ [file["staged"] EXCEPT !.x = TRUE] \in File
        /\ Runnable([file["staged"] EXCEPT !.x = TRUE])
    BY <1>b, <1>c, UpdateAssumption DEF File, Runnable
  <1>1. /\ job' \in [Process -> Job]
        /\ job'["cli"].pc = "handoff" /\ job'["cli"].v = job["cli"].v /\ job'["cli"].src = job["cli"].src
        /\ \A q \in Process \ {"cli"} : job'[q] = job[q]
    BY Moved DEF Pc, Process
  <1>2. /\ file' \in [Name -> File] /\ Runnable(file'["staged"])
        /\ \A n \in Name \ {"staged"} : file'[n] = file[n]
    BY <1>0, <1>d DEF Name
  <1>3. TypeOK'
    BY <1>1, <1>2, Types, NextTypes
  <1>4. Exclusive'
    BY <1>1 DEF Exclusive, Process
  <1>5. Sourced'
    BY <1>0, <1>1, <1>2 DEF Sourced, Process, Name, Runnable, Job
  <1>6. Younger'
    BY <1>0, <1>1 DEF Younger, Process, Waiting, Installing
  <1>7. Settling'
    BY <1>0, <1>1 DEF Settling, Process, Waiting
  <1> QED BY <1>3, <1>4, <1>5, <1>6, <1>7

LEMMA ServerRefuseKeeps == ASSUME IndInv, ServerRefuse PROVE IndInv'
  <1> USE DEF IndInv, ServerRefuse, At
  <1>0. job \in [Process -> Job] /\ file \in [Name -> File]
    BY Types
  <1>1. /\ job' \in [Process -> Job]
        /\ job'["cli"].pc = "idle" /\ job'["cli"].v = job["cli"].v /\ job'["cli"].src = job["cli"].src
        /\ \A q \in Process \ {"cli"} : job'[q] = job[q]
    BY Moved DEF Pc, Process
  <1>2. /\ file' \in [Name -> File] /\ file'["staged"] = NoFile
        /\ \A n \in Name \ {"staged"} : file'[n] = file[n]
    BY <1>0 DEF File, Name
  <1>3. TypeOK'
    BY <1>1, <1>2, Types, NextTypes
  <1>4. Exclusive'
    BY <1>1 DEF Exclusive, Process
  <1>5. Sourced'
    BY <1>0, <1>1, <1>2 DEF Sourced, Process, Name, Runnable, Job, Exclusive
  <1>6. Younger'
    BY <1>0, <1>1 DEF Younger, Process, Waiting, Installing
  <1>7. Settling'
    BY <1>0, <1>1 DEF Settling, Process, Waiting
  <1> QED BY <1>3, <1>4, <1>5, <1>6, <1>7

LEMMA ServerNoDaemonKeeps == ASSUME IndInv, ServerNoDaemon PROVE IndInv'
  <1> USE DEF IndInv, ServerNoDaemon, At
  <1>0. job \in [Process -> Job] /\ file \in [Name -> File]
    BY Types
  <1>1. /\ job' \in [Process -> Job]
        /\ job'["cli"].pc = "unlink" /\ job'["cli"].v = job["cli"].v /\ job'["cli"].src = job["cli"].src
        /\ \A q \in Process \ {"cli"} : job'[q] = job[q]
    BY Moved DEF Pc, Process
  <1>2. file' \in [Name -> File] /\ \A n \in Name : file'[n] = file[n]
    BY <1>0
  <1>3. TypeOK'
    BY <1>1, <1>2, Types, NextTypes
  <1>4. Exclusive'
    BY <1>1 DEF Exclusive, Process
  <1>5. Sourced'
    BY <1>0, <1>1, <1>2 DEF Sourced, Process, Name, Runnable, Job
  <1>6. Younger'
    BY <1>0, <1>1 DEF Younger, Sourced, Process, Waiting, Installing
  <1>7. Settling'
    BY <1>0, <1>1 DEF Settling, Process, Waiting
  <1> QED BY <1>3, <1>4, <1>5, <1>6, <1>7

LEMMA ServerTookOverKeeps == ASSUME IndInv, ServerTookOver PROVE IndInv'
  <1> USE DEF IndInv, ServerTookOver, At
  <1>0. job \in [Process -> Job] /\ file \in [Name -> File]
    BY Types
  <1>a. image' \in [exe : Name \union {"other", "gone"}, v : Version]
    BY <1>0 DEF Name, Job, Process
  <1>1. /\ job' \in [Process -> Job]
        /\ job'["cli"].pc = "unlink" /\ job'["cli"].v = job["cli"].v /\ job'["cli"].src = job["cli"].src
        /\ \A q \in Process \ {"cli"} : job'[q] = job[q]
    BY Moved DEF Pc, Process
  <1>2. file' \in [Name -> File] /\ \A n \in Name : file'[n] = file[n]
    BY <1>0
  <1>3. TypeOK'
    BY <1>1, <1>2, Types, NextTypes, <1>a
  <1>4. Exclusive'
    BY <1>1 DEF Exclusive, Process
  <1>5. Sourced'
    BY <1>0, <1>1, <1>2 DEF Sourced, Process, Name, Runnable, Job
  <1>6. Younger'
    BY <1>0, <1>1 DEF Younger, Sourced, Process, Waiting, Installing
  <1>7. Settling'
    BY <1>0, <1>1 DEF Settling, Process, Waiting
  <1> QED BY <1>3, <1>4, <1>5, <1>6, <1>7

LEMMA ServerHandoffFailsKeeps == ASSUME IndInv, ServerHandoffFails PROVE IndInv'
  <1> USE DEF IndInv, ServerHandoffFails, At
  <1>0. job \in [Process -> Job] /\ file \in [Name -> File]
    BY Types
  <1>a. [v |-> job["cli"].v, x |-> FALSE] \in File
    BY <1>0 DEF File, Job, Process
  <1>1. /\ job' \in [Process -> Job]
        /\ job'["cli"].pc = "keep" /\ job'["cli"].v = job["cli"].v /\ job'["cli"].src = job["cli"].src
        /\ \A q \in Process \ {"cli"} : job'[q] = job[q]
    BY Moved DEF Pc, Process
  <1>2. file' \in [Name -> File] /\ \A n \in Name \ {"next"} : file'[n] = file[n]
    BY <1>0, <1>a DEF Name
  <1>3. TypeOK'
    BY <1>1, <1>2, Types, NextTypes
  <1>4. Exclusive'
    BY <1>1 DEF Exclusive, Process
  <1>5. Sourced'
    BY <1>0, <1>1, <1>2 DEF Sourced, Process, Name, Runnable, Job, Exclusive
  <1>6. Younger'
    BY <1>0, <1>1 DEF Younger, Process, Waiting, Installing
  <1>7. Settling'
    BY <1>0, <1>1 DEF Settling, Process, Waiting
  <1> QED BY <1>3, <1>4, <1>5, <1>6, <1>7

LEMMA KeepChmodKeeps == ASSUME IndInv, KeepChmod PROVE IndInv'
  <1> USE DEF IndInv, KeepChmod, At
  <1> DEFINE pc == IF file["next"] = NoFile THEN "idle" ELSE "mark"
  <1>0. job \in [Process -> Job] /\ file \in [Name -> File]
    BY Types
  <1>a. Goto("cli", pc) /\ pc \in Pc /\ pc \in {"idle", "mark"}
    BY DEF Pc
  <1> HIDE DEF pc
  <1>1. /\ job' \in [Process -> Job]
        /\ job'["cli"].pc = pc /\ job'["cli"].v = job["cli"].v /\ job'["cli"].src = job["cli"].src
        /\ \A q \in Process \ {"cli"} : job'[q] = job[q]
    BY <1>a, Moved DEF Pc, Process
  <1>2. /\ file' \in [Name -> File]
        /\ file'["current"] = file["current"] /\ file'["prev"] = file["prev"]
    <2>1. CASE file["next"] = NoFile
      BY <1>0, <2>1 DEF File, Name
    <2>2. CASE file["next"] # NoFile
      <3>1. file["next"] \in [v : Version, x : BOOLEAN]
        BY <2>2, Files DEF Name
      <3>2. [file["next"] EXCEPT !.x = TRUE] \in File
        BY <3>1 DEF File
      <3> QED BY <1>0, <2>2, <3>2 DEF Name
    <2> QED BY <2>1, <2>2
  <1>3. TypeOK'
    BY <1>1, <1>2, Types, NextTypes
  <1>4. Exclusive'
    BY <1>1, <1>a DEF Exclusive, Process
  <1>5. Sourced'
    BY <1>0, <1>1, <1>2, <1>a DEF Sourced, Process, Name, Runnable, Job, Exclusive
  <1>6. Younger'
    BY <1>0, <1>1, <1>a DEF Younger, Process, Waiting, Installing
  <1>7. Settling'
    BY <1>0, <1>1, <1>a DEF Settling, Process, Waiting
  <1> QED BY <1>3, <1>4, <1>5, <1>6, <1>7

LEMMA MarkOpenKeeps == ASSUME IndInv, MarkOpen PROVE IndInv'
  <1> USE DEF IndInv, MarkOpen, At
  <1>0. job \in [Process -> Job] /\ file \in [Name -> File]
    BY Types
  <1>1. /\ job' \in [Process -> Job]
        /\ job'["cli"].pc = "marking" /\ job'["cli"].v = job["cli"].v /\ job'["cli"].src = job["cli"].src
        /\ \A q \in Process \ {"cli"} : job'[q] = job[q]
    BY Moved DEF Pc, Process
  <1>2. file' \in [Name -> File] /\ \A n \in Name : file'[n] = file[n]
    BY <1>0
  <1>3. TypeOK'
    BY <1>1, <1>2, Types, NextTypes
  <1>4. Exclusive'
    BY <1>1, UpdateAssumption DEF Exclusive, Process
  <1>5. Sourced'
    BY <1>0, <1>1, <1>2, UpdateAssumption DEF Sourced, Process, Name, Runnable, Job
  <1>6. Younger'
    BY <1>0, <1>1, UpdateAssumption DEF Younger, Process, Waiting, Installing
  <1>7. Settling'
    BY <1>0, <1>1, UpdateAssumption DEF Settling, Process, Waiting, Exclusive
  <1> QED BY <1>3, <1>4, <1>5, <1>6, <1>7

LEMMA MarkWriteKeeps == ASSUME IndInv, MarkWrite PROVE IndInv'
  <1> USE DEF IndInv, MarkWrite, At
  <1>0. job \in [Process -> Job] /\ file \in [Name -> File]
    BY Types
  <1>a. marker' \in Version
    BY <1>0 DEF Job, Process
  <1>1. /\ job' \in [Process -> Job]
        /\ job'["cli"].pc = "idle" /\ job'["cli"].v = job["cli"].v /\ job'["cli"].src = job["cli"].src
        /\ \A q \in Process \ {"cli"} : job'[q] = job[q]
    BY Moved DEF Pc, Process
  <1>2. /\ file' \in [Name -> File] /\ file'["staged"] = NoFile
        /\ \A n \in Name \ {"staged"} : file'[n] = file[n]
    BY <1>0 DEF File, Name
  <1>3. TypeOK'
    BY <1>1, <1>2, Types, NextTypes, <1>a
  <1>4. Exclusive'
    BY <1>1 DEF Exclusive, Process
  <1>5. Sourced'
    BY <1>0, <1>1, <1>2 DEF Sourced, Process, Name, Runnable, Job, Exclusive
  <1>6. Younger'
    BY <1>0, <1>1 DEF Younger, Process, Waiting, Installing
  <1>7. Settling'
    BY <1>0, <1>1 DEF Settling, Process, Waiting, Exclusive
  <1> QED BY <1>3, <1>4, <1>5, <1>6, <1>7

LEMMA SupersedeKeeps == ASSUME IndInv, Supersede PROVE IndInv'
  <1> USE DEF IndInv, Supersede, At
  <1>0. job \in [Process -> Job] /\ file \in [Name -> File]
    BY Types
  <1> DEFINE pc == IF Waiting THEN "discard" ELSE "idle"
  <1>a. Goto("cli", pc) /\ pc \in Pc
    BY DEF Pc
  <1>b. pc \in {"discard", "idle"} /\ (Waiting => pc = "discard")
    OBVIOUS
  <1> HIDE DEF pc
  <1>1. /\ job' \in [Process -> Job]
        /\ job'["cli"].pc = pc /\ job'["cli"].v = job["cli"].v /\ job'["cli"].src = job["cli"].src
        /\ \A q \in Process \ {"cli"} : job'[q] = job[q]
    BY <1>a, Moved DEF Pc, Process
  <1>2. file' \in [Name -> File] /\ \A n \in Name : file'[n] = file[n]
    BY <1>0
  <1>3. TypeOK'
    BY <1>1, <1>2, Types, NextTypes
  <1>4. Exclusive'
    BY <1>1, <1>b DEF Exclusive, Process
  <1>5. Sourced'
    BY <1>0, <1>1, <1>2, <1>b DEF Sourced, Process, Name, Runnable, Job
  <1>6. Younger'
    BY <1>0, <1>1, <1>b DEF Younger, Sourced, Process, Waiting, Installing
  <1>7. Settling'
    BY <1>0, <1>1, <1>b DEF Settling, Process, Waiting
  <1> QED BY <1>3, <1>4, <1>5, <1>6, <1>7

LEMMA RollbackKeeps == ASSUME IndInv, ~Overlaps, Rollback PROVE IndInv'
  <1> USE DEF IndInv, Rollback, Verb, At
  <1> DEFINE to == [job["cli"] EXCEPT !.pc = "supersede", !.src = "staged"]
  <1>0. job \in [Process -> Job] /\ file \in [Name -> File] /\ job["cli"] \in Job
    BY Types DEF Process
  <1>a. to \in Job /\ to.pc = "supersede" /\ to.src = "staged"
    BY <1>0 DEF Job, Pc
  <1>b. job' = [job EXCEPT !["cli"] = to]
    BY <1>0 DEF Job, Process
  <1>c. image' \in [exe : Name \union {"other", "gone"}, v : Version] /\ verbs' \in Nat
    BY Types DEF Renamed, Name
  <1> HIDE DEF to
  <1>1. job' \in [Process -> Job] /\ job'["cli"] = to /\ job'["daemon"] = job["daemon"]
    BY <1>0, <1>a, <1>b DEF Process
  <1>2. /\ file' \in [Name -> File] /\ file'["current"] = file["prev"] /\ file'["prev"] = NoFile
        /\ \A n \in Name \ {"current", "prev"} : file'[n] = file[n]
    BY <1>0 DEF File, Name, Renamed
  <1>3. TypeOK'
    BY <1>1, <1>2, Types, NextTypes, <1>c
  <1>4. Exclusive'
    BY <1>1, <1>a DEF Exclusive, Process
  <1>5. Sourced'
    BY <1>0, <1>1, <1>2, <1>a DEF Sourced, Process, Name, Runnable, Job
  <1>6. Younger'
    BY <1>0, <1>1, <1>a DEF Younger, Process, Waiting, Installing
  <1>7. Settling'
    BY <1>0, <1>1, <1>a DEF Settling, Process, Waiting
  <1> QED BY <1>3, <1>4, <1>5, <1>6, <1>7

LEMMA ApplyNowKeeps == ASSUME IndInv, ~Overlaps, ApplyNow PROVE IndInv'
  <1> USE DEF IndInv, ApplyNow, At, Verb
  <1>0. job \in [Process -> Job] /\ file \in [Name -> File]
    BY Types
  <1>1. /\ job' \in [Process -> Job]
        /\ job'["cli"].pc = "promote" /\ job'["cli"].v = job["cli"].v /\ job'["cli"].src = job["cli"].src
        /\ \A q \in Process \ {"cli"} : job'[q] = job[q]
    BY Moved DEF Pc, Process
  <1>2. file' \in [Name -> File] /\ \A n \in Name : file'[n] = file[n]
    BY <1>0
  <1>3. TypeOK'
    BY <1>1, <1>2, Types, NextTypes
  <1>4. Exclusive'
    BY <1>1 DEF Exclusive, Process
  <1>5. Sourced'
    BY <1>0, <1>1, <1>2 DEF Sourced, Process, Name, Runnable, Job
  <1>6. Younger'
    BY <1>0, <1>1 DEF Younger, Process, Waiting, Installing
  <1>7. Settling'
    BY <1>0, <1>1 DEF Settling, Process, Waiting
  <1> QED BY <1>3, <1>4, <1>5, <1>6, <1>7

LEMMA StatusKeeps == ASSUME IndInv, StatusRead \/ StatusClear PROVE IndInv'
  <1> USE DEF IndInv
  <1>1. CASE StatusRead
    <2>1. peek' \in Version
      BY <1>1, Files DEF StatusRead, Name, Runnable
    <2>2. TypeOK'
      BY <1>1, <2>1, Types, NextTypes DEF StatusRead
    <2> QED BY <1>1, <2>2 DEF StatusRead, Exclusive, Sourced, Younger, Settling, Waiting
  <1>2. CASE StatusClear
    <2>1. marker' \in {marker, NoMarker}
      BY <1>2 DEF StatusClear
    <2>2. TypeOK'
      BY <1>2, <2>1, Types, NextTypes DEF StatusClear
    <2> QED BY <1>2, <2>1, <2>2, UpdateAssumption
            DEF StatusClear, Exclusive, Sourced, Younger, Settling, Waiting
  <1> QED BY <1>1, <1>2

LEMMA DieKeeps == ASSUME IndInv, NEW p \in Process, Die(p) PROVE IndInv'
  <1> USE DEF IndInv, Die, At
  <1>0. job \in [Process -> Job] /\ file \in [Name -> File]
    BY Types
  <1>a. cut' = (cut \/ (p = "cli" /\ Installing(job[p]))) /\ cut' \in BOOLEAN
    BY Types DEF Installing
  <1>b. panes' \subseteq Panes /\ deaths' \in Nat
    BY Types
  <1>1. /\ job' \in [Process -> Job]
        /\ job'[p].pc = (IF p = "daemon" THEN "off" ELSE "idle")
        /\ job'[p].v = job[p].v /\ job'[p].src = job[p].src
        /\ \A q \in Process \ {p} : job'[q] = job[q]
    BY Moved DEF Pc, Process
  <1>2. file' \in [Name -> File] /\ \A n \in Name : file'[n] = file[n]
    BY <1>0
  <1>3. TypeOK'
    BY <1>1, <1>2, Types, NextTypes, <1>a, <1>b
  <1>4. Exclusive'
    BY <1>1 DEF Exclusive, Process
  <1>5. Sourced'
    BY <1>0, <1>1, <1>2 DEF Sourced, Process, Name, Runnable, Job
  <1>6. Younger'
    BY <1>0, <1>1 DEF Younger, Process, Waiting, Installing
  <1>7. Settling'
    BY <1>0, <1>1 DEF Settling, Process, Waiting
  <1> QED BY <1>3, <1>4, <1>5, <1>6, <1>7

-----------------------------------------------------------------------------
LEMMA NextKeeps == ASSUME IndInv, ~Overlaps, [Next]_vars PROVE IndInv'
  <1>1. CASE DaemonStep
    BY <1>1, SwapUnlinkKeeps, SwapLinkKeeps, SwapLinkFailsKeeps, SwapRenameKeeps,
       SwapRenameFailsKeeps, PromoteKeeps, PromoteCheckKeeps, DiscardKeeps, UnmarkKeeps,
       StartReadKeeps, StartConfirmKeeps, StartReleaseKeeps, ExecKeeps
    DEF DaemonStep, Process
  <1>2. CASE CliStep
    BY <1>2, SwapUnlinkKeeps, SwapLinkKeeps, SwapLinkFailsKeeps, SwapRenameKeeps,
       SwapRenameFailsKeeps, PromoteKeeps, PromoteCheckKeeps, DiscardKeeps, UnmarkKeeps,
       ServerChmodKeeps, ServerRefuseKeeps, ServerNoDaemonKeeps, ServerTookOverKeeps,
       ServerHandoffFailsKeeps, KeepChmodKeeps, MarkOpenKeeps, MarkWriteKeeps, SupersedeKeeps
    DEF CliStep, Process
  <1>3. CASE \E exe \in {"current", "other"} : Start(exe)
    BY <1>3, StartKeeps
  <1>4. CASE Spawn \/ Exit \/ Stop
    BY <1>4, PanesKeep, StopKeeps
  <1>5. CASE (\E v \in Version : ServerStage(v)) \/ Rollback \/ ApplyNow
    BY <1>5, ServerStageKeeps, RollbackKeeps, ApplyNowKeeps
  <1>6. CASE StatusRead \/ StatusClear \/ \E p \in Process : Die(p)
    BY <1>6, StatusKeeps, DieKeeps
  <1>7. CASE UNCHANGED vars
    BY <1>7 DEF vars, IndInv, TypeOK, Exclusive, Sourced, Younger, Settling, Waiting
  <1> QED BY <1>1, <1>2, <1>3, <1>4, <1>5, <1>6, <1>7 DEF Next

(* When a daemon starts only between verbs, the invariant holds of every reachable
   state: in particular every variable has its type. *)
THEOREM Inductive == ASSUME ~Overlaps PROVE Spec => []IndInv
  <1>1. IndInv /\ [Next]_vars => IndInv'
    BY NextKeeps
  <1> QED BY <1>1, InitHolds, PTL DEF Spec

(* The binary path always names a file that can be run, at whatever step a process
   of the update or of the daemon's start dies (update/mod.rs, swap and rollback). *)
THEOREM CurrentRunnableTheorem == ASSUME ~Overlaps PROVE Spec => []CurrentRunnable
  <1>1. IndInv => CurrentRunnable
    BY DEF IndInv, Sourced, CurrentRunnable
  <1> QED BY <1>1, Inductive, PTL

(* An update that waited is never promoted over an install or a rollback made after
   it, unless that verb died between the two (clear_superseded_pending). *)
THEOREM NoDowngradeTheorem == ASSUME ~Overlaps PROVE Spec => NoDowngrade
  <1>1. IndInv =>
          \A p \in Process :
            At(p, "rename") /\ job[p].src = "next" /\ job'[p].pc # "rename"
                /\ file'["current"] # file["current"]
              => fresh \/ cut
    BY DEF IndInv, Younger, At
  <1> QED BY <1>1, Inductive, PTL DEF NoDowngrade

(* A step that ends the start of the installed binary leaves nothing waiting. *)
LEMMA SettledBy ==
    ASSUME IndInv, ~Overlaps, Next, ~At("daemon", "serve"), job'["daemon"].pc = "serve",
           image'.exe = "current"
    PROVE  marker' \notin Version
  <1>0. job \in [Process -> Job] /\ job["daemon"] \in Job /\ job["cli"] \in Job
    BY Types DEF IndInv, Process
  <1>d. \A pc \in Pc : Goto("daemon", pc) => job'["daemon"].pc = pc
    BY Moved DEF IndInv, Process
  <1>c. \A pc : Goto("cli", pc) => job'["daemon"] = job["daemon"]
    BY <1>0 DEF Goto, Process
  <1> USE <1>d, <1>c DEF At
  <1>1. CASE \E p \in Process : \/ SwapUnlink(p) \/ SwapLink(p) \/ SwapLinkFails(p)
                               \/ SwapRename(p) \/ SwapRenameFails(p)
    <2> PICK p \in Process : \/ SwapUnlink(p) \/ SwapLink(p) \/ SwapLinkFails(p)
                            \/ SwapRename(p) \/ SwapRenameFails(p)
      BY <1>1
    <2>1. CASE p = "cli"
      BY <2>1 DEF SwapUnlink, SwapLink, SwapLinkFails, SwapRename, SwapRenameFails
    <2>2. CASE p = "daemon"
      <3>1. job["daemon"].src = "next"
        BY DEF IndInv, Sourced
      <3> QED BY <2>2, <3>1 DEF SwapUnlink, SwapLink, SwapLinkFails, SwapRename, SwapRenameFails,
                                Failed, Swapped, Pc
    <2> QED BY <2>1, <2>2 DEF Process
  <1>2. CASE \E p \in Process : Promote(p)
    BY <1>0, <1>2 DEF Promote, Waiting, Process, Job
  <1>3. CASE \E p \in Process : PromoteCheck(p)
    BY <1>3, UpdateAssumption DEF PromoteCheck, Process, Pc
  <1>4. CASE \E p \in Process : Discard(p) \/ Unmark(p)
    BY <1>4, UpdateAssumption DEF Discard, Unmark, Process, Pc
  <1>5. CASE StartRead
    BY <1>0, <1>5 DEF StartRead, Waiting, Ours, Job, Process
  <1>6. CASE StartConfirm
    BY <1>6, UpdateAssumption DEF StartConfirm, IndInv, Settling, Waiting, Pc
  <1>7. CASE StartRelease
    BY <1>7 DEF StartRelease, IndInv, Settling, Waiting
  <1>8. CASE Exec
    BY <1>8 DEF Exec, IndInv, Sourced, Pc
  <1>9. CASE (\E exe \in {"current", "other"} : Start(exe)) \/ Spawn \/ Exit \/ Stop
    BY <1>9 DEF Start, Spawn, Exit, Stop, Pc
  <1>10. CASE ServerChmod \/ ServerRefuse \/ ServerNoDaemon \/ ServerTookOver \/ ServerHandoffFails
              \/ KeepChmod \/ MarkOpen \/ MarkWrite \/ Supersede
    BY <1>10 DEF ServerChmod, ServerRefuse, ServerNoDaemon, ServerTookOver, ServerHandoffFails,
       KeepChmod, MarkOpen, MarkWrite, Supersede
  <1>11. CASE \/ (\E v \in Version : ServerStage(v)) \/ Rollback \/ ApplyNow
             \/ StatusRead \/ StatusClear
    BY <1>0, <1>11 DEF ServerStage, Rollback, ApplyNow, StatusRead, StatusClear, Process
  <1>12. CASE \E p \in Process : Die(p)
    BY <1>12 DEF Die, Process, Pc
  <1> QED BY <1>1, <1>2, <1>3, <1>4, <1>5, <1>6, <1>7, <1>8, <1>9, <1>10, <1>11, <1>12
          DEF Next, DaemonStep, CliStep, Process

(* Once the installed binary serves, the update it found waiting at its start has
   taken over or was discarded (start_decision, promote_in). *)
THEOREM StartSettlesTheorem == ASSUME ~Overlaps PROVE Spec => StartSettles
  <1>1. IndInv /\ [Next]_vars =>
          [~At("daemon", "serve") /\ job'["daemon"].pc = "serve" /\ image'.exe = "current"
             => marker' \notin Version]_vars
    BY SettledBy
  <1> QED BY <1>1, Inductive, PTL DEF Spec, StartSettles
===============================================================================
