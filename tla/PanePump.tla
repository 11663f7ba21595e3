------------------------------- MODULE PanePump -------------------------------
(***************************************************************************)
(* One pane, seen at the granularity of its reader pump: the terminal's    *)
(* kernel buffer, the thread that reads it into the ring, the PauseGate    *)
(* that stops the thread, and the handoff that pauses it, snapshots the    *)
(* ring, seeds a second ring from the snapshot in another process, and     *)
(* either commits (the second pump runs, the first never again) or aborts  *)
(* (the first pump runs again).  Handoff is the same protocol with the     *)
(* pump as one Boolean; here the pump is a thread and a byte is a byte.    *)
(*                                                                         *)
(* The two processes of a handoff are the two Sides.  A handoff that       *)
(* committed leaves the roles swapped, and the side that exited is free    *)
(* for the next incoming process.                                          *)
(***************************************************************************)
EXTENDS RingBuffer

CONSTANTS
    Output,      \* the characters the child may write, each a sequence of bytes
    MaxStream,   \* bound on the bytes the child ever writes
    TtyCap,      \* bytes the terminal holds before the child blocks
    ChunkCap,    \* bytes one read returns at most (8192 in the code)
    MaxHandoffs  \* bound on the handoffs attempted

ASSUME PumpAssumption ==
    /\ Output \subseteq Seq(Bytes)
    /\ MaxStream \in Nat /\ MaxHandoffs \in Nat
    /\ TtyCap \in Nat \ {0} /\ ChunkCap \in Nat \ {0}

Sides == {"left", "right"}
Other(s) == IF s = "left" THEN "right" ELSE "left"

VARIABLES
    stream,     \* every byte the child has written (history)
    tty,        \* the bytes in the terminal's buffer
    exited,     \* whether the child has exited
    owner,      \* the side whose daemon serves the pane
    pump,       \* where each side's reader thread is
    chunk,      \* the bytes read and not yet pushed
    ring,       \* each side's RingBuffer
    closed,     \* Pane::closed
    requested,  \* GateState::pause_requested
    quiesced,   \* GateState::quiesced
    finished,   \* GateState::finished
    wake,       \* whether the wake channel holds a byte
    cut,        \* how far the handoff is
    snapshot,   \* the Scrollback the handoff carries
    handoffs    \* handoffs attempted

childVars == <<stream, tty, exited>>
pumpVars  == <<pump, chunk, ring, closed>>
gateVars  == <<requested, quiesced, finished, wake>>
cutVars   == <<owner, cut, snapshot, handoffs>>
vars == <<childVars, pumpVars, gateVars, cutVars>>

PumpPhases == {"none", "gate", "parked", "poll", "read", "push", "closing", "ended", "panicked"}
CutPhases  == {"idle", "asked", "waiting", "paused", "sent", "adopted", "committed"}

Rings == [lines : Seq(Seq(Chars)), pending : Seq(Chars), raw : Seq(Bytes),
          rawTruncated : BOOLEAN, dropped : Nat, droppedBytes : Nat]

TypeOK ==
    /\ stream \in Seq(Bytes) /\ tty \in Seq(Bytes) /\ exited \in BOOLEAN
    /\ Len(tty) <= TtyCap /\ Len(stream) <= MaxStream
    /\ owner \in Sides
    /\ pump \in [Sides -> PumpPhases]
    /\ chunk \in [Sides -> Seq(Bytes)]
    /\ ring \in [Sides -> Rings]
    /\ \A s \in Sides : Len(ring[s].lines) <= Capacity /\ Len(ring[s].raw) <= MaxJournal
    /\ \A s \in Sides : ByteLen(ring[s].pending) <= MaxLine
    /\ closed \in [Sides -> BOOLEAN]
    /\ requested \in [Sides -> BOOLEAN] /\ quiesced \in [Sides -> BOOLEAN]
    /\ finished \in [Sides -> BOOLEAN] /\ wake \in [Sides -> BOOLEAN]
    /\ cut \in CutPhases
    /\ snapshot \in Rings
    /\ handoffs \in 0..MaxHandoffs

-----------------------------------------------------------------------------
(* Faulty variants of actions defined below, which the specification does not
   use: the snapshot does not wait for the acknowledgement, ... *)
PauseUnanswered ==
    /\ cut = "waiting"
    /\ cut' = "paused"
    /\ UNCHANGED <<childVars, pumpVars, gateVars, owner, snapshot, handoffs>>

(* ... the adopted pump starts before the commit, ... *)
AdoptUnparked ==
    LET new == Other(owner)
    IN  /\ cut = "sent"
        /\ requested' = [requested EXCEPT ![new] = FALSE]
        /\ quiesced' = [quiesced EXCEPT ![new] = FALSE]
        /\ finished' = [finished EXCEPT ![new] = FALSE]
        /\ wake' = [wake EXCEPT ![new] = FALSE]
        /\ ring' = [ring EXCEPT ![new] = Seed(snapshot)]
        /\ chunk' = [chunk EXCEPT ![new] = <<>>]
        /\ closed' = [closed EXCEPT ![new] = FALSE]
        /\ pump' = [pump EXCEPT ![new] = "gate"]
        /\ cut' = "adopted"
        /\ UNCHANGED <<childVars, owner, snapshot, handoffs>>

(* ... the pumps taken over are never started, ... *)
ResumeForgotten ==
    /\ cut = "committed"
    /\ cut' = "idle"
    /\ UNCHANGED <<childVars, pumpVars, gateVars, owner, snapshot, handoffs>>

(* ... an aborted handoff leaves the pump parked. *)
AbortParked ==
    /\ cut \in {"waiting", "paused", "sent", "adopted"}
    /\ pump' = [pump EXCEPT ![Other(owner)] = "none"]
    /\ ring' = [ring EXCEPT ![Other(owner)] = EmptyRing]
    /\ snapshot' = EmptyRing
    /\ cut' = "idle"
    /\ UNCHANGED <<childVars, chunk, closed, gateVars, owner, handoffs>>

-----------------------------------------------------------------------------
(* The child: a program that may write for ever. *)

Write == \E char \in Output :
    /\ ~exited
    /\ Len(tty) + Len(char) <= TtyCap
    /\ Len(stream) + Len(char) <= MaxStream
    /\ tty' = tty \o char
    /\ stream' = stream \o char
    /\ UNCHANGED <<exited, pumpVars, gateVars, cutVars>>

ChildExit ==
    /\ ~exited
    /\ exited' = TRUE
    /\ UNCHANGED <<stream, tty, pumpVars, gateVars, cutVars>>

-----------------------------------------------------------------------------
(* The reader thread that Pane::assemble starts. *)

(* PauseGate::arrive, the top of the loop. *)
Arrive(s) ==
    /\ pump[s] = "gate"
    /\ IF requested[s]
       THEN /\ quiesced' = [quiesced EXCEPT ![s] = TRUE]
            /\ pump' = [pump EXCEPT ![s] = "parked"]
       ELSE /\ pump' = [pump EXCEPT ![s] = "poll"]
            /\ UNCHANGED quiesced
    /\ UNCHANGED <<childVars, chunk, ring, closed, requested, finished, wake, cutVars>>

(* The condvar loop inside arrive: it leaves when the request is gone, and
   never acknowledges a second time. *)
Unpark(s) ==
    /\ pump[s] = "parked"
    /\ ~requested[s]
    /\ pump' = [pump EXCEPT ![s] = "poll"]
    /\ UNCHANGED <<childVars, chunk, ring, closed, gateVars, cutVars>>

(* wait_for_master and drain_wake: the wake byte is looked at first. *)
PollWake(s) ==
    /\ pump[s] = "poll"
    /\ wake[s]
    /\ wake' = [wake EXCEPT ![s] = FALSE]
    /\ pump' = [pump EXCEPT ![s] = "gate"]
    /\ UNCHANGED <<childVars, chunk, ring, closed, requested, quiesced, finished, cutVars>>

PollMaster(s) ==
    /\ pump[s] = "poll"
    /\ ~wake[s]
    /\ tty # <<>> \/ exited
    /\ pump' = [pump EXCEPT ![s] = "read"]
    /\ UNCHANGED <<childVars, chunk, ring, closed, gateVars, cutVars>>

Read(s) ==
    /\ pump[s] = "read"
    /\ tty # <<>>
    /\ LET n == IF Len(tty) <= ChunkCap THEN Len(tty) ELSE ChunkCap
       IN  /\ chunk' = [chunk EXCEPT ![s] = SubSeq(tty, 1, n)]
           /\ tty' = SubSeq(tty, n + 1, Len(tty))
    /\ pump' = [pump EXCEPT ![s] = "push"]
    /\ UNCHANGED <<stream, exited, ring, closed, gateVars, cutVars>>

(* push_bytes under the ring's mutex.  A panic in it ends the thread there:
   neither `closed` nor the gate hears of it, the chunk is gone, and the mutex
   is poisoned, so every later reader gets the default: an empty ring. *)
Push(s) == \E pieces \in {NewPieces(ring[s], chunk[s])} :
    /\ pump[s] = "push"
    /\ IF \E k \in DOMAIN pieces : TruncatePanics(pieces[k])
       THEN /\ pump' = [pump EXCEPT ![s] = "panicked"]
            /\ ring' = [ring EXCEPT ![s] = EmptyRing]
       ELSE /\ pump' = [pump EXCEPT ![s] = "gate"]
            /\ ring' = [ring EXCEPT ![s] = PushPieces(ring[s], chunk[s], pieces)]
    /\ chunk' = [chunk EXCEPT ![s] = <<>>]
    /\ UNCHANGED <<childVars, closed, gateVars, cutVars>>

(* End of stream: the last slave closed and nothing is left to read. *)
EndOfStream(s) ==
    /\ pump[s] = "read"
    /\ tty = <<>> /\ exited
    /\ closed' = [closed EXCEPT ![s] = TRUE]
    /\ pump' = [pump EXCEPT ![s] = "closing"]
    /\ UNCHANGED <<childVars, chunk, ring, gateVars, cutVars>>

(* PauseGate::finished. *)
Finish(s) ==
    /\ pump[s] = "closing"
    /\ finished' = [finished EXCEPT ![s] = TRUE]
    /\ quiesced' = [quiesced EXCEPT ![s] = TRUE]
    /\ pump' = [pump EXCEPT ![s] = "ended"]
    /\ UNCHANGED <<childVars, chunk, ring, closed, requested, wake, cutVars>>

-----------------------------------------------------------------------------
(* The handoff, as the pane sees it: run_transfer on the owner's side, the
   adoption in run_handoff_inner on the other. *)

(* PauseGate::pause up to the flag: a pump that has ended is not asked. *)
PauseAsk ==
    /\ cut = "idle"
    /\ handoffs < MaxHandoffs
    /\ handoffs' = handoffs + 1
    /\ IF quiesced[owner]
       THEN cut' = "paused" /\ UNCHANGED requested
       ELSE cut' = "asked" /\ requested' = [requested EXCEPT ![owner] = TRUE]
    /\ UNCHANGED <<childVars, pumpVars, quiesced, finished, wake, owner, snapshot>>

PauseWake ==
    /\ cut = "asked"
    /\ wake' = [wake EXCEPT ![owner] = TRUE]
    /\ cut' = "waiting"
    /\ UNCHANGED <<childVars, pumpVars, requested, quiesced, finished, owner, snapshot, handoffs>>

PauseDone ==
    /\ cut = "waiting"
    /\ quiesced[owner]
    /\ cut' = "paused"
    /\ UNCHANGED <<childVars, pumpVars, gateVars, owner, snapshot, handoffs>>

(* handoff_pane: Pane::scrollback while the pump is paused. *)
Send ==
    /\ cut = "paused"
    /\ snapshot' = ring[owner]
    /\ cut' = "sent"
    /\ UNCHANGED <<childVars, pumpVars, gateVars, owner, handoffs>>

(* Pane::adopt_seeded: a new gate that already asks for a pause, a ring seeded
   from the snapshot, and a pump thread at its first arrive. *)
Adopt ==
    LET new == Other(owner)
    IN  /\ cut = "sent"
        /\ requested' = [requested EXCEPT ![new] = TRUE]
        /\ quiesced' = [quiesced EXCEPT ![new] = FALSE]
        /\ finished' = [finished EXCEPT ![new] = FALSE]
        /\ wake' = [wake EXCEPT ![new] = FALSE]
        /\ ring' = [ring EXCEPT ![new] = Seed(snapshot)]
        /\ chunk' = [chunk EXCEPT ![new] = <<>>]
        /\ closed' = [closed EXCEPT ![new] = FALSE]
        /\ pump' = [pump EXCEPT ![new] = "gate"]
        /\ cut' = "adopted"
        /\ UNCHANGED <<childVars, owner, snapshot, handoffs>>

(* A process exits, and its pane's memory with it. *)
ProcessExit(s) ==
    /\ pump' = [pump EXCEPT ![s] = "none"]
    /\ ring' = [ring EXCEPT ![s] = EmptyRing]
    /\ UNCHANGED <<chunk, closed>>

(* The commit byte is read: PausedPanes::commit leaves the old pump parked and
   the old process exits. *)
Commit ==
    /\ cut = "adopted"
    /\ owner' = Other(owner)
    /\ ProcessExit(owner)
    /\ snapshot' = EmptyRing
    /\ cut' = "committed"
    /\ UNCHANGED <<childVars, gateVars, handoffs>>

(* PauseGate::resume. *)
Resume(s) ==
    /\ requested' = [requested EXCEPT ![s] = FALSE]
    /\ quiesced' = [quiesced EXCEPT ![s] = finished[s]]
    /\ UNCHANGED <<finished, wake>>

(* The incoming daemon starts its pumps after the commit. *)
ResumeNew ==
    /\ cut = "committed"
    /\ Resume(owner)
    /\ cut' = "idle"
    /\ UNCHANGED <<childVars, pumpVars, owner, snapshot, handoffs>>

(* Any failure before the commit, a pump that did not answer in time included:
   PausedPanes::drop resumes the old pump, and the incoming process exits. *)
Abort ==
    /\ cut \in {"waiting", "paused", "sent", "adopted"}
    /\ Resume(owner)
    /\ ProcessExit(Other(owner))
    /\ snapshot' = EmptyRing
    /\ cut' = "idle"
    /\ UNCHANGED <<childVars, owner, handoffs>>

-----------------------------------------------------------------------------
Init ==
    /\ stream = <<>> /\ tty = <<>> /\ exited = FALSE
    /\ owner = "left"
    /\ pump = [s \in Sides |-> IF s = "left" THEN "gate" ELSE "none"]
    /\ chunk = [s \in Sides |-> <<>>]
    /\ ring = [s \in Sides |-> EmptyRing]
    /\ closed = [s \in Sides |-> FALSE]
    /\ requested = [s \in Sides |-> FALSE] /\ quiesced = [s \in Sides |-> FALSE]
    /\ finished = [s \in Sides |-> FALSE] /\ wake = [s \in Sides |-> FALSE]
    /\ cut = "idle" /\ snapshot = EmptyRing /\ handoffs = 0

PumpStep(s) ==
    \/ Arrive(s) \/ Unpark(s) \/ PollWake(s) \/ PollMaster(s)
    \/ Read(s) \/ Push(s) \/ EndOfStream(s) \/ Finish(s)

HandoffStep ==
    \/ PauseAsk \/ PauseWake \/ PauseDone \/ Send \/ Adopt \/ Commit
    \/ ResumeNew \/ Abort

Next == Write \/ ChildExit \/ HandoffStep \/ \E s \in Sides : PumpStep(s)

Spec == Init /\ [][Next]_vars

(* Threads are scheduled, every wait of a handoff is bounded (a transfer that
   does not go on aborts), and nobody has to start a handoff, to write or to
   exit. *)
Fairness ==
    /\ \A s \in Sides : WF_vars(PumpStep(s))
    /\ WF_vars(HandoffStep /\ cut # "idle")

FairSpec == Spec /\ Fairness

-----------------------------------------------------------------------------
(* The inductive strengthening of SnapshotExact and NoByteLost. *)

Ended == {"ended", "none"}

(* The gate of one side: an acknowledgement stands only while the pump is
   parked on the request that asked for it, or can never read again; a byte in
   flight belongs to a pump between its read and its push. *)
GateInv == \A s \in Sides :
    /\ quiesced[s] => (pump[s] = "parked" /\ requested[s]) \/ pump[s] \in Ended
    /\ pump[s] = "ended" => finished[s] /\ quiesced[s]
    /\ finished[s] => pump[s] \in Ended
    /\ chunk[s] # <<>> => pump[s] = "push"

(* The handoff: the owner's pump has answered from "paused" on, the other
   side's pump exists only between the adoption and the commit or the abort,
   and waits there with the sender's journal. *)
CutInv ==
    LET new == Other(owner)
    IN  /\ pump[owner] # "none"
        /\ cut # "adopted" => pump[new] = "none"
        /\ cut \in {"paused", "sent", "adopted"} => quiesced[owner]
        /\ cut \in {"sent", "adopted"} => snapshot = ring[owner]
        /\ cut = "adopted" =>
            /\ pump[new] \in {"gate", "parked"} /\ requested[new]
            /\ ring[new].raw = ring[owner].raw
            /\ ring[new].rawTruncated = ring[owner].rawTruncated

BytesInv ==
    LET r == ring[owner]
    IN  pump[owner] # "panicked" =>
            /\ ~r.rawTruncated => stream = r.raw \o chunk[owner] \o tty
            /\ r.rawTruncated => /\ MaxJournal <= Len(stream)
                                 /\ r.raw = SubSeq(stream, 1, MaxJournal)

IndInv == GateInv /\ CutInv /\ BytesInv

(* The bytes the pane's owner has taken in. *)
Consumed == SubSeq(stream, 1, Len(stream) - Len(tty) - Len(chunk[owner]))

(* No byte the child wrote is lost, doubled or reordered, through any number
   of pauses, aborted handoffs and committed ones: the journal, the chunk
   between a read and its push, and the terminal's buffer are the stream, and
   the process that does not own the pane holds no byte of it (PauseGate,
   Pane::adopt_seeded).  A journal that reached its cap is a prefix. *)
NoByteLost ==
    LET r == ring[owner]
    IN  pump[owner] # "panicked" =>
            /\ ~r.rawTruncated => stream = r.raw \o chunk[owner] \o tty
            /\ r.rawTruncated => r.raw = SubSeq(stream, 1, MaxJournal)
            /\ chunk[Other(owner)] = <<>>

(* What a client reads is a function of what the child wrote: the ring, its
   partial line, its journal and its counters are what the bytes taken in would
   give in ONE chunk, whatever the reads and the handoffs really were, and the
   ring an incoming daemon has seeded is already the same
   (RingBuffer::push_bytes, seed). *)
RingIsReference ==
    /\ ring[owner] = PushBytes(EmptyRing, Consumed)
    /\ cut = "adopted" => ring[Other(owner)] = ring[owner]

(* From the snapshot to the commit or the abort nothing moves under it: the
   snapshot is the owner's ring and no byte is in flight on either side, so
   either process can go on from it (Pane::pause: "on Ok(()) no byte is in
   flight, so a snapshot taken now is complete"). *)
SnapshotExact ==
    cut \in {"sent", "adopted"} =>
        snapshot = ring[owner] /\ \A s \in Sides : chunk[s] = <<>>

(* The reader thread outlives everything the child can write: an oversized
   line "is truncated" (MAX_LINE_BYTES). *)
PumpSurvives == pump[owner] # "panicked"

(* A child blocked on a full terminal is read again: no pause outlives its
   handoff (Pane::resume: "the agent behind the pane blocks for ever"). *)
ChildUnblocked == Len(tty) = TtyCap ~> Len(tty) < TtyCap

(* Everything the child wrote before it exited reaches the ring, and the pane
   is then reported closed by the daemon that owns it. *)
ExitSeen == exited ~> closed[owner] /\ tty = <<>>
=============================================================================
