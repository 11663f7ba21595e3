----------------------------- MODULE RelaySession -----------------------------
(***************************************************************************)
(* One relay session of a daemon: the connection's two pumps, the peer     *)
(* table between the read pump and the streams, the accept loop, the probe *)
(* of a configured peer, and directory requests.                           *)
(*                                                                         *)
(* A peer's stream is a channel with two ends: the sender sits in the      *)
(* table (`live`), the receiver in a stream or, until somebody opens one,  *)
(* parked (`pending`).  The read pump looks a peer up under the table's    *)
(* lock and uses what it found after the lock is given back.  The relay    *)
(* and the peers are external: envelopes, departures and reports reach the *)
(* read pump in the order of one queue.                                    *)
(***************************************************************************)
EXTENDS Naturals, Sequences

CONSTANTS
    Peers,         \* the devices that talk to this one
    Probed,        \* the configured peers this daemon opens a stream to itself
    Callers,       \* directory requests
    None,
    PeerQueue,     \* chunks a stream holds before it is broken (64)
    NewPeers,      \* announcements that wait for the accept loop (64)
    MaxEnvelopes,  \* bound on the envelopes a peer sends
    MaxSent,       \* bound on the chunks and requests this daemon sends
    ProbeAttempts, \* streams a probe opens before it gives up (5)
    MaxGone,       \* bound on departures
    Backlog        \* bound on what waits on the connection

ASSUME SessionAssumption ==
    /\ PeerQueue \in Nat \ {0} /\ NewPeers \in Nat \ {0} /\ Probed \subseteq Peers
    /\ MaxEnvelopes \in Nat /\ MaxSent \in Nat /\ ProbeAttempts \in Nat /\ MaxGone \in Nat
    /\ Backlog \in Nat \ {0}
    /\ None \notin Nat /\ None \notin Peers
    /\ None \notin [peer : Peers, n : Nat, to : Nat]

VARIABLES
    chan,       \* the channels: peer, chunks buffered, the receiver's place, the number
                \* of the last envelope taken, and whether one was left out before it
    live,       \* [Peers -> channel whose sender is in the table, or None]
    pending,    \* [Peers -> channel whose receiver is parked, or None]
    announced,  \* new_peers: peers for the accept loop, oldest first
    read,       \* read pump: the envelope in hand and the sender it cloned, or None
    incoming,   \* what the relay has put on the connection
    outbound,   \* items for the write pump
    writing,    \* what the write pump has written and not yet recorded, or None
    inflight,   \* recorded chunks that await a report: [seq, peer]
    slots,      \* parked reply slots: request numbers
    caller,     \* [Callers -> "idle", "waiting", "answered", "timeout" or "closed"]
    relay,      \* what the relay has received and not yet answered
    probe,      \* [Probed -> attempts made; it holds the table until it is done]
    session,    \* "up", "closed" (a pump has ended), "gone" (dropped)
    envelopes, seq, gone

vars == <<chan, live, pending, announced, read, incoming, outbound, writing,
          inflight, slots, caller, relay, probe, session, envelopes, seq, gone>>

Channels == DOMAIN chan
Over == ProbeAttempts + 1
Nobody == [p \in Peers |-> None]
NewChannel(p) == [peer |-> p, buf |-> 0, rx |-> "parked", last |-> 0, gap |-> FALSE]
Ended(ch) == [chan[ch] EXCEPT !.rx = "ended", !.buf = 0, !.last = 0]
Put(x, n) == [x EXCEPT !.buf = @ + 1, !.last = n, !.gap = @ \/ (x.last > 0 /\ n # x.last + 1)]
Up == session = "up"
Connected == Up /\ Len(incoming) < Backlog

(* Faulty: the pumps are not stopped, and keep the table when the session is dropped. *)
HeldByPumps == TRUE

(* The table lives as long as the session, or a probe that holds a handle to it. *)
Held == session # "gone" \/ \E p \in Probed : probe[p] # Over

(* A sender exists in the table, or as the clone the read pump works with. *)
Open(ch) == \/ Held /\ live[chan[ch].peer] = ch
            \/ Up /\ read # None /\ read.to = ch

Init ==
    /\ chan = <<>>
    /\ live = Nobody /\ pending = Nobody
    /\ announced = <<>>
    /\ read = None /\ incoming = <<>>
    /\ outbound = <<>> /\ writing = None
    /\ inflight = {} /\ slots = {}
    /\ caller = [c \in Callers |-> "idle"]
    /\ relay = <<>>
    /\ probe = [p \in Probed |-> 0]
    /\ session = "up"
    /\ envelopes = [p \in Peers |-> 0] /\ seq = 0 /\ gone = 0

-----------------------------------------------------------------------------
(* The relay and the peers (external). *)

PeerSends(p) ==
    /\ Connected /\ envelopes[p] < MaxEnvelopes
    /\ envelopes' = [envelopes EXCEPT ![p] = @ + 1]
    /\ incoming' = Append(incoming, [kind |-> "envelope", peer |-> p, of |-> None, n |-> envelopes[p] + 1])
    /\ UNCHANGED <<chan, live, pending, announced, read, outbound, writing,
                   inflight, slots, caller, relay, probe, session, seq, gone>>

(* The notice may overtake, and be overtaken by, what the peer sends. *)
PeerGone(p) ==
    /\ Connected /\ gone < MaxGone
    /\ gone' = gone + 1
    /\ incoming' = Append(incoming, [kind |-> "gone", peer |-> p, of |-> None, n |-> 0])
    /\ UNCHANGED <<chan, live, pending, announced, read, outbound, writing,
                   inflight, slots, caller, relay, probe, session, envelopes, seq>>

(* One report for a chunk, one reply for a request, in the order they came. *)
RelayAnswers ==
    /\ Connected /\ relay # <<>>
    /\ LET item == Head(relay) IN
       \E outcome \in IF item.kind = "data" THEN {"delivered", "failed"} ELSE {"reply"} :
         incoming' = Append(incoming, [kind |-> outcome, peer |-> item.peer, of |-> item.of, n |-> item.seq])
    /\ relay' = Tail(relay)
    /\ UNCHANGED <<chan, live, pending, announced, read, outbound, writing,
                   inflight, slots, caller, probe, session, envelopes, seq, gone>>

-----------------------------------------------------------------------------
(* Streams. *)

(* stream_for: the parked receiver with the failure slot it has, or a new channel
   that takes the peer's traffic over. *)
StreamFor(p) ==
    IF pending[p] # None
    THEN /\ chan' = [chan EXCEPT ![pending[p]].rx = "stream"]
         /\ pending' = [pending EXCEPT ![p] = None]
         /\ UNCHANGED live
    ELSE /\ chan' = Append(chan, [NewChannel(p) EXCEPT !.rx = "stream"])
         /\ live' = [live EXCEPT ![p] = Len(chan) + 1]
         /\ UNCHANGED pending

(* serve_loop: the next announced peer gets a stream, and a task to serve it. *)
Accept ==
    /\ Up /\ announced # <<>>
    /\ StreamFor(Head(announced))
    /\ announced' = Tail(announced)
    /\ UNCHANGED <<read, incoming, outbound, writing, inflight, slots, caller, relay, probe,
                   session, envelopes, seq, gone>>

(* serve: the probe opens a stream of its own for every attempt, and gives up. *)
ProbeStream(p) ==
    /\ probe[p] < ProbeAttempts
    /\ StreamFor(p)
    /\ probe' = [probe EXCEPT ![p] = @ + 1]
    /\ UNCHANGED <<announced, read, incoming, outbound, writing, inflight, slots,
                   caller, relay, session, envelopes, seq, gone>>

(* The peer has answered, or the last attempt has failed: the handle goes. *)
ProbeEnds(p) ==
    /\ probe[p] \in 1..ProbeAttempts
    /\ probe' = [probe EXCEPT ![p] = Over]
    /\ UNCHANGED <<chan, live, pending, announced, read, incoming, outbound, writing,
                   inflight, slots, caller, relay, session, envelopes, seq, gone>>

(* poll_read: a chunk; or, when there is none and no sender, the end. *)
StreamRead(ch) ==
    /\ chan[ch].rx = "stream"
    /\ IF chan[ch].buf > 0
       THEN chan' = [chan EXCEPT ![ch].buf = @ - 1]
       ELSE ~Open(ch) /\ chan' = [chan EXCEPT ![ch] = Ended(ch)]
    /\ UNCHANGED <<live, pending, announced, read, incoming, outbound, writing,
                   inflight, slots, caller, relay, probe, session, envelopes, seq, gone>>

(* The conversation on the stream is over: the receiver is dropped. *)
StreamDrop(ch) ==
    /\ chan[ch].rx = "stream"
    /\ chan' = [chan EXCEPT ![ch] = Ended(ch)]
    /\ UNCHANGED <<live, pending, announced, read, incoming, outbound, writing,
                   inflight, slots, caller, relay, probe, session, envelopes, seq, gone>>

(* The forwarding task of a stream hands a chunk to the write pump. *)
StreamWrite(ch) ==
    /\ Up /\ chan[ch].rx = "stream"
    /\ Len(outbound) + seq < MaxSent
    /\ outbound' = Append(outbound, [kind |-> "data", peer |-> chan[ch].peer, of |-> ch])
    /\ UNCHANGED <<chan, live, pending, announced, read, incoming, writing,
                   inflight, slots, caller, relay, probe, session, envelopes, seq, gone>>

-----------------------------------------------------------------------------
(* The read pump. *)

Received(kind) == Up /\ read = None /\ incoming # <<>> /\ Head(incoming).kind = kind

(* A new channel, its receiver parked; one that was parked before is dropped. *)
Parked(p, new) ==
    /\ chan' = Append([ch \in Channels |-> IF ch = pending[p] THEN Ended(ch) ELSE chan[ch]], new)
    /\ pending' = [pending EXCEPT ![p] = Len(chan) + 1]
    /\ live' = [live EXCEPT ![p] = Len(chan) + 1]

Announced(p) == IF Len(announced) < NewPeers THEN Append(announced, p) ELSE announced

(* The lookup, under the lock, and the announcement; what was found is used after. *)
ReadEnvelope ==
    /\ Received("envelope")
    /\ LET p == Head(incoming).peer
           n == Head(incoming).n
       IN  IF live[p] # None
           THEN /\ read' = [peer |-> p, n |-> n, to |-> live[p]]
                /\ UNCHANGED <<chan, live, pending, announced>>
           ELSE /\ Parked(p, NewChannel(p))
                /\ announced' = Announced(p)
                /\ read' = [peer |-> p, n |-> n, to |-> Len(chan) + 1]
    /\ incoming' = Tail(incoming)
    /\ UNCHANGED <<outbound, writing, inflight, slots, caller, relay,
                   probe, session, envelopes, seq, gone>>

Sending == Up /\ read # None

ReadDeliver ==
    /\ Sending
    /\ chan[read.to].rx # "ended" /\ chan[read.to].buf < PeerQueue
    /\ chan' = [chan EXCEPT ![read.to] = Put(@, read.n)]
    /\ read' = None
    /\ UNCHANGED <<live, pending, announced, incoming, outbound, writing, inflight,
                   slots, caller, relay, probe, session, envelopes, seq, gone>>

(* Faulty: the first chunk for a stream that has ended is parked, and the peer,
   which is known, is not announced. *)
AnnouncedAgainNever(p) == announced

AnnouncedAgain(p) == Announced(p)

(* Nobody reads for this peer: a fresh channel, whatever the table has now. *)
ReadReopen ==
    /\ Sending
    /\ chan[read.to].rx = "ended"
    /\ Parked(read.peer, Put(NewChannel(read.peer), read.n))
    /\ announced' = AnnouncedAgain(read.peer)
    /\ read' = None
    /\ UNCHANGED <<incoming, outbound, writing, inflight, slots, caller, relay, probe,
                   session, envelopes, seq, gone>>

(* Faulty: the chunk that does not fit is dropped, and the stream goes on. *)
UnlinkedNever(p) == live

Unlinked(p) == [live EXCEPT ![p] = None]

(* The stream does not keep up: it ends with a reason, rather than with a gap. *)
ReadFull ==
    /\ Sending
    /\ chan[read.to].rx # "ended" /\ chan[read.to].buf = PeerQueue
    /\ live' = Unlinked(read.peer)
    /\ read' = None
    /\ UNCHANGED <<chan, pending, announced, incoming, outbound, writing, inflight,
                   slots, caller, relay, probe, session, envelopes, seq, gone>>

(* break_stream, and out of the table.  The reason is not modelled. *)
ReadGone ==
    /\ Received("gone")
    /\ live' = [live EXCEPT ![Head(incoming).peer] = None]
    /\ incoming' = Tail(incoming)
    /\ UNCHANGED <<chan, pending, announced, read, outbound, writing, inflight, slots,
                   caller, relay, probe, session, envelopes, seq, gone>>

(* A report: of a chunk not recorded yet, it is dropped. *)
ReadStatus ==
    /\ Received("delivered") \/ Received("failed")
    /\ LET item == Head(incoming)
           entries == {x \in inflight : x.seq = item.n}
       IN  /\ inflight' = inflight \ entries
           /\ live' = IF item.kind = "failed" /\ entries # {}
                      THEN [live EXCEPT ![item.peer] = None] ELSE live
    /\ incoming' = Tail(incoming)
    /\ UNCHANGED <<chan, pending, announced, read, outbound, writing, slots, caller,
                   relay, probe, session, envelopes, seq, gone>>

ReadReply ==
    /\ Received("reply")
    /\ LET item == Head(incoming) IN
       /\ slots' = slots \ {item.n}
       /\ caller' = IF item.n \in slots /\ caller[item.of] = "waiting"
                    THEN [caller EXCEPT ![item.of] = "answered"] ELSE caller
    /\ incoming' = Tail(incoming)
    /\ UNCHANGED <<chan, live, pending, announced, read, outbound, writing, inflight,
                   relay, probe, session, envelopes, seq, gone>>

-----------------------------------------------------------------------------
(* The write pump and the callers. *)

Ask(c) ==
    /\ Up /\ caller[c] = "idle" /\ Len(outbound) + seq < MaxSent
    /\ caller' = [caller EXCEPT ![c] = "waiting"]
    /\ outbound' = Append(outbound, [kind |-> "request", peer |-> None, of |-> c])
    /\ UNCHANGED <<chan, live, pending, announced, read, incoming, writing, inflight,
                   slots, relay, probe, session, envelopes, seq, gone>>

AskTimeout(c) ==
    /\ caller[c] = "waiting"
    /\ caller' = [caller EXCEPT ![c] = IF session = "gone" THEN "closed" ELSE "timeout"]
    /\ UNCHANGED <<chan, live, pending, announced, read, incoming, outbound, writing,
                   inflight, slots, relay, probe, session, envelopes, seq, gone>>

Wire(item, n) == Append(relay, [kind |-> item.kind, peer |-> item.peer, of |-> item.of, seq |-> n])

(* Faulty: a request is on the wire before its slot is parked. *)
OnTakeSendFirst(item) ==
    /\ relay' = Wire(item, seq + 1)
    /\ UNCHANGED slots

(* A chunk is written first and recorded then; a request is parked first. *)
OnTake(item) ==
    IF item.kind = "data"
    THEN relay' = Wire(item, seq + 1) /\ UNCHANGED slots
    ELSE slots' = slots \union {seq + 1} /\ UNCHANGED relay

WriteTake ==
    /\ Up /\ writing = None /\ outbound # <<>>
    /\ OnTake(Head(outbound))
    /\ seq' = seq + 1
    /\ writing' = Head(outbound)
    /\ outbound' = Tail(outbound)
    /\ UNCHANGED <<chan, live, pending, announced, read, incoming, inflight, caller,
                   probe, session, envelopes, gone>>

WriteDone ==
    /\ Up /\ writing # None
    /\ IF writing.kind = "data"
       THEN /\ inflight' = inflight \union {[seq |-> seq, peer |-> writing.peer]}
            /\ UNCHANGED relay
       ELSE relay' = Wire(writing, seq) /\ UNCHANGED inflight
    /\ writing' = None
    /\ UNCHANGED <<chan, live, pending, announced, read, incoming, outbound, slots,
                   caller, probe, session, envelopes, seq, gone>>

-----------------------------------------------------------------------------
(* The end: a pump fails, and the accept loop lets the session go.  Dropping it
   aborts the pumps, which hold the table too. *)

Close ==
    /\ Up
    /\ session' = "closed"
    /\ read' = None /\ writing' = None
    /\ incoming' = <<>> /\ relay' = <<>> /\ outbound' = <<>>
    /\ inflight' = {} /\ slots' = {}
    /\ UNCHANGED <<chan, live, pending, announced, caller, probe, envelopes, seq, gone>>

Dropped ==
    /\ session = "closed"
    /\ session' = "gone"
    /\ pending' = Nobody /\ announced' = <<>>
    /\ chan' = [ch \in Channels |-> IF chan[ch].rx = "parked" THEN Ended(ch) ELSE chan[ch]]
    /\ UNCHANGED <<live, read, incoming, outbound, writing, inflight, slots, caller, relay,
                   probe, envelopes, seq, gone>>

-----------------------------------------------------------------------------
ReadPump ==
    \/ ReadEnvelope \/ ReadDeliver \/ ReadReopen \/ ReadFull
    \/ ReadGone \/ ReadStatus \/ ReadReply

AcceptLoop == Accept \/ Dropped

Next ==
    \/ ReadPump \/ AcceptLoop \/ WriteTake \/ WriteDone \/ RelayAnswers \/ Close
    \/ \E p \in Peers : PeerSends(p) \/ PeerGone(p)
    \/ \E p \in Probed : ProbeStream(p) \/ ProbeEnds(p)
    \/ \E ch \in Channels : StreamRead(ch) \/ StreamDrop(ch) \/ StreamWrite(ch)
    \/ \E c \in Callers : Ask(c) \/ AskTimeout(c)

Fairness ==
    /\ WF_vars(ReadPump) /\ WF_vars(AcceptLoop)
    /\ \A p \in Probed : WF_vars(ProbeStream(p) \/ ProbeEnds(p))
    /\ WF_vars(\E ch \in Channels : StreamRead(ch))

Spec == Init /\ [][Next]_vars /\ Fairness

-----------------------------------------------------------------------------
(* Properties. *)

(* "a gap in a byte stream is not something the layer above can detect": what one
   stream was given is a run of consecutive envelopes. *)
NoGapWithin == \A ch \in Channels : ~chan[ch].gap

(* "an answer that arrives before its slot exists is an answer nobody receives": a
   reply on its way to a caller that waits finds the slot parked. *)
ReplyFindsCaller ==
    \A i \in DOMAIN incoming :
      incoming[i].kind = "reply" /\ caller[incoming[i].of] = "waiting" => incoming[i].n \in slots

(* A peer's first flight is not lost on a stream that has ended: what is parked is
   handed to a stream while the session lasts. *)
FirstFlightServed == \A p \in Peers : pending[p] # None ~> (pending[p] = None)

(* Drop for RelaySession: when the session has gone, so has every stream of it. *)
StreamsEnd ==
    (session = "gone") ~> (\A ch \in Channels : chan[ch].rx # "stream")
=============================================================================
