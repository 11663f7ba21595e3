------------------------------ MODULE RelayRouter ------------------------------
(***************************************************************************)
(* The relay's router (arreo-relay/src/router.rs): the sessions of one     *)
(* account, the registry of live routes, the bounded outbound queue of     *)
(* each session and the store of RelayInbox.  A session is a reader task   *)
(* (handle_connection, read_loop) and a writer task; `job` holds what the  *)
(* reader has decided and not yet done, because the registry lock and the  *)
(* store lock are released in between.  A session is named by its token.   *)
(*                                                                         *)
(* The device at the other end is one of                                   *)
(*   "daemon"  drains from 1 once per session and never acks               *)
(*             (arreo-server/src/relay_client.rs, serve)                   *)
(*   "client"  drains from its cursor, acknowledges next_seq - 1 and later *)
(*             resumes from next_seq (RelayClient::drain_all and ack)      *)
(* The directory requests and presence are other components; a session     *)
(* that ends on a protocol error ends like one whose peer hung up.         *)
(***************************************************************************)
EXTENDS RelayInbox, Sequences, SequencesExt

CONSTANTS
    MaxSessions,    \* bound: the sessions of each device over the whole behaviour
    MaxHangUps,     \* bound: connections that a device closes of its own accord
    MaxCrashes,     \* bound: kill -9 of the relay
    OutboundQueue,  \* OUTBOUND_QUEUE
    From,           \* the device that sends a message
    Receivers,      \* bound: the devices that drain, hang up and ask things of the relay
    Consumer        \* "daemon" or "client"

ASSUME RouterAssumption ==
    /\ IsFiniteSet(Devices)
    /\ MaxSessions \in [Devices -> Nat]
    /\ MaxHangUps \in Nat
    /\ MaxCrashes \in Nat
    /\ OutboundQueue \in Nat \ {0}
    /\ From \in [Messages -> Devices]
    /\ \A m \in Messages : From[m] # To[m]
    /\ Receivers \subseteq Devices
    /\ Consumer \in {"daemon", "client"}

SessionCount == MapThenSumSet(LAMBDA d : MaxSessions[d], Devices)
Sessions == 1..SessionCount
NoSession == 0

VARIABLES
    known,      \* relay_device: the devices that have authenticated, ever
    live,       \* Live.senders: the session holding each device's route
    device,     \* the devices of the sessions registered so far, by token
    phase,      \* the reader task: "new", "reading", "leaving", "ended"
    conn,       \* the QUIC connection of the session is open
    writer,     \* the writer task runs: the queue's receiver exists
    out,        \* the outbound queue of a session
    job,        \* what the reader is in the middle of
    outcome,    \* what became of each message, as its sender is told
    carrier,    \* the session a delivered message was handed to
    heard,      \* the messages a device has read from its sockets
    cursor,     \* the consumer's cursor, kept across its sessions
    report,     \* next_seq of a drain report read and not yet acknowledged, or 0
    drained,    \* the session has asked for its drain (bound: one per session)
    told,       \* the drops that drain reports have told a device of
    hangUps,    \* counters of the bounds
    crashes

bounds == <<hangUps, crashes>>

sessionVars == <<phase, conn, writer, out, job>>
messageVars == <<outcome, carrier>>
deviceVars == <<heard, cursor, report, drained, told>>
routerVars == <<known, live, device, sessionVars, messageVars, deviceVars, bounds>>
vars == <<inboxVars, routerVars>>

(* Jobs of a reader and items of a queue. *)
Idle == <<"idle">>
Decided == ({"deliver"} \X Sessions \X Messages) \cup ({"queue"} \X Messages)
Draining == {"drain"} \X Seq(Messages) \X (Nat \ {0}) \X Nat
Notifying == {"gone"} \X SUBSET Sessions
Items == ({"envelope", "raw"} \X Messages)
            \cup {<<"status">>, <<"peer_gone">>, <<"displaced">>}
            \cup ({"report"} \X (Nat \ {0}) \X Nat)

(* "not sent" stands for the answers refused, no_such_device and offline. *)
Outcomes == {"unsent", "routing", "not sent", "queued", "delivered"}

(* The values the program can hold; no queue grows past OUTBOUND_QUEUE. *)
TypeOK ==
    /\ InboxTypeOK
    /\ known \subseteq Devices
    /\ live \in [Devices -> Sessions \cup {NoSession}]
    /\ device \in Seq(Devices) /\ Len(device) \in Sessions \cup {0}
    /\ phase \in [Sessions -> {"new", "reading", "leaving", "ended"}]
    /\ conn \in [Sessions -> BOOLEAN]
    /\ writer \in [Sessions -> BOOLEAN]
    /\ out \in [Sessions -> Seq(Items)]
    /\ \A s \in Sessions : Len(out[s]) <= OutboundQueue
    /\ job \in [Sessions -> {Idle} \cup Decided \cup Draining \cup Notifying]
    /\ outcome \in [Messages -> Outcomes]
    /\ carrier \in [Messages -> Sessions \cup {NoSession}]
    /\ heard \in [Devices -> SUBSET Messages]
    /\ cursor \in [Devices -> Nat \ {0}]
    /\ report \in [Sessions -> Nat]
    /\ drained \in [Sessions -> BOOLEAN]
    /\ told \in [Devices -> Nat]
    /\ hangUps \in 0..MaxHangUps
    /\ crashes \in 0..MaxCrashes

Init ==
    /\ InboxInit
    /\ known = {}
    /\ live = [d \in Devices |-> NoSession]
    /\ device = <<>>
    /\ phase = [s \in Sessions |-> "new"]
    /\ conn = [s \in Sessions |-> FALSE]
    /\ writer = [s \in Sessions |-> FALSE]
    /\ out = [s \in Sessions |-> <<>>]
    /\ job = [s \in Sessions |-> Idle]
    /\ outcome = [m \in Messages |-> "unsent"]
    /\ carrier = [m \in Messages |-> NoSession]
    /\ heard = [d \in Devices |-> {}]
    /\ cursor = [d \in Devices |-> 1]
    /\ report = [s \in Sessions |-> 0]
    /\ drained = [s \in Sessions |-> FALSE]
    /\ told = [d \in Devices |-> 0]
    /\ hangUps = 0
    /\ crashes = 0

-----------------------------------------------------------------------------
(* Sender::try_send: it fails on a full queue and when the receiver is gone. *)
Accepts(queues, s) == writer[s] /\ Len(queues[s]) < OutboundQueue
TrySend(queues, s, item) ==
    IF Accepts(queues, s) THEN [queues EXCEPT ![s] = Append(@, item)] ELSE queues

(* handle_connection up to the welcome: the device is on record from here on,
   but it has no route until the session registers. *)
Welcome(d) ==
    /\ d \notin known
    /\ known' = known \cup {d}
    /\ UNCHANGED <<inboxVars, live, device, sessionVars, messageVars, deviceVars, bounds>>

(* Router::register: the newest session takes the route, the one it displaces
   is told if its queue has room. *)
Displace(queues, old) ==
    IF old = NoSession THEN queues ELSE TrySend(queues, old, <<"displaced">>)

Register(d) ==
    LET s == Len(device) + 1
    IN  /\ d \in known
        /\ s \in Sessions
        /\ Cardinality({t \in DOMAIN device : device[t] = d}) < MaxSessions[d]
        /\ device' = Append(device, d)
        /\ live' = [live EXCEPT ![d] = s]
        /\ phase' = [phase EXCEPT ![s] = "reading"]
        /\ conn' = [conn EXCEPT ![s] = TRUE]
        /\ writer' = [writer EXCEPT ![s] = TRUE]
        /\ out' = Displace(out, live[d])
        /\ UNCHANGED <<inboxVars, known, job, messageVars, deviceVars, bounds>>

(* The reader waits for the next envelope of its device. *)
Ready(s) == phase[s] = "reading" /\ conn[s] /\ job[s] = Idle
Sends(s, m) == Ready(s) /\ From[m] = device[s] /\ outcome[m] = "unsent"

(* The reader finishes an envelope: the outcome, and a status into its own queue. *)
Answer(s, queues, m, what, t) ==
    /\ outcome' = [outcome EXCEPT ![m] = what]
    /\ carrier' = [carrier EXCEPT ![m] = t]
    /\ out' = TrySend(queues, s, <<"status">>)
    /\ job' = [job EXCEPT ![s] = Idle]
    /\ UNCHANGED <<known, live, device, phase, conn, writer, deviceVars, bounds>>

(* What read_loop answers without routing it: a heartbeat (a frame addressed to
   its own sender, answered `delivered`), a request of the directory, a kind that
   a device may not originate.  The reply goes into the session's own queue. *)
AnsweredHere(s) ==
    /\ Ready(s)
    /\ device[s] \in Receivers
    /\ out' = TrySend(out, s, <<"status">>)
    /\ UNCHANGED <<inboxVars, known, live, device, phase, conn, writer, job, messageVars,
                   deviceVars, bounds>>

(* decide refuses the header: another account, another sender, another kind, a
   malformed id. *)
FrameRefused(s, m) ==
    /\ Sends(s, m)
    /\ Answer(s, out, m, "not sent", NoSession)
    /\ UNCHANGED inboxVars

FrameToStranger(s, m) ==
    /\ Sends(s, m)
    /\ To[m] \notin known
    /\ Answer(s, out, m, "not sent", NoSession)
    /\ UNCHANGED inboxVars

(* Router::decide: the route is looked up under the registry lock, which is
   released before the envelope goes anywhere. *)
Decision(m) ==
    IF live[To[m]] # NoSession THEN <<"deliver", live[To[m]], m>> ELSE <<"queue", m>>

Decide(s, m) ==
    /\ Sends(s, m)
    /\ To[m] \in known
    /\ job' = [job EXCEPT ![s] = Decision(m)]
    /\ outcome' = [outcome EXCEPT ![m] = "routing"]
    /\ UNCHANGED <<inboxVars, known, live, device, phase, conn, writer, out, carrier,
                   deviceVars, bounds>>

(* Decision::Deliver: to the session that held the route when it was looked up. *)
DeliverOutcomeHopeful(t) == "delivered"  \* a faulty variant
DeliverOutcome(t) == IF Accepts(out, t) THEN "delivered" ELSE "not sent"

Deliver(s) ==
    \E t \in Sessions, m \in Messages :
        /\ job[s] = <<"deliver", t, m>>
        /\ Answer(s, TrySend(out, t, <<"envelope", m>>), m, DeliverOutcome(t),
                  IF DeliverOutcome(t) = "delivered" THEN t ELSE NoSession)
        /\ UNCHANGED inboxVars

(* Decision::Queue: commit to the inbox and answer, or refuse: a message over the
   budget always, any message when the store fails. *)
QueueFrame(s, now) ==
    \E m \in Messages :
        /\ job[s] = <<"queue", m>>
        /\ Enqueue(To[m], m, now)
        /\ Answer(s, out, m, "queued", NoSession)
QueueFails(s) ==
    \E m \in Messages :
        /\ job[s] = <<"queue", m>>
        /\ Answer(s, out, m, "not sent", NoSession)
        /\ UNCHANGED inboxVars

-----------------------------------------------------------------------------
(* RelayKind::Drain.  The rows and the report are read in one transaction... *)
FromSeq(s) == IF Consumer = "client" THEN cursor[device[s]] ELSE 1
DrainRequest(s, now) ==
    LET d == device[s]
        raws == SetToSortSeq(Batch(d, FromSeq(s), now), LAMBDA x, y : seq[x] < seq[y])
    IN  /\ Ready(s)
        /\ d \in Receivers
        /\ ~drained[s]
        /\ Drain(d, now)
        /\ job' = [job EXCEPT ![s] = <<"drain", raws, NextCursor(d, FromSeq(s), now), Dropped(d, now)>>]
        /\ drained' = [drained EXCEPT ![s] = TRUE]
        /\ UNCHANGED <<known, live, device, phase, conn, writer, out, messageVars,
                       heard, cursor, report, told, bounds>>

(* ... and then pushed one at a time; the first that does not fit ends the batch. *)
PushRow(s) ==
    /\ job[s][1] = "drain" /\ job[s][2] # <<>>
    /\ out' = TrySend(out, s, <<"raw", Head(job[s][2])>>)
    /\ job' = [job EXCEPT ![s] = <<"drain", IF Accepts(out, s) THEN Tail(@[2]) ELSE <<>>,
                                   @[3], @[4]>>]
    /\ UNCHANGED <<inboxVars, known, live, device, phase, conn, writer, messageVars,
                   deviceVars, bounds>>

(* The report always speaks of the whole batch. *)
PushReport(s) ==
    /\ job[s][1] = "drain" /\ job[s][2] = <<>>
    /\ out' = TrySend(out, s, <<"report", job[s][3], job[s][4]>>)
    /\ job' = [job EXCEPT ![s] = Idle]
    /\ UNCHANGED <<inboxVars, known, live, device, phase, conn, writer, messageVars,
                   deviceVars, bounds>>

(* RelayKind::Ack, from a consumer that holds everything before next_seq. *)
AckRequest(s) ==
    /\ Consumer = "client"
    /\ Ready(s)
    /\ report[s] # 0
    /\ Ack(device[s], report[s] - 1)
    /\ cursor' = [cursor EXCEPT ![device[s]] = report[s]]
    /\ report' = [report EXCEPT ![s] = 0]
    /\ UNCHANGED <<known, live, device, sessionVars, messageVars, heard, drained, told, bounds>>

HourlySweep(now) == Sweep(now) /\ UNCHANGED routerVars

-----------------------------------------------------------------------------
(* The writer task: one item to the socket, or the end of the task. *)
EndsWriterOnCloseOnly(s, item) == ~conn[s]  \* a faulty variant
EndsWriter(s, item) == ~conn[s] \/ item = <<"displaced">>

WriteItem(s) ==
    /\ writer[s] /\ out[s] # <<>>
    /\ ~EndsWriter(s, Head(out[s]))
    /\ \E item \in {Head(out[s])} :
          /\ heard' = IF item[1] \in {"envelope", "raw"}
                      THEN [heard EXCEPT ![device[s]] = @ \cup {item[2]}] ELSE heard
          /\ report' = IF item[1] = "report" THEN [report EXCEPT ![s] = item[2]] ELSE report
          /\ told' = IF item[1] = "report"
                     THEN [told EXCEPT ![device[s]] = @ + item[3]] ELSE told
    /\ out' = [out EXCEPT ![s] = Tail(@)]
    /\ UNCHANGED <<inboxVars, known, live, device, phase, conn, writer, job, messageVars,
                   cursor, drained, bounds>>

WriterEnds(s) ==
    /\ writer[s] /\ out[s] # <<>>
    /\ EndsWriter(s, Head(out[s]))
    /\ writer' = [writer EXCEPT ![s] = FALSE]
    /\ out' = [out EXCEPT ![s] = <<>>]
    /\ UNCHANGED <<inboxVars, known, live, device, phase, conn, job, messageVars,
                   deviceVars, bounds>>

(* The device closes its connection of its own accord, or because its stream
   ended with the writer. *)
Close(s) ==
    /\ conn[s]
    /\ conn' = [conn EXCEPT ![s] = FALSE]
    /\ UNCHANGED <<inboxVars, known, live, device, phase, writer, out, job, messageVars,
                   deviceVars, crashes>>
HangUp(s) ==
    /\ writer[s]
    /\ device[s] \in Receivers
    /\ hangUps < MaxHangUps
    /\ hangUps' = hangUps + 1
    /\ Close(s)
StreamEnds(s) == ~writer[s] /\ Close(s) /\ UNCHANGED hangUps

(* Router::deregister under the lock: only the holder of the route removes it,
   and takes down who is to be notified. *)
HoldsRouteUnchecked(s) == TRUE  \* a faulty variant
HoldsRoute(s) == live[device[s]] = s

Peers(s) == {live[d] : d \in Devices \ {device[s]}} \ {NoSession}

Deregister(s) ==
    /\ phase[s] = "reading" /\ ~conn[s] /\ job[s] = Idle
    /\ phase' = [phase EXCEPT ![s] = "leaving"]
    /\ IF HoldsRoute(s)
       THEN /\ live' = [live EXCEPT ![device[s]] = NoSession]
            /\ job' = [job EXCEPT ![s] = <<"gone", Peers(s)>>]
       ELSE UNCHANGED <<live, job>>
    /\ UNCHANGED <<inboxVars, known, device, conn, writer, out, messageVars, deviceVars, bounds>>

(* ... and the notices, after the lock is released. *)
NotifyPeers(s) ==
    /\ phase[s] = "leaving" /\ job[s] # Idle
    /\ out' = [t \in Sessions |-> IF t \in job[s][2]
                                  THEN TrySend(out, t, <<"peer_gone">>)[t] ELSE out[t]]
    /\ job' = [job EXCEPT ![s] = Idle]
    /\ UNCHANGED <<inboxVars, known, live, device, phase, conn, writer, messageVars,
                   deviceVars, bounds>>

(* The task drops its sender and awaits the writer, which ends on the first item
   it cannot write, or when the last clone of the sender is dropped. *)
LastSenderDropped(s) ==
    \A t \in Sessions :
        /\ \A m \in Messages : job[t] # <<"deliver", s, m>>
        /\ job[t][1] = "gone" => s \notin job[t][2]
Finish(s) ==
    /\ phase[s] = "leaving" /\ job[s] = Idle
    /\ ~writer[s] \/ LastSenderDropped(s)
    /\ phase' = [phase EXCEPT ![s] = "ended"]
    /\ writer' = [writer EXCEPT ![s] = FALSE]
    /\ out' = [out EXCEPT ![s] = <<>>]
    /\ report' = [report EXCEPT ![s] = 0]
    /\ UNCHANGED <<inboxVars, known, live, device, conn, job, messageVars, heard, cursor,
                   drained, told, bounds>>

(* kill -9 and restart: the tables are what is left. *)
LoseSessions ==
    /\ live' = [d \in Devices |-> NoSession]
    /\ phase' = [s \in Sessions |-> IF phase[s] = "new" THEN "new" ELSE "ended"]
    /\ conn' = [s \in Sessions |-> FALSE]
    /\ writer' = [s \in Sessions |-> FALSE]
    /\ out' = [s \in Sessions |-> <<>>]
    /\ job' = [s \in Sessions |-> Idle]
    /\ report' = [s \in Sessions |-> 0]
    /\ crashes' = crashes + 1
    /\ UNCHANGED <<known, device, messageVars, heard, cursor, drained, told, hangUps>>
(* A faulty variant: the queue is only in memory. *)
CrashEmpty ==
    /\ crashes < MaxCrashes
    /\ LoseSessions
    /\ inbox' = [d \in Devices |-> {}]
    /\ UNCHANGED <<seq, expires, stats, lost, acked, stamp>>
Crash ==
    /\ crashes < MaxCrashes
    /\ LoseSessions
    /\ UNCHANGED inboxVars

-----------------------------------------------------------------------------
SessionStep(s) ==
    \/ \E m \in Messages :
          FrameRefused(s, m) \/ FrameToStranger(s, m) \/ Decide(s, m)
    \/ AnsweredHere(s) \/ Deliver(s) \/ QueueFails(s)
    \/ \E now \in Times : QueueFrame(s, now) \/ DrainRequest(s, now)
    \/ PushRow(s) \/ PushReport(s)
    \/ AckRequest(s)
    \/ WriteItem(s) \/ WriterEnds(s)
    \/ HangUp(s) \/ StreamEnds(s)
    \/ Deregister(s) \/ NotifyPeers(s) \/ Finish(s)

Next ==
    \/ \E d \in Devices : Welcome(d) \/ Register(d)
    \/ \E s \in Sessions : SessionStep(s)
    \/ \E now \in Times : HourlySweep(now)
    \/ Crash

(* The relay's tasks are scheduled; a device reads its socket, asks for its
   drain and closes a connection whose stream has ended.  Nothing else a device
   does is promised. *)
Fairness ==
    \A s \in Sessions :
        /\ WF_vars(Deliver(s))
        /\ WF_vars(QueueFails(s) \/ \E now \in Times : QueueFrame(s, now))
        /\ WF_vars(\E now \in Times : DrainRequest(s, now))
        /\ WF_vars(PushRow(s) \/ PushReport(s))
        /\ WF_vars(WriteItem(s) \/ WriterEnds(s))
        /\ WF_vars(StreamEnds(s))
        /\ WF_vars(Deregister(s) \/ NotifyPeers(s) \/ Finish(s))

Spec == Init /\ [][Next]_vars /\ Fairness

-----------------------------------------------------------------------------
(* The newest session of a device holds its route until it deregisters itself:
   the cleanup of an older connection that winds down late never makes a
   reconnected device unreachable (register, deregister and the token). *)
NewestHoldsRoute ==
    \A s \in 1..Len(device) :
        /\ phase[s] = "reading" /\ (\A t \in (s + 1)..Len(device) : device[t] # device[s])
              => live[device[s]] = s
        /\ live[device[s]] = s => phase[s] = "reading"

(* A sender told `delivered` is only wrong about a message whose session ended:
   it was read by its device, it waits in the queue of the session it was handed
   to, or that session's writer is gone (a full queue is never `delivered`). *)
DeliveredOrSessionEnded ==
    \A m \in Messages : outcome[m] = "delivered" =>
        \/ m \in heard[To[m]]
        \/ <<"envelope", m>> \in Range(out[carrier[m]])
        \/ ~writer[carrier[m]]

(* A drop is never reported twice: over all its sessions, crashes and lost
   reports a device is told of at most the drops counted for it. *)
NeverToldTwice ==
    \A d \in Devices : told[d] <= stats[d].reported /\ stats[d].reported <= stats[d].dropped

(* A session whose displacement notice was accepted ends: it does not stay connected
   without a route (T-0060).  A session whose connection is gone ends too: the reader
   waits for the writer and the writer for the last sender of its queue, clones in
   the hands of other readers included, and they never wait for each other for ever. *)
SessionsEnd ==
    \A s \in Sessions :
        (\/ <<"displaced">> \in Range(out[s])
         \/ phase[s] \in {"reading", "leaving"} /\ ~conn[s]) ~> (phase[s] = "ended")

(* A message that was committed to a device's inbox is still there, was read by
   the device, or is counted as dropped: it never vanishes. *)
NothingVanishes ==
    \A d \in Devices : acked[d] \subseteq heard[d]

(* A message committed for a device that stays connected leaves its inbox or is
   read by the device ("drained in seq order when the device returns"). *)
QueuedIsDelivered ==
    \A m \in Messages :
        <>[](live[To[m]] # NoSession)
            => (m \in inbox[To[m]] ~> m \notin inbox[To[m]] \/ m \in heard[To[m]])
===============================================================================
