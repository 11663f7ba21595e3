------------------------------ MODULE RelayInbox ------------------------------
(***************************************************************************)
(* The relay's durable per-device inbox (arreo-relay/src/inbox.rs): the    *)
(* tables `inbox` and `inbox_stats` and the four transactions on them.     *)
(* Every operation holds the store's mutex and one IMMEDIATE transaction,  *)
(* so each is one step; a crash falls between two of them.                 *)
(*                                                                         *)
(* A message is queued at most once, so a row is identified by its message *)
(* and its columns are the functions seq and expires.  `now` is the wall   *)
(* clock the caller read BEFORE it took the lock: two calls may commit in  *)
(* the other order, and the clock may be set back, so a call takes any of  *)
(* Times.  The cached columns bytes and queued are written, never read.    *)
(***************************************************************************)
EXTENDS Naturals, FiniteSets, FiniteSetsExt

CONSTANTS
    Devices,
    Messages,
    To,           \* the device a message is addressed to
    Size,         \* the length of its encoded envelope
    MaxMessages,  \* InboxLimits::max_messages
    MaxBytes,     \* InboxLimits::max_bytes
    Ttl,          \* InboxLimits::ttl_ms
    DrainLimit,   \* DEFAULT_DRAIN_LIMIT
    Times         \* the instants at which an operation may run

(* What InboxLimits::from_options accepts. *)
ASSUME InboxAssumption ==
    /\ IsFiniteSet(Messages)
    /\ To \in [Messages -> Devices]
    /\ Size \in [Messages -> Nat]
    /\ MaxMessages \in Nat \ {0}
    /\ MaxBytes \in Nat \ {0}
    /\ Ttl \in Nat \ {0}
    /\ DrainLimit \in Nat \ {0}
    /\ Times \subseteq Nat

VARIABLES
    inbox,    \* the rows of each device
    seq,      \* column seq of a message's row
    expires,  \* column expires_at_ms
    stats,    \* the row of inbox_stats of each device
    lost,     \* history: the messages evicted or expired
    acked,    \* history: the messages removed by an ack
    stamp     \* history: the order in which the messages were committed, 0 before

inboxVars == <<inbox, seq, expires, stats, lost, acked, stamp>>

(* exists: the device has a row in inbox_stats. *)
Stats == [exists : BOOLEAN, dropped : Nat, expired : Nat, reported : Nat]
NoStats == [exists |-> FALSE, dropped |-> 0, expired |-> 0, reported |-> 0]

(* The values the program can hold. *)
InboxTypeOK ==
    /\ inbox \in [Devices -> SUBSET Messages]
    /\ seq \in [Messages -> Nat]
    /\ expires \in [Messages -> Nat]
    /\ stats \in [Devices -> Stats]
    /\ lost \in [Devices -> SUBSET Messages]
    /\ acked \in [Devices -> SUBSET Messages]
    /\ stamp \in [Messages -> Nat]

InboxInit ==
    /\ inbox = [d \in Devices |-> {}]
    /\ seq = [m \in Messages |-> 0]
    /\ expires = [m \in Messages |-> 0]
    /\ stats = [d \in Devices |-> NoStats]
    /\ lost = [d \in Devices |-> {}]
    /\ acked = [d \in Devices |-> {}]
    /\ stamp = [m \in Messages |-> 0]

-----------------------------------------------------------------------------
(* sweep_locked: what has expired, in every inbox, and who is charged. *)
Expired(d, now) == {m \in inbox[d] : expires[m] <= now}
Swept(d, now) == inbox[d] \ Expired(d, now)
SweepTotal(now) == Cardinality(UNION {Expired(d, now) : d \in Devices})

(* bump_expired: an upsert, skipped when nothing of the device expired. *)
BumpExpired(row, count) ==
    IF count = 0 THEN row
    ELSE [exists |-> TRUE, dropped |-> row.dropped + count,
          expired |-> row.expired + count, reported |-> row.reported]

SweptStats(now) ==
    [d \in Devices |-> BumpExpired(stats[d], Cardinality(Expired(d, now)))]

(* totals_locked, and the test of the eviction loop. *)
Bytes(ms) == MapThenSumSet(LAMBDA m : Size[m], ms)
Fits(ms, new) ==
    /\ Cardinality(ms) + 1 <= MaxMessages
    /\ Bytes(ms) + Size[new] <= MaxBytes

(* The eviction loop, oldest first: a row stays when it fits together with the
   new message and every younger row. *)
Kept(ms, new) == {m \in ms : Fits({y \in ms : seq[y] >= seq[m]}, new)}

(* COALESCE(MAX(seq), 0) + 1 over the rows that are left. *)
NextSeq(ms) == Max({0} \cup {seq[m] : m \in ms}) + 1

NextStamp == Max({0} \cup {stamp[m] : m \in Messages}) + 1

(* Faulty: the ON CONFLICT branch forgets the evictions. *)
ChargeOnInsert(row, evicted, sweptTotal) ==
    IF row.exists THEN row
    ELSE [exists |-> TRUE, dropped |-> evicted, expired |-> sweptTotal, reported |-> 0]

(* enqueue's upsert.  The INSERT branch stores the sweep's total over ALL
   devices in the new row's expired_total. *)
ChargeEvicted(row, evicted, sweptTotal) ==
    IF row.exists THEN [row EXCEPT !.dropped = @ + evicted]
    ELSE [exists |-> TRUE, dropped |-> evicted, expired |-> sweptTotal, reported |-> 0]

(* InboxError::TooLarge. *)
TooLarge(m) == Size[m] > MaxBytes

(* Inbox::enqueue. *)
Enqueue(d, m, now) ==
    /\ stamp[m] = 0
    /\ ~TooLarge(m)
    /\ \E kept \in {Kept(Swept(d, now), m)} :
          /\ inbox' = [e \in Devices |-> IF e = d THEN kept \cup {m} ELSE Swept(e, now)]
          /\ seq' = [seq EXCEPT ![m] = NextSeq(kept)]
          /\ expires' = [expires EXCEPT ![m] = now + Ttl]
          /\ stats' = [SweptStats(now) EXCEPT ![d] =
                         ChargeEvicted(@, Cardinality(Swept(d, now) \ kept), SweepTotal(now))]
          /\ lost' = [e \in Devices |-> lost[e] \cup (inbox[e] \ inbox'[e])]
          /\ stamp' = [stamp EXCEPT ![m] = NextStamp]
          /\ UNCHANGED acked

(* Inbox::drain: SELECT ... seq >= from ORDER BY seq LIMIT. *)
Waiting(d, from, now) == {m \in Swept(d, now) : seq[m] >= from}
Batch(d, from, now) ==
    {m \in Waiting(d, from, now) :
        Cardinality({y \in Waiting(d, from, now) : seq[y] < seq[m]}) < DrainLimit}
NextCursor(d, from, now) == Max({from} \cup {seq[m] + 1 : m \in Batch(d, from, now)})

(* The drops since the previous drain; the watermark moves with the read. *)
Dropped(d, now) == SweptStats(now)[d].dropped - SweptStats(now)[d].reported
MoveWatermark(row) ==
    [exists |-> TRUE, dropped |-> row.dropped, expired |-> row.expired, reported |-> row.dropped]

ExpireAll(now) ==
    /\ inbox' = [e \in Devices |-> Swept(e, now)]
    /\ lost' = [e \in Devices |-> lost[e] \cup Expired(e, now)]

Drain(d, now) ==
    /\ ExpireAll(now)
    /\ stats' = [SweptStats(now) EXCEPT ![d] = MoveWatermark(@)]
    /\ UNCHANGED <<seq, expires, acked, stamp>>

(* Inbox::ack: every row up to and including n. *)
Ack(d, n) ==
    /\ inbox' = [inbox EXCEPT ![d] = {m \in @ : seq[m] > n}]
    /\ acked' = [acked EXCEPT ![d] = @ \cup (inbox[d] \ inbox'[d])]
    /\ stats' = [stats EXCEPT ![d].exists = TRUE]
    /\ UNCHANGED <<seq, expires, lost, stamp>>

(* Inbox::sweep, called every SWEEP_INTERVAL. *)
Sweep(now) ==
    /\ ExpireAll(now)
    /\ stats' = SweptStats(now)
    /\ UNCHANGED <<seq, expires, acked, stamp>>

(* A consumer acknowledges a seq it was given, or (0) none. *)
Cursors == {0} \cup {seq[m] : m \in Messages}

InboxNext ==
    \/ \E m \in Messages, now \in Times : Enqueue(To[m], m, now)
    \/ \E d \in Devices, now \in Times : Drain(d, now)
    \/ \E d \in Devices, n \in Cursors : Ack(d, n)
    \/ \E now \in Times : Sweep(now)

InboxSpec == InboxInit /\ [][InboxNext]_inboxVars

-----------------------------------------------------------------------------
(* A full inbox never exceeds either bound (enqueue, "a full inbox never exceeds
   its bound"), whatever was evicted, expired or acknowledged before. *)
Bounded ==
    \A d \in Devices :
        /\ Cardinality(inbox[d]) <= MaxMessages
        /\ Bytes(inbox[d]) <= MaxBytes

(* Every message committed for a device is in its inbox, acknowledged or counted
   in that device's own dropped_total, and in one of the three only: no loss is
   uncounted, counted twice or charged to another device. *)
DropsCounted ==
    \A d \in Devices :
        /\ {m \in Messages : To[m] = d /\ stamp[m] > 0} = inbox[d] \cup acked[d] \cup lost[d]
        /\ inbox[d] \cap (acked[d] \cup lost[d]) = {}
        /\ acked[d] \cap lost[d] = {}
        /\ stats[d].dropped = Cardinality(lost[d])

(* The rows of a device have distinct seqs, in the order in which they were
   committed: a drain returns them in that order, after any acks, evictions and
   expiries in between. *)
SeqIsCommitOrder ==
    \A d \in Devices : \A x, y \in inbox[d] :
        x # y => (seq[x] < seq[y] <=> stamp[x] < stamp[y]) /\ seq[x] # seq[y]
===============================================================================
