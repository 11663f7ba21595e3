-------------------------- MODULE RelaySessionProofs ---------------------------
(***************************************************************************)
(* Two promises of a relay session, for any number of peers, streams,      *)
(* requests and chunks and any sizes of its queues: what one stream is     *)
(* given has no gap, and a reply finds its caller's slot.                  *)
(*                                                                         *)
(* For the first, the invariant says where the read pump is in what each   *)
(* peer sends, and that the only channels it can still put into are the    *)
(* one in its hand and the ones in the table.  For the second, that the    *)
(* numbers of requests grow along the way of a request: through the relay, *)
(* back on the connection and to the read pump.                            *)
(***************************************************************************)
EXTENDS RelaySession, TLAPS

Chan == [peer : Peers, buf : Nat, rx : {"parked", "stream", "ended"}, last : Nat, gap : BOOLEAN]
Link == Nat \union {None}
Hand == [peer : Peers, n : Nat, to : Nat]
Of == Callers \union Link
Arrival == [kind : {"envelope", "gone", "delivered", "failed", "reply"},
            peer : Peers \union {None}, of : Of, n : Nat]
Item == [kind : {"data", "request"}, peer : Peers \union {None}, of : Of]
Wired == [kind : {"data", "request"}, peer : Peers \union {None}, of : Of, seq : Nat]

(* What the read pump's side of the session holds. *)
ReadTypes ==
    /\ chan \in Seq(Chan)
    /\ live \in [Peers -> Link] /\ pending \in [Peers -> Link]
    /\ announced \in Seq(Peers)
    /\ read \in {None} \union Hand
    /\ envelopes \in [Peers -> Nat]
    /\ \A i \in 1..Len(incoming) : incoming[i].kind \in {"envelope", "gone"} => incoming[i].peer \in Peers

(* What the write pump's side and the connection hold. *)
WriteTypes ==
    /\ incoming \in Seq(Arrival)
    /\ outbound \in Seq(Item)
    /\ writing \in {None} \union Item
    /\ relay \in Seq(Wired)
    /\ seq \in Nat

Envelope(i, p) == incoming[i].kind = "envelope" /\ incoming[i].peer = p

(* m is the last number of p that the read pump has taken from the connection. *)
Taken(p, m) ==
    /\ m = envelopes[p] \/ \E i \in 1..Len(incoming) : Envelope(i, p) /\ incoming[i].n = m + 1
    /\ \A i \in 1..Len(incoming) : Envelope(i, p) => incoming[i].n > m

(* The envelopes of a peer are on the connection in order, with none left out. *)
Consecutive ==
    \A i \in 1..Len(incoming), p \in Peers : Envelope(i, p) =>
      LET n == incoming[i].n IN
      /\ n <= envelopes[p]
      /\ n = envelopes[p] \/ \E j \in 1..Len(incoming) : Envelope(j, p) /\ incoming[j].n = n + 1
      /\ \A j \in 1..Len(incoming) : i < j /\ Envelope(j, p) => n < incoming[j].n

(* A peer's entry in the table is a channel of that peer. *)
Linked ==
    /\ \A p \in Peers : live[p] # None => live[p] \in 1..Len(chan) /\ chan[live[p]].peer = p
    /\ \A p \in Peers : pending[p] # None => pending[p] \in 1..Len(chan)
    /\ read # None => read.to \in 1..Len(chan) /\ chan[read.to].peer = read.peer

(* The channel in the table continues where the read pump is. *)
TableRuns ==
    \A p \in Peers : live[p] # None /\ ~(read # None /\ read.peer = p) =>
      chan[live[p]].last = 0 \/ Taken(p, chan[live[p]].last)

(* What is in hand continues the channel it is for, and only that one. *)
HandRuns ==
    read # None =>
      /\ Taken(read.peer, read.n)
      /\ chan[read.to].last = 0 \/ chan[read.to].last + 1 = read.n
      /\ live[read.peer] \in {None, read.to} \/ chan[live[read.peer]].last = 0

Types == ReadTypes /\ WriteTypes /\ Linked

RunInv ==
    /\ Types /\ NoGapWithin
    /\ Up => Consecutive /\ TableRuns /\ HandRuns

Reply(i) == incoming[i].kind = "reply"
Request(i) == relay[i].kind = "request"
Writing == writing # None /\ writing.kind = "request"

(* A request that is on its way has a slot. *)
SlotsParked ==
    /\ \A i \in 1..Len(incoming) : Reply(i) => incoming[i].n \in slots
    /\ \A i \in 1..Len(relay) : Request(i) => relay[i].seq \in slots
    /\ Writing => seq \in slots

(* The numbers of requests grow from the read pump back to the write pump. *)
NumbersGrow ==
    /\ \A i, j \in 1..Len(incoming) : i < j /\ Reply(i) /\ Reply(j) => incoming[i].n < incoming[j].n
    /\ \A i, j \in 1..Len(relay) : i < j /\ Request(i) /\ Request(j) => relay[i].seq < relay[j].seq
    /\ \A i \in 1..Len(incoming), j \in 1..Len(relay) :
         Reply(i) /\ Request(j) => incoming[i].n < relay[j].seq
    /\ \A i \in 1..Len(incoming) : Reply(i) => incoming[i].n <= seq /\ (Writing => incoming[i].n < seq)
    /\ \A i \in 1..Len(relay) : Request(i) => relay[i].seq <= seq /\ (Writing => relay[i].seq < seq)

ReplyInv == Types /\ SlotsParked /\ NumbersGrow

-----------------------------------------------------------------------------
(* Queues. *)

LEMMA Popped ==
    ASSUME NEW S, NEW s \in Seq(S), s # <<>>
    PROVE  /\ Len(s) \in Nat \ {0} /\ Head(s) = s[1] /\ s[1] \in S
           /\ Tail(s) \in Seq(S) /\ Len(Tail(s)) = Len(s) - 1
           /\ \A i \in 1..Len(Tail(s)) : Tail(s)[i] = s[i + 1] /\ i + 1 \in 1..Len(s)
  OBVIOUS

LEMMA Pushed ==
    ASSUME NEW S, NEW s \in Seq(S), NEW e \in S
    PROVE  /\ Append(s, e) \in Seq(S) /\ Len(Append(s, e)) = Len(s) + 1 /\ Len(s) \in Nat
           /\ Append(s, e)[Len(s) + 1] = e
           /\ \A i \in 1..Len(s) : Append(s, e)[i] = s[i]
  OBVIOUS

-----------------------------------------------------------------------------
(* The channels. *)

(* A channel stays its peer's, without a new gap; its run goes on or is over. *)
Kept(ch) ==
    /\ chan'[ch].peer = chan[ch].peer /\ chan'[ch].gap = chan[ch].gap
    /\ chan'[ch].last \in {chan[ch].last, 0}

(* The envelope does not follow the one that was put last. *)
Skips(x, n) == x.last > 0 /\ n # x.last + 1
LEMMA PutFields ==
    ASSUME NEW x \in Chan, NEW n \in Nat
    PROVE  /\ Put(x, n) \in Chan /\ Put(x, n).peer = x.peer /\ Put(x, n).last = n
           /\ Put(x, n).gap = (x.gap \/ Skips(x, n))
  <1> DEFINE g == x.gap \/ Skips(x, n)
  <1>1. x.gap \in BOOLEAN /\ x.buf + 1 \in Nat
    BY DEF Chan
  <1>2. g \in BOOLEAN
    BY <1>1 DEF Skips
  <1>3. Put(x, n) = [x EXCEPT !.buf = x.buf + 1, !.last = n, !.gap = g]
    BY Zenon DEF Put, Skips
  <1> HIDE DEF g
  <1>4. [x EXCEPT !.buf = x.buf + 1, !.last = n, !.gap = g] \in Chan
    BY <1>1, <1>2 DEF Chan
  <1>5. [x EXCEPT !.buf = x.buf + 1, !.last = n, !.gap = g].gap = g
    BY <1>1, <1>2 DEF Chan
  <1>6. [x EXCEPT !.buf = x.buf + 1, !.last = n, !.gap = g].last = n
    BY <1>1, <1>2 DEF Chan
  <1>7. [x EXCEPT !.buf = x.buf + 1, !.last = n, !.gap = g].peer = x.peer
    BY <1>1, <1>2 DEF Chan
  <1> QED BY <1>3, <1>4, <1>5, <1>6, <1>7 DEF g

LEMMA NewTypes ==
    ASSUME NEW p \in Peers, NEW n \in Nat
    PROVE  /\ NewChannel(p) \in Chan /\ NewChannel(p).peer = p
           /\ NewChannel(p).last = 0 /\ ~NewChannel(p).gap
           /\ [NewChannel(p) EXCEPT !.rx = "stream"] \in Chan
           /\ [NewChannel(p) EXCEPT !.rx = "stream"].peer = p
           /\ [NewChannel(p) EXCEPT !.rx = "stream"].last = 0
           /\ ~[NewChannel(p) EXCEPT !.rx = "stream"].gap
           /\ Put(NewChannel(p), n) \in Chan /\ Put(NewChannel(p), n).peer = p
           /\ Put(NewChannel(p), n).last = n /\ ~Put(NewChannel(p), n).gap
  <1>1. /\ NewChannel(p) \in Chan /\ NewChannel(p).peer = p
        /\ NewChannel(p).last = 0 /\ ~NewChannel(p).gap
        /\ [NewChannel(p) EXCEPT !.rx = "stream"] \in Chan
        /\ [NewChannel(p) EXCEPT !.rx = "stream"].peer = p
        /\ [NewChannel(p) EXCEPT !.rx = "stream"].last = 0
        /\ ~[NewChannel(p) EXCEPT !.rx = "stream"].gap
    BY DEF NewChannel, Chan
  <1>2. ~Skips(NewChannel(p), n)
    BY <1>1 DEF Skips
  <1>3. /\ Put(NewChannel(p), n) \in Chan /\ Put(NewChannel(p), n).peer = NewChannel(p).peer
        /\ Put(NewChannel(p), n).last = n
        /\ Put(NewChannel(p), n).gap = (NewChannel(p).gap \/ Skips(NewChannel(p), n))
    BY <1>1, PutFields
  <1> QED BY <1>1, <1>2, <1>3

LEMMA EndedTypes ==
    ASSUME Types, NEW ch \in 1..Len(chan)
    PROVE  /\ Ended(ch) \in Chan /\ Ended(ch).peer = chan[ch].peer /\ Ended(ch).last = 0
           /\ Ended(ch).gap = chan[ch].gap
  <1>1. chan[ch] \in Chan
    BY DEF Types, ReadTypes
  <1> QED BY <1>1 DEF Ended, Chan

(* A new channel, put into the table in place of the peer's former one. *)
Entered(p, new) ==
    /\ Len(chan') = Len(chan) + 1 /\ chan'[Len(chan) + 1] = new
    /\ live' = [live EXCEPT ![p] = Len(chan) + 1]

LEMMA StreamForKeeps ==
    ASSUME Types, NEW p \in Peers, StreamFor(p)
    PROVE  /\ chan' \in Seq(Chan) /\ Len(chan') >= Len(chan)
           /\ \A ch \in 1..Len(chan) : Kept(ch)
           /\ pending' \in [Peers -> Link]
           /\ \A q \in Peers : pending'[q] \in {pending[q], None}
           /\ \/ live' = live /\ Len(chan') = Len(chan)
              \/ \E new \in Chan : Entered(p, new) /\ new.peer = p /\ new.last = 0 /\ ~new.gap
  <1> USE DEF Types, ReadTypes
  <1>1. CASE pending[p] # None
    <2>1. pending[p] \in 1..Len(chan) /\ chan[pending[p]] \in Chan
      BY <1>1 DEF Linked
    <2> DEFINE c == [chan[pending[p]] EXCEPT !.rx = "stream"]
    <2>2. /\ c \in Chan /\ c.peer = chan[pending[p]].peer /\ c.last = chan[pending[p]].last
          /\ c.gap = chan[pending[p]].gap
      BY <2>1 DEF Chan
    <2>3. chan' = [chan EXCEPT ![pending[p]] = c] /\ live' = live
          /\ pending' = [pending EXCEPT ![p] = None]
      BY <1>1 DEF StreamFor
    <2> HIDE DEF c
    <2>4. chan' \in Seq(Chan) /\ Len(chan') = Len(chan)
          /\ \A ch \in 1..Len(chan) : chan'[ch] = IF ch = pending[p] THEN c ELSE chan[ch]
      BY <2>1, <2>2, <2>3
    <2> QED BY <2>2, <2>3, <2>4 DEF Kept, Link
  <1>2. CASE pending[p] = None
    <2> DEFINE new == [NewChannel(p) EXCEPT !.rx = "stream"]
    <2>1. new \in Chan /\ new.peer = p /\ new.last = 0 /\ ~new.gap
      BY NewTypes
    <2>2. chan' = Append(chan, new) /\ live' = [live EXCEPT ![p] = Len(chan) + 1]
          /\ pending' = pending
      BY <1>2 DEF StreamFor
    <2> HIDE DEF new
    <2>3. /\ chan' \in Seq(Chan) /\ Len(chan') = Len(chan) + 1 /\ chan'[Len(chan) + 1] = new
          /\ \A ch \in 1..Len(chan) : chan'[ch] = chan[ch]
      BY <2>1, <2>2
    <2> QED BY <2>1, <2>2, <2>3 DEF Kept, Entered
  <1> QED BY <1>1, <1>2

LEMMA ParkedKeeps ==
    ASSUME Types, NEW p \in Peers, NEW new \in Chan, Parked(p, new)
    PROVE  /\ chan' \in Seq(Chan)
           /\ \A ch \in 1..Len(chan) : Kept(ch)
           /\ pending' = [pending EXCEPT ![p] = Len(chan) + 1]
           /\ Entered(p, new)
  <1> DEFINE old == [ch \in Channels |-> IF ch = pending[p] THEN Ended(ch) ELSE chan[ch]]
  <1>0. chan \in Seq(Chan) /\ Channels = 1..Len(chan) /\ Len(chan) \in Nat
    BY DEF Types, ReadTypes, Channels
  <1>1. \A ch \in 1..Len(chan) : /\ old[ch] \in Chan /\ old[ch].peer = chan[ch].peer
                                 /\ old[ch].last \in {chan[ch].last, 0}
                                 /\ old[ch].gap = chan[ch].gap
    BY <1>0, EndedTypes
  <1>2. old \in Seq(Chan) /\ Len(old) = Len(chan)
    <2>1. DOMAIN old = 1..Len(chan) /\ old = [ch \in 1..Len(chan) |-> old[ch]]
      BY <1>0
    <2> HIDE DEF old
    <2> QED BY <1>0, <1>1, <2>1
  <1>3. chan' = Append(old, new) /\ live' = [live EXCEPT ![p] = Len(chan) + 1]
        /\ pending' = [pending EXCEPT ![p] = Len(chan) + 1]
    BY DEF Parked
  <1> HIDE DEF old
  <1>4. /\ chan' \in Seq(Chan) /\ Len(chan') = Len(chan) + 1 /\ chan'[Len(chan) + 1] = new
        /\ \A ch \in 1..Len(chan) : chan'[ch] = old[ch]
    BY <1>0, <1>2, <1>3
  <1> QED BY <1>1, <1>3, <1>4 DEF Kept, Entered

(* One channel is changed and stays as Kept says. *)
LEMMA EditKeeps ==
    ASSUME Types, NEW ch \in 1..Len(chan), NEW c \in Chan, chan' = [chan EXCEPT ![ch] = c],
           c.peer = chan[ch].peer, c.gap = chan[ch].gap, c.last \in {chan[ch].last, 0}
    PROVE  chan' \in Seq(Chan) /\ Len(chan') = Len(chan) /\ \A x \in 1..Len(chan) : Kept(x)
  <1>1. chan \in Seq(Chan)
    BY DEF Types, ReadTypes
  <1>2. chan' \in Seq(Chan) /\ Len(chan') = Len(chan)
        /\ \A x \in 1..Len(chan) : chan'[x] = IF x = ch THEN c ELSE chan[x]
    BY <1>1
  <1> QED BY <1>2 DEF Kept

LEMMA StreamReadKeeps ==
    ASSUME Types, NEW ch \in Channels, StreamRead(ch) \/ StreamDrop(ch)
    PROVE  chan' \in Seq(Chan) /\ Len(chan') = Len(chan) /\ \A x \in 1..Len(chan) : Kept(x)
  <1>1. ch \in 1..Len(chan) /\ chan[ch] \in Chan
    BY DEF Types, ReadTypes, Channels
  <1>2. CASE chan' = [chan EXCEPT ![ch] = Ended(ch)]
    BY <1>1, <1>2, EndedTypes, EditKeeps
  <1>3. CASE chan[ch].buf > 0 /\ chan' = [chan EXCEPT ![ch].buf = @ - 1]
    <2> DEFINE c == [chan[ch] EXCEPT !.buf = @ - 1]
    <2>1. c \in Chan /\ c.peer = chan[ch].peer /\ c.gap = chan[ch].gap /\ c.last = chan[ch].last
      BY <1>1, <1>3 DEF Chan
    <2>2. chan' = [chan EXCEPT ![ch] = c]
      BY <1>3
    <2> HIDE DEF c
    <2> QED BY <1>1, <2>1, <2>2, EditKeeps
  <1> QED BY <1>2, <1>3 DEF StreamRead, StreamDrop

LEMMA DroppedKeeps ==
    ASSUME Types, Dropped
    PROVE  chan' \in Seq(Chan) /\ Len(chan') = Len(chan) /\ \A x \in 1..Len(chan) : Kept(x)
  <1>0. chan \in Seq(Chan) /\ Channels = 1..Len(chan) /\ Len(chan) \in Nat
    BY DEF Types, ReadTypes, Channels
  <1>1. chan' = [ch \in 1..Len(chan) |-> IF chan[ch].rx = "parked" THEN Ended(ch) ELSE chan[ch]]
    BY <1>0 DEF Dropped
  <1>2. \A ch \in 1..Len(chan) : chan'[ch] \in Chan /\ Kept(ch)
    BY <1>0, <1>1, EndedTypes DEF Kept
  <1>3. DOMAIN chan' = 1..Len(chan) /\ chan' = [ch \in 1..Len(chan) |-> chan'[ch]]
    BY <1>1
  <1> QED BY <1>0, <1>2, <1>3

(* The chunk in hand is put: the one step that lengthens a run. *)
LEMMA DeliverPuts ==
    ASSUME Types, ReadDeliver
    PROVE  /\ read \in Hand /\ read.to \in 1..Len(chan)
           /\ chan' \in Seq(Chan) /\ Len(chan') = Len(chan)
           /\ \A x \in 1..Len(chan) \ {read.to} : chan'[x] = chan[x]
           /\ chan'[read.to].peer = chan[read.to].peer /\ chan'[read.to].last = read.n
           /\ chan'[read.to].gap = (chan[read.to].gap \/ Skips(chan[read.to], read.n))
  <1>1. chan \in Seq(Chan) /\ read \in Hand /\ read.to \in 1..Len(chan) /\ chan[read.to] \in Chan
    BY DEF Types, ReadTypes, Linked, ReadDeliver, Sending
  <1> DEFINE old == chan[read.to]
             c == Put(old, read.n)
  <1>2. c \in Chan /\ c.peer = old.peer /\ c.last = read.n
        /\ c.gap = (old.gap \/ Skips(old, read.n))
    BY <1>1, PutFields DEF Hand
  <1>3. chan' = [chan EXCEPT ![read.to] = c]
    BY DEF ReadDeliver
  <1> HIDE DEF c
  <1> QED BY <1>1, <1>2, <1>3

-----------------------------------------------------------------------------
(* Types. *)

LEMMA TypesInit == Init => Types
  <1> SUFFICES ASSUME Init PROVE Types
    OBVIOUS
  <1> USE DEF Init
  <1>1. ReadTypes
    BY DEF ReadTypes, Nobody, Link
  <1>2. WriteTypes /\ Linked
    BY DEF WriteTypes, Linked, Nobody
  <1> QED BY <1>1, <1>2 DEF Types

(* Links are kept by a step that keeps the channels and takes entries away. *)
LEMMA LinksKept ==
    ASSUME Types, chan' \in Seq(Chan), Len(chan') >= Len(chan),
           \A ch \in 1..Len(chan) : Kept(ch),
           \A p \in Peers : live'[p] \in {live[p], None} /\ pending'[p] \in {pending[p], None},
           read' \in {read, None}
    PROVE  Linked'
  <1>1. Len(chan) \in Nat /\ Len(chan') \in Nat /\ 1..Len(chan) \subseteq 1..Len(chan')
    BY DEF Types, ReadTypes
  <1> QED BY <1>1 DEF Types, Linked, Kept

(* Links are kept by a step that adds a channel and puts it into the table. *)
LEMMA LinksEntered ==
    ASSUME Types, chan' \in Seq(Chan), \A ch \in 1..Len(chan) : Kept(ch),
           NEW p \in Peers, NEW new \in Chan, Entered(p, new), new.peer = p,
           \A q \in Peers : pending'[q] \in {pending[q], None, Len(chan) + 1},
           read' \in {read, None} \/ (read'.to = Len(chan) + 1 /\ read'.peer = p)
    PROVE  Linked' /\ live' \in [Peers -> Link]
  <1>1. /\ Len(chan) \in Nat /\ Len(chan') = Len(chan) + 1
        /\ 1..Len(chan) \subseteq 1..Len(chan') /\ Len(chan) + 1 \in 1..Len(chan')
    BY DEF Types, ReadTypes, Entered
  <1>2. live' \in [Peers -> Link]
        /\ \A q \in Peers : live'[q] = IF q = p THEN Len(chan) + 1 ELSE live[q]
    BY <1>1 DEF Types, ReadTypes, Entered, Link
  <1> QED BY <1>1, <1>2 DEF Types, Linked, Kept, Entered

LEMMA PendingTypes ==
    ASSUME Types, NEW p \in Peers, pending' = [pending EXCEPT ![p] = Len(chan) + 1]
    PROVE  /\ pending' \in [Peers -> Link]
           /\ \A q \in Peers : pending'[q] \in {pending[q], None, Len(chan) + 1}
  <1>1. Len(chan) + 1 \in Link /\ pending \in [Peers -> Link]
    BY DEF Types, ReadTypes, Link
  <1> QED BY <1>1

(* What a step of the read pump takes from the connection leaves the rest typed. *)
LEMMA IncomingPopped ==
    ASSUME Types, incoming # <<>>, incoming' = Tail(incoming)
    PROVE  /\ incoming' \in Seq(Arrival) /\ Head(incoming) \in Arrival /\ Head(incoming) = incoming[1]
           /\ 1 \in 1..Len(incoming) /\ Len(incoming) \in Nat /\ Len(incoming') = Len(incoming) - 1
           /\ \A i \in 1..Len(incoming') : incoming'[i] = incoming[i + 1] /\ i + 1 \in 1..Len(incoming)
           /\ Head(incoming).kind \in {"envelope", "gone"} => Head(incoming).peer \in Peers
           /\ \A i \in 1..Len(incoming') :
                incoming'[i].kind \in {"envelope", "gone"} => incoming'[i].peer \in Peers
  <1>1. incoming \in Seq(Arrival)
    BY DEF Types, WriteTypes
  <1>2. /\ Len(incoming) \in Nat \ {0} /\ Head(incoming) = incoming[1] /\ incoming[1] \in Arrival
        /\ Tail(incoming) \in Seq(Arrival) /\ Len(Tail(incoming)) = Len(incoming) - 1
        /\ \A i \in 1..Len(Tail(incoming)) : Tail(incoming)[i] = incoming[i + 1] /\ i + 1 \in 1..Len(incoming)
    BY <1>1, Popped
  <1> QED BY <1>2 DEF Types, ReadTypes

LEMMA IncomingPushed ==
    ASSUME Types, NEW x \in Arrival, incoming' = Append(incoming, x),
           x.kind \in {"envelope", "gone"} => x.peer \in Peers
    PROVE  /\ incoming' \in Seq(Arrival) /\ Len(incoming') = Len(incoming) + 1 /\ Len(incoming) \in Nat
           /\ incoming'[Len(incoming) + 1] = x
           /\ \A i \in 1..Len(incoming) : incoming'[i] = incoming[i]
           /\ \A i \in 1..Len(incoming') :
                incoming'[i].kind \in {"envelope", "gone"} => incoming'[i].peer \in Peers
  <1>1. incoming \in Seq(Arrival)
    BY DEF Types, WriteTypes
  <1>2. /\ incoming' \in Seq(Arrival) /\ Len(incoming') = Len(incoming) + 1 /\ Len(incoming) \in Nat
        /\ incoming'[Len(incoming) + 1] = x
        /\ \A i \in 1..Len(incoming) : incoming'[i] = incoming[i]
    BY <1>1, Pushed
  <1> QED BY <1>2 DEF Types, ReadTypes

LEMMA TypesStep == ASSUME Types, [Next]_vars PROVE Types'
  <1>0. /\ chan \in Seq(Chan) /\ incoming \in Seq(Arrival) /\ outbound \in Seq(Item)
        /\ relay \in Seq(Wired) /\ announced \in Seq(Peers) /\ seq \in Nat
        /\ \A ch \in 1..Len(chan) : ch \in Nat
    BY DEF Types, ReadTypes, WriteTypes
  <1>same. ASSUME UNCHANGED chan PROVE \A ch \in 1..Len(chan) : Kept(ch)
    BY <1>same DEF Kept
  <1>1. ASSUME NEW p \in Peers, PeerSends(p) \/ PeerGone(p) PROVE Types'
    <2>1. CASE PeerSends(p)
      <3> DEFINE x == [kind |-> "envelope", peer |-> p, of |-> None, n |-> envelopes[p] + 1]
      <3>1. x \in Arrival /\ x.kind = "envelope" /\ x.peer = p
        BY DEF Arrival, Of, Link, Types, ReadTypes
      <3>2. incoming' = Append(incoming, x)
        BY <2>1 DEF PeerSends
      <3>3. envelopes' \in [Peers -> Nat]
        BY <2>1 DEF PeerSends, Types, ReadTypes
      <3> HIDE DEF x
      <3> QED BY <2>1, <3>1, <3>2, <3>3, IncomingPushed
              DEF PeerSends, Types, ReadTypes, WriteTypes, Linked
    <2>2. CASE PeerGone(p)
      <3> DEFINE x == [kind |-> "gone", peer |-> p, of |-> None, n |-> 0]
      <3>1. x \in Arrival /\ x.kind = "gone" /\ x.peer = p
        BY DEF Arrival, Of, Link
      <3>2. incoming' = Append(incoming, x)
        BY <2>2 DEF PeerGone
      <3> HIDE DEF x
      <3> QED BY <2>2, <3>1, <3>2, IncomingPushed
              DEF PeerGone, Types, ReadTypes, WriteTypes, Linked
    <2> QED BY <1>1, <2>1, <2>2
  <1>2. CASE RelayAnswers
    <2> DEFINE item == Head(relay)
    <2>1. item \in Wired /\ relay' = Tail(relay) /\ relay' \in Seq(Wired)
      BY <1>0, <1>2, Popped DEF RelayAnswers
    <2>2. PICK outcome \in {"delivered", "failed", "reply"} :
            incoming' = Append(incoming, [kind |-> outcome, peer |-> item.peer, of |-> item.of, n |-> item.seq])
      BY <1>2 DEF RelayAnswers
    <2> DEFINE x == [kind |-> outcome, peer |-> item.peer, of |-> item.of, n |-> item.seq]
    <2>3. x \in Arrival /\ x.kind = outcome /\ incoming' = Append(incoming, x)
      BY <2>1, <2>2 DEF Arrival, Wired
    <2> HIDE DEF x, item
    <2> QED BY <1>2, <2>1, <2>3, IncomingPushed
            DEF RelayAnswers, Types, ReadTypes, WriteTypes, Linked
  <1>3. ASSUME NEW p \in Peers, StreamFor(p), announced' \in Seq(Peers),
               UNCHANGED <<read, incoming, outbound, writing, relay, envelopes, seq>>
        PROVE Types'
    <2> USE <1>3
    <2>1. /\ chan' \in Seq(Chan) /\ Len(chan') >= Len(chan)
          /\ \A ch \in 1..Len(chan) : Kept(ch)
          /\ pending' \in [Peers -> Link]
          /\ \A q \in Peers : pending'[q] \in {pending[q], None}
          /\ \/ live' = live /\ Len(chan') = Len(chan)
             \/ \E new \in Chan : Entered(p, new) /\ new.peer = p /\ new.last = 0 /\ ~new.gap
      BY StreamForKeeps
    <2>2. Linked' /\ live' \in [Peers -> Link]
      <3>1. CASE live' = live
        BY <2>1, <3>1, LinksKept DEF Types, ReadTypes
      <3>2. ASSUME NEW new \in Chan, Entered(p, new), new.peer = p
            PROVE Linked' /\ live' \in [Peers -> Link]
        BY <2>1, <3>2, LinksEntered
      <3> QED BY <2>1, <3>1, <3>2
    <2> QED BY <2>1, <2>2 DEF Types, ReadTypes, WriteTypes
  <1>4. CASE Accept
    <2>1. Head(announced) \in Peers /\ Tail(announced) \in Seq(Peers)
      BY <1>0, <1>4, Popped DEF Accept
    <2> QED BY <1>3, <1>4, <2>1 DEF Accept
  <1>5. ASSUME NEW p \in Probed, ProbeStream(p) \/ ProbeEnds(p) PROVE Types'
    <2>1. CASE ProbeStream(p)
      BY <1>0, <1>3, <2>1, SessionAssumption DEF ProbeStream
    <2>2. CASE ProbeEnds(p)
      BY <2>2 DEF ProbeEnds, Types, ReadTypes, WriteTypes, Linked
    <2> QED BY <1>5, <2>1, <2>2
  <1>6. ASSUME NEW ch \in Channels, StreamRead(ch) \/ StreamDrop(ch) PROVE Types'
    <2>1. chan' \in Seq(Chan) /\ Len(chan') = Len(chan) /\ \A x \in 1..Len(chan) : Kept(x)
      BY <1>6, StreamReadKeeps
    <2>2. Linked'
      BY <1>6, <2>1, LinksKept DEF StreamRead, StreamDrop, Types, ReadTypes
    <2> QED BY <1>6, <2>1, <2>2 DEF StreamRead, StreamDrop, Types, ReadTypes, WriteTypes
  <1>7. ASSUME NEW ch \in Channels, StreamWrite(ch) PROVE Types'
    <2> DEFINE x == [kind |-> "data", peer |-> chan[ch].peer, of |-> ch]
    <2>1. chan[ch] \in Chan /\ ch \in Nat
      BY <1>0 DEF Channels
    <2>2. x \in Item
      BY <2>1 DEF Item, Chan, Of, Link
    <2>3. outbound' \in Seq(Item)
      BY <1>0, <1>7, <2>2, Pushed DEF StreamWrite
    <2> QED BY <1>7, <2>3 DEF StreamWrite, Types, ReadTypes, WriteTypes, Linked
  <1>8. CASE ReadEnvelope
    <2> DEFINE p == Head(incoming).peer
               n == Head(incoming).n
    <2> USE <1>8 DEF ReadEnvelope, Received
    <2>0. incoming # <<>> /\ incoming' = Tail(incoming) /\ Head(incoming).kind = "envelope"
      OBVIOUS
    <2>1. /\ p \in Peers /\ n \in Nat /\ incoming' \in Seq(Arrival)
          /\ \A i \in 1..Len(incoming') :
               incoming'[i].kind \in {"envelope", "gone"} => incoming'[i].peer \in Peers
      BY <2>0, IncomingPopped DEF Arrival
    <2>2. CASE live[p] # None
      <3>1. live[p] \in 1..Len(chan) /\ chan[live[p]].peer = p
        BY <2>1, <2>2 DEF Types, Linked
      <3>2. read' = [peer |-> p, n |-> n, to |-> live[p]] /\ UNCHANGED <<chan, live, pending, announced>>
        BY <2>2
      <3>3. read' \in Hand /\ read'.to = live[p] /\ read'.peer = p
        BY <1>0, <2>1, <3>1, <3>2 DEF Hand
      <3>4. Linked'
        BY <3>1, <3>2, <3>3 DEF Types, Linked
      <3> QED BY <2>1, <3>2, <3>3, <3>4 DEF Types, ReadTypes, WriteTypes
    <2>3. CASE live[p] = None
      <3>1. /\ Parked(p, NewChannel(p)) /\ announced' = Announced(p)
            /\ read' = [peer |-> p, n |-> n, to |-> Len(chan) + 1]
        BY <2>3
      <3>2. read' \in Hand /\ read'.to = Len(chan) + 1 /\ read'.peer = p
        BY <1>0, <2>1, <3>1 DEF Hand
      <3>3. /\ NewChannel(p) \in Chan /\ NewChannel(p).peer = p
        BY <2>1, NewTypes
      <3>4. /\ chan' \in Seq(Chan) /\ \A ch \in 1..Len(chan) : Kept(ch)
            /\ pending' = [pending EXCEPT ![p] = Len(chan) + 1]
            /\ Entered(p, NewChannel(p))
        BY <2>1, <3>1, <3>3, ParkedKeeps
      <3>5. /\ pending' \in [Peers -> Link]
            /\ \A q \in Peers : pending'[q] \in {pending[q], None, Len(chan) + 1}
        BY <2>1, <3>4, PendingTypes
      <3>6. announced' \in Seq(Peers)
        BY <1>0, <2>1, <3>1 DEF Announced
      <3>7. Linked' /\ live' \in [Peers -> Link]
        BY <2>1, <3>2, <3>3, <3>4, <3>5, LinksEntered
      <3> QED BY <2>1, <3>2, <3>4, <3>5, <3>6, <3>7 DEF Types, ReadTypes, WriteTypes
    <2> QED BY <2>2, <2>3
  <1>9. CASE ReadDeliver
    <2>1. Linked'
      BY <1>9, DeliverPuts DEF ReadDeliver, Types, Linked
    <2> QED BY <1>9, <2>1, DeliverPuts DEF ReadDeliver, Types, ReadTypes, WriteTypes
  <1>10. CASE ReadReopen
    <2> DEFINE p == read.peer
               new == Put(NewChannel(p), read.n)
    <2> USE <1>10 DEF ReadReopen, Sending
    <2>1. p \in Peers /\ read.n \in Nat
      BY DEF Types, ReadTypes, Hand
    <2>2. new \in Chan /\ new.peer = p
      BY <2>1, NewTypes
    <2>3. /\ chan' \in Seq(Chan) /\ \A ch \in 1..Len(chan) : Kept(ch)
          /\ pending' = [pending EXCEPT ![p] = Len(chan) + 1]
          /\ Entered(p, new)
      BY <2>1, <2>2, ParkedKeeps
    <2> HIDE DEF new
    <2>4. /\ pending' \in [Peers -> Link]
          /\ \A q \in Peers : pending'[q] \in {pending[q], None, Len(chan) + 1}
      BY <2>1, <2>3, PendingTypes
    <2>5. announced' \in Seq(Peers)
      BY <1>0, <2>1 DEF AnnouncedAgain, Announced
    <2>6. Linked' /\ live' \in [Peers -> Link]
      BY <2>1, <2>2, <2>3, <2>4, LinksEntered
    <2> QED BY <2>3, <2>4, <2>5, <2>6 DEF Types, ReadTypes, WriteTypes
  <1>11. ASSUME UNCHANGED <<chan, pending, announced, outbound, writing, relay, envelopes, seq>>,
                \A p \in Peers : live'[p] \in {live[p], None}, live' \in [Peers -> Link],
                read' \in {read, None},
                incoming' = incoming \/ (incoming # <<>> /\ incoming' = Tail(incoming))
         PROVE Types'
    <2> USE <1>11
    <2>0. /\ chan' \in Seq(Chan) /\ Len(chan') = Len(chan) /\ Len(chan) \in Nat
          /\ Len(chan') >= Len(chan)
      BY <1>0
    <2>k. \A ch \in 1..Len(chan) : Kept(ch)
      BY <1>same
    <2>p. \A p \in Peers : live'[p] \in {live[p], None} /\ pending'[p] \in {pending[p], None}
      OBVIOUS
    <2>1. Linked'
      BY <2>0, <2>k, <2>p, LinksKept
    <2>2. incoming' \in Seq(Arrival)
          /\ \A i \in 1..Len(incoming') :
               incoming'[i].kind \in {"envelope", "gone"} => incoming'[i].peer \in Peers
      BY <1>0, IncomingPopped DEF Types, ReadTypes
    <2> QED BY <2>1, <2>2 DEF Types, ReadTypes, WriteTypes
  <1>12. CASE ReadFull \/ ReadGone \/ ReadStatus \/ ReadReply
    <2>1. /\ live' \in [Peers -> Link] /\ \A p \in Peers : live'[p] \in {live[p], None}
      BY <1>12 DEF ReadFull, ReadGone, ReadStatus, ReadReply, Unlinked, Types, ReadTypes, Link
    <2> QED BY <1>11, <1>12, <2>1 DEF ReadFull, ReadGone, ReadStatus, ReadReply, Received
  <1>13. ASSUME NEW c \in Callers, Ask(c) \/ AskTimeout(c) PROVE Types'
    <2> DEFINE x == [kind |-> "request", peer |-> None, of |-> c]
    <2>1. x \in Item
      BY DEF Item, Of
    <2>2. outbound' \in Seq(Item)
      <3>1. CASE Ask(c)
        BY <1>0, <2>1, <3>1, Pushed DEF Ask
      <3>2. CASE AskTimeout(c)
        BY <1>0, <3>2 DEF AskTimeout
      <3> QED BY <1>13, <3>1, <3>2
    <2> QED BY <1>13, <2>2 DEF Ask, AskTimeout, Types, ReadTypes, WriteTypes, Linked
  <1>wire. ASSUME NEW item \in Item, NEW n \in Nat PROVE Wire(item, n) \in Seq(Wired)
    <2>1. [kind |-> item.kind, peer |-> item.peer, of |-> item.of, seq |-> n] \in Wired
      BY DEF Item, Wired
    <2> QED BY <1>0, <2>1, Pushed DEF Wire
  <1>14. CASE WriteTake
    <2>1. Head(outbound) \in Item /\ Tail(outbound) \in Seq(Item)
      BY <1>0, <1>14, Popped DEF WriteTake
    <2>2. relay' = relay \/ relay' = Wire(Head(outbound), seq + 1)
      BY <1>14 DEF WriteTake, OnTake
    <2>3. seq + 1 \in Nat
      BY <1>0
    <2>4. Wire(Head(outbound), seq + 1) \in Seq(Wired)
      BY <1>wire, <2>1, <2>3
    <2>5. relay' \in Seq(Wired)
      BY <1>0, <2>2, <2>4
    <2> QED BY <1>14, <2>1, <2>3, <2>5 DEF WriteTake, Types, ReadTypes, WriteTypes, Linked
  <1>15. CASE WriteDone
    <2>1. writing \in Item
      BY <1>15 DEF WriteDone, Types, WriteTypes
    <2>2. relay' \in Seq(Wired)
      BY <1>0, <1>15, <1>wire, <2>1 DEF WriteDone
    <2> QED BY <1>15, <2>2 DEF WriteDone, Types, ReadTypes, WriteTypes, Linked
  <1>16. CASE Close
    BY <1>16 DEF Close, Types, ReadTypes, WriteTypes, Linked
  <1>17. CASE Dropped
    <2>1. chan' \in Seq(Chan) /\ Len(chan') = Len(chan) /\ \A x \in 1..Len(chan) : Kept(x)
      BY <1>17, DroppedKeeps
    <2>2. pending' \in [Peers -> Link] /\ \A p \in Peers : pending'[p] = None
      BY <1>17 DEF Dropped, Nobody, Link
    <2>3. /\ UNCHANGED <<live, read, incoming, outbound, writing, relay, envelopes, seq>>
          /\ announced' = <<>>
      BY <1>17 DEF Dropped
    <2>4. Len(chan') >= Len(chan) /\ Len(chan) \in Nat
      BY <1>0, <2>1
    <2>5. Linked'
      BY <2>1, <2>2, <2>3, <2>4, LinksKept
    <2> QED BY <2>1, <2>2, <2>3, <2>5 DEF Types, ReadTypes, WriteTypes
  <1>18. CASE UNCHANGED vars
    BY <1>18 DEF vars, Types, ReadTypes, WriteTypes, Linked
  <1> QED BY <1>1, <1>2, <1>4, <1>5, <1>6, <1>7, <1>8, <1>9, <1>10, <1>12, <1>13, <1>14, <1>15,
             <1>16, <1>17, <1>18 DEF Next, ReadPump, AcceptLoop

-----------------------------------------------------------------------------
(* Replies. *)

LEMMA Fields ==
    /\ \A x \in Arrival : x.n \in Nat
    /\ \A x \in Wired : x.seq \in Nat /\ x.kind \in {"data", "request"}
    /\ Types => /\ \A i \in 1..Len(incoming) : incoming[i] \in Arrival
                /\ \A i \in 1..Len(relay) : relay[i] \in Wired
  <1>1. \A x \in Arrival : x.n \in Nat
    BY DEF Arrival
  <1>2. \A x \in Wired : x.seq \in Nat /\ x.kind \in {"data", "request"}
    BY DEF Wired
  <1> QED BY <1>1, <1>2 DEF Types, WriteTypes

(* Nothing that concerns a request is changed. *)
LEMMA RepliesUntouched ==
    ASSUME ReplyInv, UNCHANGED <<incoming, relay, slots, writing, seq>>
    PROVE  SlotsParked' /\ NumbersGrow'
  BY DEF ReplyInv, SlotsParked, NumbersGrow, Reply, Request, Writing

(* Something that is not a reply comes onto the connection. *)
LEMMA NoReplyPushed ==
    ASSUME ReplyInv, NEW x \in Arrival, incoming' = Append(incoming, x), x.kind # "reply",
           x.kind \in {"envelope", "gone"} => x.peer \in Peers,
           UNCHANGED <<relay, slots, writing, seq>>
    PROVE  SlotsParked' /\ NumbersGrow'
  <1>1. /\ Len(incoming') = Len(incoming) + 1 /\ Len(incoming) \in Nat
        /\ incoming'[Len(incoming) + 1] = x
        /\ \A i \in 1..Len(incoming) : incoming'[i] = incoming[i]
    BY IncomingPushed DEF ReplyInv
  <1>2. \A i \in 1..Len(incoming') : Reply(i)' => i \in 1..Len(incoming) /\ Reply(i)
    BY <1>1 DEF Reply
  <1> QED BY <1>1, <1>2 DEF ReplyInv, SlotsParked, NumbersGrow, Request, Writing

(* Something is taken from the connection, and with a reply its slot. *)
LEMMA ArrivalPopped ==
    ASSUME ReplyInv, incoming # <<>>, incoming' = Tail(incoming),
           slots' = slots \/ (Reply(1) /\ slots' = slots \ {incoming[1].n}),
           UNCHANGED <<relay, writing, seq>>
    PROVE  SlotsParked' /\ NumbersGrow'
  <1>1. /\ incoming \in Seq(Arrival) /\ incoming' \in Seq(Arrival)
        /\ Len(incoming) \in Nat /\ Len(incoming') = Len(incoming) - 1 /\ 1 \in 1..Len(incoming)
        /\ \A i \in 1..Len(incoming') : incoming'[i] = incoming[i + 1] /\ i + 1 \in 1..Len(incoming)
    BY IncomingPopped DEF ReplyInv, Types, WriteTypes
  <1>2. \A i \in 1..Len(incoming') : Reply(i)' => Reply(i + 1)
    BY <1>1 DEF Reply
  <1>3. \A i \in 1..Len(incoming) : incoming[i].n \in Nat
    BY Fields DEF ReplyInv
  <1>4. \A i \in 1..Len(relay) : relay[i].seq \in Nat
    BY Fields DEF ReplyInv
  <1>5. NumbersGrow'
    <2>1. \A i, j \in 1..Len(incoming') :
            i < j /\ Reply(i)' /\ Reply(j)' => incoming'[i].n < incoming'[j].n
      <3> SUFFICES ASSUME NEW i \in 1..Len(incoming'), NEW j \in 1..Len(incoming'),
                          i < j, Reply(i)', Reply(j)'
                   PROVE  incoming'[i].n < incoming'[j].n
        OBVIOUS
      <3>1. /\ i + 1 \in 1..Len(incoming) /\ j + 1 \in 1..Len(incoming) /\ i + 1 < j + 1
            /\ incoming'[i] = incoming[i + 1] /\ incoming'[j] = incoming[j + 1]
        BY <1>1
      <3>2. Reply(i + 1) /\ Reply(j + 1)
        BY <1>2
      <3>3. incoming[i + 1].n < incoming[j + 1].n
        BY <3>1, <3>2 DEF ReplyInv, NumbersGrow
      <3> QED BY <3>1, <3>3
    <2>2. \A i \in 1..Len(incoming'), j \in 1..Len(relay) :
            Reply(i)' /\ Request(j) => incoming'[i].n < relay[j].seq
      BY <1>1, <1>2 DEF ReplyInv, NumbersGrow
    <2>3. \A i \in 1..Len(incoming') :
            Reply(i)' => incoming'[i].n <= seq /\ (Writing => incoming'[i].n < seq)
      BY <1>1, <1>2 DEF ReplyInv, NumbersGrow
    <2>4. Writing' = Writing /\ \A i : Request(i)' = Request(i)
      BY DEF Writing, Request
    <2> QED BY <2>1, <2>2, <2>3, <2>4 DEF ReplyInv, NumbersGrow
  <1>6. SlotsParked'
    <2>1. CASE slots' = slots
      BY <1>1, <1>2, <2>1 DEF ReplyInv, SlotsParked, Request, Writing
    <2>2. CASE Reply(1) /\ slots' = slots \ {incoming[1].n}
      <3>1. \A i \in 1..Len(incoming') : Reply(i)' => incoming'[i].n # incoming[1].n
        BY <1>1, <1>2, <1>3, <2>2 DEF ReplyInv, NumbersGrow
      <3>2. \A i \in 1..Len(relay) : Request(i) => relay[i].seq # incoming[1].n
        BY <1>1, <1>3, <1>4, <2>2 DEF ReplyInv, NumbersGrow
      <3>3. Writing => seq # incoming[1].n
        BY <1>1, <1>3, <2>2 DEF ReplyInv, NumbersGrow, Types, WriteTypes
      <3> QED BY <1>1, <1>2, <2>2, <3>1, <3>2, <3>3 DEF ReplyInv, SlotsParked, Request, Writing
    <2> QED BY <2>1, <2>2
  <1> QED BY <1>5, <1>6

LEMMA AnswerKeeps == ASSUME ReplyInv, RelayAnswers PROVE SlotsParked' /\ NumbersGrow'
  <1> DEFINE item == Head(relay)
  <1>1. relay \in Seq(Wired) /\ relay # <<>> /\ relay' = Tail(relay)
    BY DEF RelayAnswers, ReplyInv, Types, WriteTypes
  <1>2. /\ Len(relay) \in Nat \ {0} /\ item = relay[1] /\ item \in Wired /\ relay' \in Seq(Wired)
        /\ Len(relay') = Len(relay) - 1
        /\ \A i \in 1..Len(relay') : relay'[i] = relay[i + 1] /\ i + 1 \in 1..Len(relay)
    BY <1>1, Popped
  <1>3. PICK outcome \in {"delivered", "failed", "reply"} :
          /\ incoming' = Append(incoming, [kind |-> outcome, peer |-> item.peer, of |-> item.of, n |-> item.seq])
          /\ outcome = "reply" <=> item.kind # "data"
    BY DEF RelayAnswers
  <1> DEFINE x == [kind |-> outcome, peer |-> item.peer, of |-> item.of, n |-> item.seq]
  <1>4. x \in Arrival /\ x.kind = outcome /\ x.n = item.seq /\ incoming' = Append(incoming, x)
    BY <1>2, <1>3 DEF Arrival, Wired
  <1>5. x.kind = "reply" => Request(1)
    BY <1>2, <1>3, <1>4 DEF Request, Wired
  <1> HIDE DEF x, item
  <1>6. /\ Len(incoming') = Len(incoming) + 1 /\ Len(incoming) \in Nat
        /\ incoming'[Len(incoming) + 1] = x
        /\ \A i \in 1..Len(incoming) : incoming'[i] = incoming[i]
    BY <1>4, IncomingPushed DEF ReplyInv
  <1>7. /\ \A i \in 1..Len(incoming) : Reply(i)' <=> Reply(i)
        /\ \A i \in 1..Len(incoming') :
             i = Len(incoming) + 1 /\ Reply(i)' => Request(1) /\ incoming'[i].n = relay[1].seq
        /\ \A i \in 1..Len(relay') : Request(i)' <=> Request(i + 1)
    BY <1>2, <1>4, <1>5, <1>6 DEF Reply, Request, item
  <1>8. \A i \in 1..Len(incoming') : i \in 1..Len(incoming) \/ i = Len(incoming) + 1
    BY <1>6
  <1>9. UNCHANGED <<slots, writing, seq>> /\ 1 \in 1..Len(relay)
    BY <1>2 DEF RelayAnswers
  <1>10. SlotsParked'
    BY <1>2, <1>6, <1>7, <1>8, <1>9 DEF ReplyInv, SlotsParked, Writing
  <1>11. NumbersGrow'
    <2>1. \A i, j \in 1..Len(incoming') : i < j /\ Reply(i)' /\ Reply(j)' => incoming'[i].n < incoming'[j].n
      BY <1>6, <1>7, <1>8, <1>9 DEF ReplyInv, NumbersGrow
    <2>2. \A i, j \in 1..Len(relay') : i < j /\ Request(i)' /\ Request(j)' => relay'[i].seq < relay'[j].seq
      BY <1>2, <1>7 DEF ReplyInv, NumbersGrow
    <2>3. \A i \in 1..Len(incoming'), j \in 1..Len(relay') :
            Reply(i)' /\ Request(j)' => incoming'[i].n < relay'[j].seq
      BY <1>2, <1>6, <1>7, <1>8, <1>9 DEF ReplyInv, NumbersGrow
    <2>4. \A i \in 1..Len(incoming') :
            Reply(i)' => incoming'[i].n <= seq' /\ (Writing' => incoming'[i].n < seq')
      BY <1>6, <1>7, <1>8, <1>9 DEF ReplyInv, NumbersGrow, Writing
    <2>5. \A i \in 1..Len(relay') :
            Request(i)' => relay'[i].seq <= seq' /\ (Writing' => relay'[i].seq < seq')
      BY <1>2, <1>7, <1>9 DEF ReplyInv, NumbersGrow, Writing
    <2> QED BY <2>1, <2>2, <2>3, <2>4, <2>5 DEF NumbersGrow
  <1> QED BY <1>10, <1>11

LEMMA WireLast ==
    ASSUME Types, NEW item \in Item, NEW n \in Nat, relay' = Wire(item, n)
    PROVE  /\ Len(relay') = Len(relay) + 1 /\ Len(relay) \in Nat
           /\ \A i \in 1..Len(relay) : relay'[i] = relay[i]
           /\ relay'[Len(relay) + 1].kind = item.kind /\ relay'[Len(relay) + 1].seq = n
  <1> DEFINE x == [kind |-> item.kind, peer |-> item.peer, of |-> item.of, seq |-> n]
  <1>1. x \in Wired /\ x.kind = item.kind /\ x.seq = n
    BY DEF Item, Wired
  <1>2. relay' = Append(relay, x) /\ relay \in Seq(Wired)
    BY DEF Wire, Types, WriteTypes
  <1> HIDE DEF x
  <1> QED BY <1>1, <1>2, Pushed

LEMMA TakeKeeps == ASSUME ReplyInv, WriteTake PROVE SlotsParked' /\ NumbersGrow'
  <1> DEFINE item == Head(outbound)
  <1>1. item \in Item /\ seq \in Nat
    BY Popped DEF WriteTake, ReplyInv, Types, WriteTypes
  <1>2. /\ ~Writing /\ seq' = seq + 1 /\ writing' = item /\ incoming' = incoming
        /\ OnTake(item)
    BY DEF WriteTake, Writing
  <1>3. \A i \in 1..Len(incoming) : Reply(i) => incoming[i].n \in Nat /\ incoming[i].n <= seq
    BY Fields DEF ReplyInv, NumbersGrow
  <1>4. \A i \in 1..Len(relay) : Request(i) => relay[i].seq \in Nat /\ relay[i].seq <= seq
    BY Fields DEF ReplyInv, NumbersGrow
  <1> HIDE DEF item
  <1>5. CASE item.kind = "data"
    <2>1. /\ Len(relay') = Len(relay) + 1 /\ Len(relay) \in Nat /\ slots' = slots /\ ~Writing'
          /\ \A i \in 1..Len(relay) : relay'[i] = relay[i]
          /\ relay'[Len(relay) + 1].kind = "data"
      BY <1>1, <1>2, <1>5, WireLast DEF OnTake, Writing, ReplyInv
    <2>2. \A i \in 1..Len(relay') : Request(i)' => i \in 1..Len(relay) /\ Request(i)
      BY <2>1 DEF Request
    <2>3. SlotsParked'
      BY <1>2, <2>1, <2>2 DEF ReplyInv, SlotsParked, Reply
    <2>4. NumbersGrow'
      BY <1>1, <1>2, <1>3, <1>4, <2>1, <2>2 DEF ReplyInv, NumbersGrow, Reply
    <2> QED BY <2>3, <2>4
  <1>6. CASE item.kind # "data"
    <2>1. slots' = slots \union {seq + 1} /\ relay' = relay
      BY <1>2, <1>6 DEF OnTake
    <2>2. SlotsParked'
      BY <1>2, <2>1 DEF ReplyInv, SlotsParked, Reply, Request, Writing
    <2>3. NumbersGrow'
      BY <1>1, <1>2, <1>3, <1>4, <2>1 DEF ReplyInv, NumbersGrow, Reply, Request
    <2> QED BY <2>2, <2>3
  <1> QED BY <1>5, <1>6

LEMMA DoneKeeps == ASSUME ReplyInv, WriteDone PROVE SlotsParked' /\ NumbersGrow'
  <1>1. writing \in Item /\ writing # None /\ seq \in Nat
    BY DEF WriteDone, ReplyInv, Types, WriteTypes
  <1>2. ~Writing' /\ UNCHANGED <<incoming, slots, seq>>
    BY DEF WriteDone, Writing
  <1>3. CASE writing.kind = "data"
    <2>1. relay' = relay
      BY <1>3 DEF WriteDone
    <2> QED BY <1>2, <2>1 DEF ReplyInv, SlotsParked, NumbersGrow, Reply, Request
  <1>4. CASE writing.kind # "data"
    <2>1. relay' = Wire(writing, seq) /\ Writing
      BY <1>1, <1>4 DEF WriteDone, Writing, Item
    <2>2. /\ Len(relay') = Len(relay) + 1 /\ Len(relay) \in Nat
          /\ \A i \in 1..Len(relay) : relay'[i] = relay[i]
          /\ relay'[Len(relay) + 1].seq = seq
      BY <1>1, <2>1, WireLast DEF ReplyInv
    <2>3. /\ \A i \in 1..Len(relay) : Request(i)' <=> Request(i)
          /\ \A i \in 1..Len(relay') : i \in 1..Len(relay) \/ i = Len(relay) + 1
      BY <2>2 DEF Request
    <2>4. SlotsParked'
      BY <1>2, <2>1, <2>2, <2>3 DEF ReplyInv, SlotsParked, Reply
    <2>5. NumbersGrow'
      <3>1. \A i, j \in 1..Len(relay') : i < j /\ Request(i)' /\ Request(j)' => relay'[i].seq < relay'[j].seq
        BY <1>1, <2>1, <2>2, <2>3 DEF ReplyInv, NumbersGrow
      <3>2. \A i \in 1..Len(incoming'), j \in 1..Len(relay') :
              Reply(i)' /\ Request(j)' => incoming'[i].n < relay'[j].seq
        BY <1>1, <1>2, <2>1, <2>2, <2>3 DEF ReplyInv, NumbersGrow, Reply
      <3>3. /\ \A i \in 1..Len(incoming') : Reply(i)' => incoming'[i].n <= seq'
            /\ \A i \in 1..Len(relay') : Request(i)' => relay'[i].seq <= seq'
        BY <1>1, <1>2, <2>2, <2>3 DEF ReplyInv, NumbersGrow, Reply
      <3>4. \A i, j \in 1..Len(incoming') : i < j /\ Reply(i)' /\ Reply(j)' => incoming'[i].n < incoming'[j].n
        BY <1>2 DEF ReplyInv, NumbersGrow, Reply
      <3> QED BY <1>2, <3>1, <3>2, <3>3, <3>4 DEF NumbersGrow
    <2> QED BY <2>4, <2>5
  <1> QED BY <1>3, <1>4

LEMMA ReplyStep == ASSUME ReplyInv, [Next]_vars PROVE ReplyInv'
  <1> SUFFICES SlotsParked' /\ NumbersGrow'
    BY TypesStep DEF ReplyInv
  <1>1. ASSUME NEW p \in Peers, PeerSends(p) PROVE SlotsParked' /\ NumbersGrow'
    <2> DEFINE x == [kind |-> "envelope", peer |-> p, of |-> None, n |-> envelopes[p] + 1]
    <2>1. x \in Arrival /\ x.kind = "envelope" /\ x.peer = p
      BY DEF Arrival, Of, Link, ReplyInv, Types, ReadTypes
    <2>2. incoming' = Append(incoming, x) /\ UNCHANGED <<relay, slots, writing, seq>>
      BY <1>1 DEF PeerSends
    <2> HIDE DEF x
    <2> QED BY <2>1, <2>2, NoReplyPushed
  <1>2. ASSUME NEW p \in Peers, PeerGone(p) PROVE SlotsParked' /\ NumbersGrow'
    <2> DEFINE x == [kind |-> "gone", peer |-> p, of |-> None, n |-> 0]
    <2>1. x \in Arrival /\ x.kind = "gone" /\ x.peer = p
      BY DEF Arrival, Of, Link
    <2>2. incoming' = Append(incoming, x) /\ UNCHANGED <<relay, slots, writing, seq>>
      BY <1>2 DEF PeerGone
    <2> HIDE DEF x
    <2> QED BY <2>1, <2>2, NoReplyPushed
  <1>3. CASE ReadEnvelope \/ ReadGone \/ ReadStatus
    BY <1>3, ArrivalPopped DEF ReadEnvelope, ReadGone, ReadStatus, Received
  <1>4. CASE ReadReply
    <2>1. incoming # <<>> /\ Head(incoming).kind = "reply" /\ incoming' = Tail(incoming)
          /\ slots' = slots \ {Head(incoming).n} /\ UNCHANGED <<relay, writing, seq>>
      BY <1>4 DEF ReadReply, Received
    <2>2. Head(incoming) = incoming[1]
      BY <2>1, IncomingPopped DEF ReplyInv
    <2>3. Reply(1)
      BY <2>1, <2>2 DEF Reply
    <2> QED BY <2>1, <2>2, <2>3, ArrivalPopped
  <1>5. CASE Close
    BY <1>5 DEF Close, SlotsParked, NumbersGrow, Writing
  <1>6. CASE \/ Accept \/ Dropped \/ ReadDeliver \/ ReadReopen \/ ReadFull
             \/ \E p \in Probed : ProbeStream(p) \/ ProbeEnds(p)
             \/ \E ch \in Channels : StreamRead(ch) \/ StreamDrop(ch) \/ StreamWrite(ch)
             \/ \E c \in Callers : Ask(c) \/ AskTimeout(c)
             \/ UNCHANGED vars
    <2>1. UNCHANGED <<incoming, relay, slots, writing, seq>>
      BY <1>6 DEF Accept, Dropped, ReadDeliver, ReadReopen, ReadFull, ProbeStream, ProbeEnds,
                  StreamRead, StreamDrop, StreamWrite, Ask, AskTimeout, vars
    <2> QED BY <2>1, RepliesUntouched
  <1> QED BY <1>1, <1>2, <1>3, <1>4, <1>5, <1>6, AnswerKeeps, TakeKeeps, DoneKeeps
          DEF Next, ReadPump, AcceptLoop

LEMMA ReplyInit == Init => ReplyInv
  <1>1. Init => SlotsParked /\ NumbersGrow
    BY DEF Init, SlotsParked, NumbersGrow, Writing
  <1> QED BY <1>1, TypesInit DEF ReplyInv

(* A reply on its way to a caller that waits finds the slot parked: park_reply comes
   before the request is written, and no other reply takes its slot. *)
THEOREM ReplyTheorem == Spec => []ReplyFindsCaller
  <1>1. ReplyInv => ReplyFindsCaller
    <2>1. Types => DOMAIN incoming = 1..Len(incoming)
      BY DEF Types, WriteTypes
    <2> QED BY <2>1 DEF ReplyInv, SlotsParked, ReplyFindsCaller, Reply
  <1> QED BY <1>1, ReplyInit, ReplyStep, PTL DEF Spec

-----------------------------------------------------------------------------
(* Runs. *)

(* The numbers of the envelopes, as numbers. *)
LEMMA Numbers ==
    ASSUME Types
    PROVE  /\ Len(incoming) \in Nat /\ \A i \in 1..Len(incoming) : incoming[i].n \in Nat
           /\ \A p \in Peers : envelopes[p] \in Nat
           /\ Len(chan) \in Nat /\ \A ch \in 1..Len(chan) : chan[ch].last \in Nat
           /\ read # None => read.peer \in Peers /\ read.n \in Nat /\ read.to \in 1..Len(chan)
  <1>1. Len(incoming) \in Nat /\ Len(chan) \in Nat
    BY DEF Types, ReadTypes, WriteTypes
  <1>2. \A ch \in 1..Len(chan) : chan[ch] \in Chan
    BY DEF Types, ReadTypes
  <1>3. \A c \in Chan : c.last \in Nat
    BY DEF Chan
  <1>4. read # None => read \in Hand /\ read.to \in 1..Len(chan)
    BY DEF Types, ReadTypes, Linked
  <1>5. \A r \in Hand : r.peer \in Peers /\ r.n \in Nat
    BY DEF Hand
  <1>6. \A p \in Peers : envelopes[p] \in Nat
    BY DEF Types, ReadTypes
  <1> QED BY <1>1, <1>2, <1>3, <1>4, <1>5, <1>6, Fields

(* Something that is no envelope comes onto the connection. *)
LEMMA OtherPushed ==
    ASSUME Types, Consecutive, NEW x \in Arrival, incoming' = Append(incoming, x),
           x.kind # "envelope", x.kind = "gone" => x.peer \in Peers, UNCHANGED envelopes
    PROVE  /\ Consecutive'
           /\ \A p \in Peers, m \in Nat : Taken(p, m) => Taken(p, m)'
  <1>1. /\ Len(incoming') = Len(incoming) + 1 /\ Len(incoming) \in Nat
        /\ incoming'[Len(incoming) + 1] = x
        /\ \A i \in 1..Len(incoming) : incoming'[i] = incoming[i]
    BY IncomingPushed
  <1>2. /\ \A i \in 1..Len(incoming'), p \in Peers : Envelope(i, p)' => i \in 1..Len(incoming)
        /\ \A i \in 1..Len(incoming), p \in Peers : Envelope(i, p)' <=> Envelope(i, p)
        /\ 1..Len(incoming) \subseteq 1..Len(incoming')
    BY <1>1 DEF Envelope
  <1>3. Consecutive'
    BY <1>1, <1>2 DEF Consecutive
  <1>4. ASSUME NEW p \in Peers, NEW m \in Nat, Taken(p, m) PROVE Taken(p, m)'
    BY <1>1, <1>2, <1>4 DEF Taken
  <1> QED BY <1>3, <1>4

(* The next envelope of a peer comes onto the connection. *)
LEMMA EnvelopePushed ==
    ASSUME Types, Consecutive, NEW q \in Peers, PeerSends(q)
    PROVE  /\ Consecutive'
           /\ \A p \in Peers, m \in Nat : Taken(p, m) => Taken(p, m)'
  <1> DEFINE x == [kind |-> "envelope", peer |-> q, of |-> None, n |-> envelopes[q] + 1]
             k == Len(incoming) + 1
  <1>0. /\ envelopes[q] \in Nat /\ envelopes' = [envelopes EXCEPT ![q] = @ + 1]
        /\ envelopes \in [Peers -> Nat]
    BY DEF PeerSends, Types, ReadTypes
  <1>1. x \in Arrival /\ x.kind = "envelope" /\ x.peer = q /\ x.n = envelopes[q] + 1
    BY <1>0 DEF Arrival, Of, Link
  <1>2. incoming' = Append(incoming, x)
    BY DEF PeerSends
  <1> HIDE DEF x
  <1>3. /\ Len(incoming') = k /\ Len(incoming) \in Nat /\ incoming'[k] = x
        /\ \A i \in 1..Len(incoming) : incoming'[i] = incoming[i]
    BY <1>1, <1>2, IncomingPushed
  <1>4. /\ \A i \in 1..Len(incoming') : i \in 1..Len(incoming) \/ i = k
        /\ k \in 1..Len(incoming') /\ 1..Len(incoming) \subseteq 1..Len(incoming')
        /\ \A i \in 1..Len(incoming) : i < k
    BY <1>3
  <1> HIDE DEF k
  <1>5. /\ \A i \in 1..Len(incoming), p \in Peers : Envelope(i, p)' <=> Envelope(i, p)
        /\ \A i, p : i = k => (Envelope(i, p)' <=> p = q)
        /\ incoming'[k].n = envelopes[q] + 1
    BY <1>1, <1>3 DEF Envelope
  <1>6. \A p \in Peers : envelopes'[p] = IF p = q THEN envelopes[q] + 1 ELSE envelopes[p]
    BY <1>0
  <1>7. \A i \in 1..Len(incoming) : incoming[i].n \in Nat
    BY Numbers
  <1>8. ASSUME NEW p \in Peers, NEW m \in Nat, Taken(p, m) PROVE Taken(p, m)'
    <2>1. m <= envelopes[p]
      BY <1>7, <1>8, Numbers DEF Taken, Consecutive
    <2>2. m = envelopes'[p] \/ \E i \in 1..Len(incoming') : Envelope(i, p)' /\ incoming'[i].n = m + 1
      BY <1>3, <1>4, <1>5, <1>6, <1>8 DEF Taken
    <2>3. \A i \in 1..Len(incoming') : Envelope(i, p)' => incoming'[i].n > m
      BY <1>0, <1>3, <1>4, <1>5, <1>8, <2>1 DEF Taken
    <2> QED BY <2>2, <2>3 DEF Taken
  <1>9. Consecutive'
    <2> SUFFICES ASSUME NEW i \in 1..Len(incoming'), NEW p \in Peers, Envelope(i, p)'
                 PROVE  LET n == incoming'[i].n IN
                        /\ n <= envelopes'[p]
                        /\ n = envelopes'[p] \/ \E j \in 1..Len(incoming') : Envelope(j, p)' /\ incoming'[j].n = n + 1
                        /\ \A j \in 1..Len(incoming') : i < j /\ Envelope(j, p)' => n < incoming'[j].n
      BY DEF Consecutive
    <2>1. CASE i = k
      BY <1>0, <1>3, <1>4, <1>5, <1>6, <2>1
    <2>2. CASE i \in 1..Len(incoming)
      <3>1. Envelope(i, p) /\ incoming'[i].n = incoming[i].n /\ incoming[i].n \in Nat
        BY <1>3, <1>5, <1>7, <2>2
      <3>2. incoming[i].n <= envelopes[p] /\ envelopes[p] \in Nat
        BY <2>2, <3>1, Numbers DEF Consecutive
      <3>3. incoming'[i].n <= envelopes'[p]
        BY <1>6, <3>1, <3>2
      <3>4. \/ incoming'[i].n = envelopes'[p]
            \/ \E j \in 1..Len(incoming') : Envelope(j, p)' /\ incoming'[j].n = incoming'[i].n + 1
        BY <1>3, <1>4, <1>5, <1>6, <2>2, <3>1 DEF Consecutive
      <3>5. \A j \in 1..Len(incoming') : i < j /\ Envelope(j, p)' => incoming'[i].n < incoming'[j].n
        BY <1>3, <1>4, <1>5, <2>2, <3>1, <3>2 DEF Consecutive
      <3> QED BY <3>3, <3>4, <3>5
    <2> QED BY <1>4, <2>1, <2>2
  <1> QED BY <1>8, <1>9

(* The read pump takes something; of an envelope it has then taken the number. *)
LEMMA TakenPopped ==
    ASSUME Types, Consecutive, incoming # <<>>, incoming' = Tail(incoming), UNCHANGED envelopes
    PROVE  /\ Consecutive'
           /\ \A p \in Peers, m \in Nat : ~Envelope(1, p) /\ Taken(p, m) => Taken(p, m)'
           /\ \A p \in Peers : \A m \in Nat : Envelope(1, p) /\ m = incoming[1].n => Taken(p, m)'
           /\ \A p \in Peers, m \in Nat : Envelope(1, p) /\ Taken(p, m) => incoming[1].n = m + 1
  <1>1. /\ Len(incoming) \in Nat /\ Len(incoming') = Len(incoming) - 1 /\ 1 \in 1..Len(incoming)
        /\ \A i \in 1..Len(incoming') : incoming'[i] = incoming[i + 1] /\ i + 1 \in 1..Len(incoming)
    BY IncomingPopped
  <1>2. /\ \A i \in 1..Len(incoming'), p \in Peers : Envelope(i, p)' <=> Envelope(i + 1, p)
        /\ \A j \in 1..Len(incoming) : j = 1 \/ (j - 1 \in 1..Len(incoming') /\ (j - 1) + 1 = j)
    BY <1>1 DEF Envelope
  <1>3. /\ \A i \in 1..Len(incoming) : incoming[i].n \in Nat
        /\ \A p \in Peers : envelopes[p] \in Nat
    BY Numbers
  <1>4. \A p \in Peers, m \in Nat : Envelope(1, p) /\ Taken(p, m) => incoming[1].n = m + 1
    BY <1>1, <1>3 DEF Taken, Consecutive
  <1>5. \A j \in 1..Len(incoming) : j # 1 =>
          /\ incoming'[j - 1] = incoming[j]
          /\ \A p \in Peers, i \in 1..Len(incoming') : i = j - 1 => (Envelope(i, p)' <=> Envelope(j, p))
    BY <1>1, <1>2
  <1>6. ASSUME NEW p \in Peers, NEW m \in Nat, ~Envelope(1, p), Taken(p, m) PROVE Taken(p, m)'
    <2>1. \A i \in 1..Len(incoming') : Envelope(i, p)' => incoming'[i].n > m
      BY <1>1, <1>2, <1>6 DEF Taken
    <2>2. m = envelopes'[p] \/ \E i \in 1..Len(incoming') : Envelope(i, p)' /\ incoming'[i].n = m + 1
      <3>1. CASE m = envelopes[p]
        BY <3>1
      <3>2. ASSUME NEW j \in 1..Len(incoming), Envelope(j, p), incoming[j].n = m + 1
            PROVE  \E i \in 1..Len(incoming') : Envelope(i, p)' /\ incoming'[i].n = m + 1
        <4>1. j # 1 /\ j - 1 \in 1..Len(incoming')
          BY <1>2, <1>6, <3>2
        <4> QED BY <1>5, <3>2, <4>1
      <3> QED BY <1>6, <3>1, <3>2 DEF Taken
    <2> QED BY <2>1, <2>2 DEF Taken
  <1>7. ASSUME NEW p \in Peers, NEW m \in Nat, Envelope(1, p), m = incoming[1].n PROVE Taken(p, m)'
    <2>1. \A i \in 1..Len(incoming') : Envelope(i, p)' => incoming'[i].n > m
      BY <1>1, <1>2, <1>3, <1>7 DEF Consecutive
    <2>2. m = envelopes'[p] \/ \E i \in 1..Len(incoming') : Envelope(i, p)' /\ incoming'[i].n = m + 1
      <3>1. CASE m = envelopes[p]
        BY <3>1
      <3>2. ASSUME NEW j \in 1..Len(incoming), Envelope(j, p), incoming[j].n = m + 1
            PROVE  \E i \in 1..Len(incoming') : Envelope(i, p)' /\ incoming'[i].n = m + 1
        <4>1. j # 1 /\ j - 1 \in 1..Len(incoming')
          BY <1>2, <1>3, <1>7, <3>2
        <4> QED BY <1>5, <3>2, <4>1
      <3> QED BY <1>1, <1>7, <3>1, <3>2 DEF Consecutive
    <2> QED BY <2>1, <2>2 DEF Taken
  <1>8. Consecutive'
    <2> SUFFICES ASSUME NEW i \in 1..Len(incoming'), NEW p \in Peers, Envelope(i, p)'
                 PROVE  LET n == incoming'[i].n IN
                        /\ n <= envelopes'[p]
                        /\ n = envelopes'[p] \/ \E j \in 1..Len(incoming') : Envelope(j, p)' /\ incoming'[j].n = n + 1
                        /\ \A j \in 1..Len(incoming') : i < j /\ Envelope(j, p)' => n < incoming'[j].n
      BY DEF Consecutive
    <2>1. Envelope(i + 1, p) /\ incoming'[i].n = incoming[i + 1].n /\ i + 1 \in 1..Len(incoming)
      BY <1>1, <1>2
    <2>2. incoming'[i].n <= envelopes'[p]
      BY <2>1 DEF Consecutive
    <2>3. \A j \in 1..Len(incoming') : i < j /\ Envelope(j, p)' => incoming'[i].n < incoming'[j].n
      BY <1>1, <1>2, <2>1 DEF Consecutive
    <2>4. \/ incoming'[i].n = envelopes'[p]
          \/ \E j \in 1..Len(incoming') : Envelope(j, p)' /\ incoming'[j].n = incoming'[i].n + 1
      <3>1. CASE incoming[i + 1].n = envelopes[p]
        BY <2>1, <3>1
      <3>2. ASSUME NEW j \in 1..Len(incoming), Envelope(j, p), incoming[j].n = incoming[i + 1].n + 1
            PROVE  \E l \in 1..Len(incoming') : Envelope(l, p)' /\ incoming'[l].n = incoming'[i].n + 1
        <4>1. j # 1
          <5>1. j = 1 => incoming[1].n < incoming[i + 1].n
            BY <1>1, <2>1, <3>2 DEF Consecutive
          <5> QED BY <1>1, <1>3, <2>1, <3>2, <5>1
        <4>2. j - 1 \in 1..Len(incoming')
          BY <1>2, <4>1
        <4> QED BY <1>5, <2>1, <3>2, <4>1, <4>2
      <3> QED BY <2>1, <3>1, <3>2 DEF Consecutive
    <2> QED BY <2>2, <2>3, <2>4
  <1> QED BY <1>4, <1>6, <1>7, <1>8

(* What the runs rest on, of a session that is up. *)
Runs == Consecutive /\ TableRuns /\ HandRuns

LEMMA GapKept ==
    ASSUME Types, Types', NoGapWithin, \A ch \in 1..Len(chan) : Kept(ch),
           Len(chan') = Len(chan) \/ (Len(chan') = Len(chan) + 1 /\ ~chan'[Len(chan) + 1].gap)
    PROVE  NoGapWithin'
  <1>1. Len(chan) \in Nat /\ Channels = 1..Len(chan) /\ Channels' = 1..Len(chan')
    BY DEF Types, ReadTypes, Channels
  <1> QED BY <1>1 DEF NoGapWithin, Kept

(* Channels may end and entries may go: the runs that are left are what they were.
   The chunk in hand goes only together with its peer's entry. *)
LEMMA RunsKept ==
    ASSUME Types, Runs, \A ch \in 1..Len(chan) : Kept(ch), Consecutive',
           \A p \in Peers, m \in Nat : Taken(p, m) => Taken(p, m)',
           \A p \in Peers : live'[p] \in {live[p], None},
           read' = read \/ (read' = None /\ (read # None => live'[read.peer] = None))
    PROVE  Runs'
  <1>1. /\ \A ch \in 1..Len(chan) : chan[ch].last \in Nat
        /\ read # None => read.peer \in Peers /\ read.n \in Nat /\ read.to \in 1..Len(chan)
    BY Numbers
  <1>2. \A p \in Peers : live[p] # None => live[p] \in 1..Len(chan)
    BY DEF Types, Linked
  <1>3. TableRuns'
    <2> SUFFICES ASSUME NEW p \in Peers, live'[p] # None, ~(read' # None /\ read'.peer = p)
                 PROVE  chan'[live'[p]].last = 0 \/ (\A m \in Nat : m = chan'[live'[p]].last => Taken(p, m)')
      <3>1. \A p \in Peers : live'[p] # None => chan'[live'[p]].last \in Nat
        BY <1>1, <1>2 DEF Kept
      <3> QED BY <3>1 DEF TableRuns
    <2>1. live'[p] = live[p] /\ live[p] \in 1..Len(chan) /\ ~(read # None /\ read.peer = p)
      BY <1>2
    <2>2. chan[live[p]].last = 0 \/ Taken(p, chan[live[p]].last)
      BY <2>1 DEF Runs, TableRuns
    <2> QED BY <1>1, <2>1, <2>2 DEF Kept
  <1>4. HandRuns'
    <2> SUFFICES ASSUME read' # None
                 PROVE  /\ \A p \in Peers, m \in Nat : p = read'.peer /\ m = read'.n => Taken(p, m)'
                        /\ chan'[read'.to].last = 0 \/ chan'[read'.to].last + 1 = read'.n
                        /\ live'[read'.peer] \in {None, read'.to} \/ chan'[live'[read'.peer]].last = 0
      BY <1>1 DEF HandRuns
    <2>1. read' = read /\ Taken(read.peer, read.n)
      BY DEF Runs, HandRuns
    <2>2. chan'[read.to].last = 0 \/ chan'[read.to].last + 1 = read.n
      BY <1>1, <2>1 DEF Runs, HandRuns, Kept
    <2>3. live'[read.peer] \in {None, read.to} \/ chan'[live'[read.peer]].last = 0
      BY <1>1, <1>2, <2>1 DEF Runs, HandRuns, Kept
    <2> QED BY <2>1, <2>2, <2>3
  <1> QED BY <1>3, <1>4 DEF Runs

(* A channel enters the table with nothing in it, while a chunk may be in hand. *)
LEMMA RunsEntered ==
    ASSUME Types, Runs, \A ch \in 1..Len(chan) : Kept(ch), NEW p \in Peers, NEW new,
           Entered(p, new), new.last = 0, UNCHANGED <<read, incoming, envelopes>>
    PROVE  Runs'
  <1>1. /\ Len(chan) \in Nat /\ \A ch \in 1..Len(chan) : chan[ch].last \in Nat
        /\ read # None => read.peer \in Peers /\ read.n \in Nat /\ read.to \in 1..Len(chan)
    BY Numbers
  <1>2. \A q \in Peers : live[q] # None => live[q] \in 1..Len(chan)
    BY DEF Types, Linked
  <1>3. \A q \in Peers : live'[q] = IF q = p THEN Len(chan) + 1 ELSE live[q]
    BY DEF Entered, Types, ReadTypes
  <1>4. chan'[Len(chan) + 1].last = 0
    BY DEF Entered
  <1>5. Consecutive' /\ \A q, m : Taken(q, m)' <=> Taken(q, m)
    BY DEF Runs, Consecutive, Taken, Envelope
  <1>6. TableRuns'
    <2> SUFFICES ASSUME NEW q \in Peers, live'[q] # None, ~(read # None /\ read.peer = q)
                 PROVE  chan'[live'[q]].last = 0 \/ Taken(q, chan'[live'[q]].last)
      BY <1>5 DEF TableRuns
    <2>1. CASE q = p
      BY <1>3, <1>4, <2>1
    <2>2. CASE q # p
      BY <1>2, <1>3, <2>2 DEF Runs, TableRuns, Kept
    <2> QED BY <2>1, <2>2
  <1>7. HandRuns'
    <2> SUFFICES ASSUME read # None
                 PROVE  /\ Taken(read.peer, read.n)
                        /\ chan'[read.to].last = 0 \/ chan'[read.to].last + 1 = read.n
                        /\ live'[read.peer] \in {None, read.to} \/ chan'[live'[read.peer]].last = 0
      BY <1>5 DEF HandRuns
    <2>1. chan'[read.to].last = 0 \/ chan'[read.to].last + 1 = read.n
      BY <1>1 DEF Runs, HandRuns, Kept
    <2>2. live'[read.peer] \in {None, read.to} \/ chan'[live'[read.peer]].last = 0
      BY <1>1, <1>2, <1>3, <1>4 DEF Runs, HandRuns, Kept
    <2> QED BY <2>1, <2>2 DEF Runs, HandRuns
  <1> QED BY <1>5, <1>6, <1>7 DEF Runs

LEMMA EnvelopeKeeps == ASSUME Types, Types', NoGapWithin, Runs, ReadEnvelope PROVE NoGapWithin' /\ Runs'
  <1> DEFINE p == Head(incoming).peer
             n == Head(incoming).n
  <1>0. read = None /\ incoming # <<>> /\ incoming' = Tail(incoming) /\ Head(incoming).kind = "envelope"
        /\ UNCHANGED envelopes
    BY DEF ReadEnvelope, Received
  <1>1. Head(incoming) = incoming[1] /\ p \in Peers /\ n \in Nat
    BY <1>0, IncomingPopped DEF Arrival
  <1>2. \A q \in Peers : Envelope(1, q) <=> q = p
    BY <1>0, <1>1 DEF Envelope
  <1>3. /\ Consecutive'
        /\ \A q \in Peers, m \in Nat : q # p /\ Taken(q, m) => Taken(q, m)'
        /\ \A q \in Peers, m \in Nat : q = p /\ m = n => Taken(q, m)'
        /\ \A m \in Nat : Taken(p, m) => n = m + 1
    BY <1>0, <1>1, <1>2, TakenPopped DEF Runs
  <1>4. /\ Len(chan) \in Nat /\ \A ch \in 1..Len(chan) : chan[ch].last \in Nat
        /\ \A q \in Peers : live[q] # None => live[q] \in 1..Len(chan)
    BY Numbers DEF Types, Linked
  <1>5. \A q \in Peers : live[q] # None => chan[live[q]].last = 0 \/ Taken(q, chan[live[q]].last)
    BY <1>0 DEF Runs, TableRuns
  <1>6. CASE live[p] # None
    <2>1. read' = [peer |-> p, n |-> n, to |-> live[p]] /\ UNCHANGED <<chan, live>>
      BY <1>6 DEF ReadEnvelope
    <2>2. read'.peer = p /\ read'.n = n /\ read'.to = live[p]
      BY <2>1
    <2> HIDE DEF p, n
    <2>3. TableRuns'
      <3> SUFFICES ASSUME NEW q \in Peers, live'[q] # None, ~(read' # None /\ read'.peer = q)
                   PROVE  chan'[live'[q]].last = 0 \/ (\A m \in Nat : m = chan'[live'[q]].last => Taken(q, m)')
        BY <1>4, <2>1 DEF TableRuns
      <3>1. CASE q # p
        BY <1>3, <1>4, <1>5, <2>1, <3>1
      <3>2. CASE q = p
        <4>1. live[p] \in Nat
          BY <1>1, <1>4, <1>6
        <4>2. read' \in [peer : Peers, n : Nat, to : Nat]
          BY <1>1, <2>1, <4>1 DEF p, n
        <4> QED BY <2>2, <3>2, <4>2, SessionAssumption
      <3> QED BY <3>1, <3>2
    <2>4. HandRuns'
      BY <1>1, <1>3, <1>4, <1>5, <1>6, <2>1, <2>2 DEF HandRuns
    <2> QED BY <1>3, <2>1, <2>3, <2>4 DEF Runs, NoGapWithin, Channels
  <1>7. CASE live[p] = None
    <2>1. Parked(p, NewChannel(p)) /\ read' = [peer |-> p, n |-> n, to |-> Len(chan) + 1]
      BY <1>7 DEF ReadEnvelope
    <2>2. read'.peer = p /\ read'.n = n /\ read'.to = Len(chan) + 1
      BY <2>1
    <2>3. NewChannel(p) \in Chan /\ NewChannel(p).last = 0 /\ ~NewChannel(p).gap
      BY <1>1, NewTypes
    <2>4. (\A ch \in 1..Len(chan) : Kept(ch)) /\ Entered(p, NewChannel(p))
      BY <1>1, <2>1, <2>3, ParkedKeeps
    <2>5. \A q \in Peers : live'[q] = IF q = p THEN Len(chan) + 1 ELSE live[q]
      BY <2>4 DEF Entered, Types, ReadTypes
    <2>6. chan'[Len(chan) + 1].last = 0 /\ ~chan'[Len(chan) + 1].gap /\ Len(chan') = Len(chan) + 1
      BY <2>3, <2>4 DEF Entered
    <2> HIDE DEF p, n
    <2>7. TableRuns'
      <3> SUFFICES ASSUME NEW q \in Peers, live'[q] # None
                   PROVE  chan'[live'[q]].last = 0 \/ (\A m \in Nat : m = chan'[live'[q]].last => Taken(q, m)')
        <4>1. \A q \in Peers : live'[q] # None => chan'[live'[q]].last \in Nat
          BY <1>4, <2>4, <2>5, <2>6 DEF Kept
        <4> QED BY <4>1 DEF TableRuns
      <3>1. CASE q # p
        BY <1>3, <1>4, <1>5, <2>4, <2>5, <3>1 DEF Kept
      <3>2. CASE q = p
        BY <2>5, <2>6, <3>2
      <3> QED BY <3>1, <3>2
    <2>8. HandRuns'
      BY <1>1, <1>3, <2>2, <2>5, <2>6 DEF HandRuns
    <2>9. NoGapWithin'
      BY <2>4, <2>6, GapKept
    <2> QED BY <1>3, <2>7, <2>8, <2>9 DEF Runs
  <1> QED BY <1>6, <1>7

LEMMA DeliverKeeps == ASSUME Types, Types', NoGapWithin, Runs, ReadDeliver PROVE NoGapWithin' /\ Runs'
  <1> DEFINE p == read.peer
             c == read.to
  <1>0. read # None /\ read' = None /\ UNCHANGED <<live, incoming, envelopes>>
    BY DEF ReadDeliver, Sending
  <1>1. /\ p \in Peers /\ read.n \in Nat /\ c \in 1..Len(chan) /\ chan[c].peer = p
        /\ Len(chan) \in Nat /\ \A ch \in 1..Len(chan) : chan[ch].last \in Nat
    BY <1>0, Numbers DEF Types, Linked
  <1>2. /\ Len(chan') = Len(chan)
        /\ \A x \in 1..Len(chan) \ {c} : chan'[x] = chan[x]
        /\ chan'[c].last = read.n
        /\ chan'[c].gap = (chan[c].gap \/ Skips(chan[c], read.n))
    BY DeliverPuts
  <1>3. /\ Taken(p, read.n)
        /\ chan[c].last = 0 \/ chan[c].last + 1 = read.n
        /\ live[p] \in {None, c} \/ chan[live[p]].last = 0
    BY <1>0 DEF Runs, HandRuns
  <1>4. Consecutive' /\ \A q, m : Taken(q, m)' <=> Taken(q, m)
    BY <1>0 DEF Runs, Consecutive, Taken, Envelope
  <1>5. \A q \in Peers : live[q] # None => live[q] \in 1..Len(chan) /\ chan[live[q]].peer = q
    BY DEF Types, Linked
  <1>6. NoGapWithin'
    <2>1. ~Skips(chan[c], read.n)
      BY <1>1, <1>3 DEF Skips
    <2>2. Channels = 1..Len(chan) /\ Channels' = 1..Len(chan')
      BY DEF Types, ReadTypes, Channels
    <2>3. ~chan[c].gap
      BY <1>1, <2>2 DEF NoGapWithin
    <2>4. ~chan'[c].gap
      BY <1>2, <2>1, <2>3
    <2> QED BY <1>2, <2>2, <2>4 DEF NoGapWithin
  <1>7. TableRuns'
    <2> SUFFICES ASSUME NEW q \in Peers, live[q] # None
                 PROVE  chan'[live[q]].last = 0 \/ Taken(q, chan'[live[q]].last)
      BY <1>0, <1>4 DEF TableRuns
    <2>1. CASE q = p
      BY <1>2, <1>3, <1>5, <2>1
    <2>2. CASE q # p
      BY <1>1, <1>2, <1>5, <2>2 DEF Runs, TableRuns
    <2> QED BY <2>1, <2>2
  <1>8. HandRuns'
    BY <1>0 DEF HandRuns
  <1> QED BY <1>4, <1>6, <1>7, <1>8 DEF Runs

LEMMA ReopenKeeps == ASSUME Types, Types', NoGapWithin, Runs, ReadReopen PROVE NoGapWithin' /\ Runs'
  <1> DEFINE p == read.peer
             new == Put(NewChannel(p), read.n)
  <1>0. read # None /\ read' = None /\ Parked(p, new) /\ UNCHANGED <<incoming, envelopes>>
    BY DEF ReadReopen, Sending
  <1>1. /\ p \in Peers /\ read.n \in Nat
        /\ Len(chan) \in Nat /\ \A ch \in 1..Len(chan) : chan[ch].last \in Nat
    BY <1>0, Numbers
  <1>2. new \in Chan /\ new.last = read.n /\ ~new.gap
    BY <1>1, NewTypes
  <1>3. (\A ch \in 1..Len(chan) : Kept(ch)) /\ Entered(p, new)
    BY <1>0, <1>1, <1>2, ParkedKeeps
  <1> HIDE DEF new
  <1>4. \A q \in Peers : live'[q] = IF q = p THEN Len(chan) + 1 ELSE live[q]
    BY <1>3 DEF Entered, Types, ReadTypes
  <1>5. chan'[Len(chan) + 1].last = read.n /\ ~chan'[Len(chan) + 1].gap /\ Len(chan') = Len(chan) + 1
    BY <1>2, <1>3 DEF Entered
  <1>6. Consecutive' /\ \A q, m : Taken(q, m)' <=> Taken(q, m)
    BY <1>0 DEF Runs, Consecutive, Taken, Envelope
  <1>7. TableRuns'
    <2> SUFFICES ASSUME NEW q \in Peers, live'[q] # None
                 PROVE  chan'[live'[q]].last = 0 \/ Taken(q, chan'[live'[q]].last)
      BY <1>6 DEF TableRuns
    <2>1. CASE q = p
      BY <1>0, <1>4, <1>5, <2>1 DEF Runs, HandRuns
    <2>2. CASE q # p
      <3>1. live'[q] = live[q] /\ live[q] \in 1..Len(chan)
        BY <1>4, <2>2 DEF Types, Linked
      <3> QED BY <1>3, <2>2, <3>1 DEF Runs, TableRuns, Kept
    <2> QED BY <2>1, <2>2
  <1>8. HandRuns'
    BY <1>0 DEF HandRuns
  <1>9. NoGapWithin'
    BY <1>3, <1>5, GapKept
  <1> QED BY <1>6, <1>7, <1>8, <1>9 DEF Runs

LEMMA RunStep == ASSUME RunInv, [Next]_vars PROVE RunInv'
  <1> SUFFICES NoGapWithin' /\ (Up' => Runs')
    BY TypesStep DEF RunInv, Runs
  <1>0. Types /\ Types' /\ NoGapWithin /\ (Up => Runs)
    BY TypesStep DEF RunInv, Runs
  <1>same. UNCHANGED chan => (\A ch \in 1..Len(chan) : Kept(ch)) /\ NoGapWithin'
    BY <1>0 DEF Kept, NoGapWithin, Channels
  <1>still. UNCHANGED <<incoming, envelopes>> =>
              /\ Consecutive => Consecutive'
              /\ \A p \in Peers, m \in Nat : Taken(p, m) => Taken(p, m)'
    BY DEF Consecutive, Taken, Envelope
  <1>1. ASSUME NEW p \in Peers, PeerSends(p) PROVE NoGapWithin' /\ (Up' => Runs')
    <2>1. Up /\ UNCHANGED <<chan, live, read>>
      BY <1>1 DEF PeerSends, Connected
    <2>2. Consecutive' /\ \A q \in Peers, m \in Nat : Taken(q, m) => Taken(q, m)'
      BY <1>0, <1>1, <2>1, EnvelopePushed DEF Runs
    <2> QED BY <1>0, <1>same, <2>1, <2>2, RunsKept
  <1>push. ASSUME NEW x \in Arrival, incoming' = Append(incoming, x), x.kind # "envelope",
                  x.kind = "gone" => x.peer \in Peers, UNCHANGED <<chan, live, read, envelopes>>, Up
           PROVE  NoGapWithin' /\ (Up' => Runs')
    <2>1. Consecutive' /\ \A q \in Peers, m \in Nat : Taken(q, m) => Taken(q, m)'
      BY <1>0, <1>push, OtherPushed DEF Runs
    <2> QED BY <1>0, <1>same, <1>push, <2>1, RunsKept
  <1>2. ASSUME NEW p \in Peers, PeerGone(p) PROVE NoGapWithin' /\ (Up' => Runs')
    <2> DEFINE x == [kind |-> "gone", peer |-> p, of |-> None, n |-> 0]
    <2>1. x \in Arrival /\ x.kind = "gone" /\ x.peer = p
      BY DEF Arrival, Of, Link
    <2>2. incoming' = Append(incoming, x) /\ UNCHANGED <<chan, live, read, envelopes>> /\ Up
      BY <1>2 DEF PeerGone, Connected
    <2> HIDE DEF x
    <2> QED BY <1>push, <2>1, <2>2
  <1>3. CASE RelayAnswers
    <2> DEFINE item == Head(relay)
    <2>1. item \in Wired
      BY <1>0, <1>3, Popped DEF RelayAnswers, Types, WriteTypes
    <2>2. PICK outcome \in {"delivered", "failed", "reply"} :
            incoming' = Append(incoming, [kind |-> outcome, peer |-> item.peer, of |-> item.of, n |-> item.seq])
      BY <1>3 DEF RelayAnswers
    <2> DEFINE x == [kind |-> outcome, peer |-> item.peer, of |-> item.of, n |-> item.seq]
    <2>3. x \in Arrival /\ x.kind = outcome /\ incoming' = Append(incoming, x)
      BY <2>1, <2>2 DEF Arrival, Wired
    <2>4. UNCHANGED <<chan, live, read, envelopes>> /\ Up
      BY <1>3 DEF RelayAnswers, Connected
    <2> HIDE DEF x, item
    <2> QED BY <1>push, <2>3, <2>4
  <1>stream. ASSUME NEW p \in Peers, StreamFor(p), UNCHANGED <<read, incoming, envelopes, session>>
             PROVE  NoGapWithin' /\ (Up' => Runs')
    <2>1. /\ \A ch \in 1..Len(chan) : Kept(ch)
          /\ \/ live' = live /\ Len(chan') = Len(chan)
             \/ \E new \in Chan : Entered(p, new) /\ new.peer = p /\ new.last = 0 /\ ~new.gap
      BY <1>0, <1>stream, StreamForKeeps
    <2>2. CASE live' = live /\ Len(chan') = Len(chan)
      BY <1>0, <1>still, <1>stream, <2>1, <2>2, GapKept, RunsKept DEF Up, Runs
    <2>3. ASSUME NEW new \in Chan, Entered(p, new), new.last = 0, ~new.gap
          PROVE  NoGapWithin' /\ (Up' => Runs')
      <3>1. NoGapWithin'
        BY <1>0, <2>1, <2>3, GapKept DEF Entered
      <3>2. Up' => Runs'
        BY <1>0, <1>stream, <2>1, <2>3, RunsEntered DEF Up
      <3> QED BY <3>1, <3>2
    <2> QED BY <2>1, <2>2, <2>3
  <1>4. CASE Accept
    <2>1. Head(announced) \in Peers
      BY <1>0, <1>4, Popped DEF Accept, Types, ReadTypes
    <2> QED BY <1>4, <1>stream, <2>1 DEF Accept
  <1>5. ASSUME NEW p \in Probed, ProbeStream(p) PROVE NoGapWithin' /\ (Up' => Runs')
    BY <1>5, <1>stream, SessionAssumption DEF ProbeStream
  <1>6. ASSUME NEW ch \in Channels, StreamRead(ch) \/ StreamDrop(ch)
        PROVE  NoGapWithin' /\ (Up' => Runs')
    <2>1. Len(chan') = Len(chan) /\ \A x \in 1..Len(chan) : Kept(x)
      BY <1>0, <1>6, StreamReadKeeps
    <2>2. UNCHANGED <<live, read, incoming, envelopes, session>>
      BY <1>6 DEF StreamRead, StreamDrop
    <2>3. NoGapWithin'
      BY <1>0, <2>1, GapKept
    <2> QED BY <1>0, <1>still, <2>1, <2>2, <2>3, RunsKept DEF Up, Runs
  <1>7. CASE ReadEnvelope
    <2>1. Up
      BY <1>7 DEF ReadEnvelope, Received
    <2> QED BY <1>0, <1>7, <2>1, EnvelopeKeeps
  <1>8. CASE ReadDeliver \/ ReadReopen
    <2>1. Up
      BY <1>8 DEF ReadDeliver, ReadReopen, Sending
    <2> QED BY <1>0, <1>8, <2>1, DeliverKeeps, ReopenKeeps
  <1>9. CASE ReadFull
    <2>1. /\ Up /\ read # None /\ read' = None /\ UNCHANGED <<chan, incoming, envelopes>>
          /\ live' = [live EXCEPT ![read.peer] = None]
      BY <1>9 DEF ReadFull, Sending, Unlinked
    <2>2. live'[read.peer] = None /\ \A p \in Peers : live'[p] \in {live[p], None}
      BY <1>0, <2>1, Numbers DEF Types, ReadTypes
    <2> QED BY <1>0, <1>same, <1>still, <2>1, <2>2, RunsKept DEF Runs
  <1>10. CASE ReadGone \/ ReadStatus \/ ReadReply
    <2>1. /\ Up /\ read' = read /\ incoming # <<>> /\ incoming' = Tail(incoming)
          /\ Head(incoming).kind # "envelope" /\ UNCHANGED <<chan, envelopes>>
      BY <1>10 DEF ReadGone, ReadStatus, ReadReply, Received
    <2>2. \A p \in Peers : live'[p] \in {live[p], None}
      BY <1>0, <1>10 DEF ReadGone, ReadStatus, ReadReply, Types, ReadTypes
    <2>3. \A p \in Peers : ~Envelope(1, p)
      BY <1>0, <2>1, IncomingPopped DEF Envelope
    <2>4. Consecutive' /\ \A p \in Peers, m \in Nat : Taken(p, m) => Taken(p, m)'
      BY <1>0, <2>1, <2>3, TakenPopped DEF Runs
    <2> QED BY <1>0, <1>same, <2>1, <2>2, <2>4, RunsKept
  <1>11. CASE Close
    BY <1>11, <1>same DEF Close, Up
  <1>12. CASE Dropped
    BY <1>0, <1>12, DroppedKeeps, GapKept DEF Dropped, Up
  <1>13. CASE \/ WriteTake \/ WriteDone \/ UNCHANGED vars
              \/ \E p \in Probed : ProbeEnds(p)
              \/ \E ch \in Channels : StreamWrite(ch)
              \/ \E c \in Callers : Ask(c) \/ AskTimeout(c)
    <2>1. UNCHANGED <<chan, live, read, incoming, envelopes, session>>
      BY <1>13 DEF WriteTake, WriteDone, vars, ProbeEnds, StreamWrite, Ask, AskTimeout
    <2> QED BY <1>0, <1>same, <1>still, <2>1, RunsKept DEF Up, Runs
  <1> QED BY <1>1, <1>2, <1>3, <1>4, <1>5, <1>6, <1>7, <1>8, <1>9, <1>10, <1>11, <1>12, <1>13
          DEF Next, ReadPump, AcceptLoop

LEMMA RunInit == Init => RunInv
  <1>1. Init => NoGapWithin /\ Consecutive /\ TableRuns /\ HandRuns
    BY DEF Init, NoGapWithin, Channels, Consecutive, TableRuns, HandRuns, Nobody
  <1> QED BY <1>1, TypesInit DEF RunInv

(* What one stream is given is a run of consecutive envelopes, however slow it is and
   whoever opens another one meanwhile: a chunk that does not fit takes the stream out
   of the table, and what comes after it goes to a new one. *)
THEOREM NoGapTheorem == Spec => []NoGapWithin
  <1>1. RunInv => NoGapWithin
    BY DEF RunInv
  <1> QED BY <1>1, RunInit, RunStep, PTL DEF Spec
===============================================================================
