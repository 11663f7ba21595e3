--------------------------- MODULE RelayRouterProofs ---------------------------
(***************************************************************************)
(* The inbox first: what its four transactions keep, whoever calls them.   *)
(* Then the router: the registry of routes, the cursors that wait in its   *)
(* queues (with which it implements the inbox), and what `delivered`       *)
(* promises.                                                               *)
(***************************************************************************)
EXTENDS RelayRouter, FiniteSetTheorems, WellFoundedInduction, TLAPS

(* A non-empty finite set of naturals has a least and a greatest element: a
   minimal counterexample, without one of its elements, would have both. *)
LEMMA Extremes ==
    ASSUME NEW S, IsFiniteSet(S), S \subseteq Nat, S # {}
    PROVE  /\ \E x \in S : \A y \in S : x >= y
           /\ \E x \in S : \A y \in S : x <= y
  <1> DEFINE Good(U) == /\ \E x \in U : \A y \in U : x >= y
                        /\ \E x \in U : \A y \in U : x <= y
             T == {U \in FiniteSubsetsOf(S) : U # {} /\ ~Good(U)}
  <1>1. SUFFICES ASSUME T # {} PROVE FALSE
    <2>1. S \in FiniteSubsetsOf(S)
      BY DEF FiniteSubsetsOf
    <2> QED BY <1>1, <2>1
  <1>2. PICK U \in T : \A V \in T : <<V, U>> \notin StrictSubsetOrdering(S)
    <2>1. T \subseteq FiniteSubsetsOf(S)
      OBVIOUS
    <2> HIDE DEF T
    <2> QED BY <1>1, <2>1, FS_StrictSubsetOrderingWellFounded, WFMin
  <1>3. U \subseteq S /\ U \subseteq Nat /\ IsFiniteSet(U) /\ U # {} /\ ~Good(U)
    BY <1>2 DEF FiniteSubsetsOf
  <1>4. PICK x \in U : TRUE
    BY <1>3
  <1> DEFINE V == U \ {x}
  <1>5. IsFiniteSet(V) /\ V \in FiniteSubsetsOf(S)
    BY <1>3, FS_RemoveElement DEF FiniteSubsetsOf
  <1>6. <<V, U>> \in StrictSubsetOrdering(S)
    BY <1>3, <1>4 DEF StrictSubsetOrdering
  <1>7. V \notin T
    BY <1>2, <1>6
  <1>8. V # {}
    <2>1. SUFFICES ASSUME V = {} PROVE FALSE
      OBVIOUS
    <2>2. U = {x}
      BY <1>4, <2>1
    <2>3. x >= x
      BY <1>3, <1>4
    <2> QED BY <1>3, <2>2, <2>3
  <1>9. Good(V)
    BY <1>5, <1>7, <1>8
  <1>10. PICK g \in V : \A y \in V : g >= y
    BY <1>9
  <1>11. PICK l \in V : \A y \in V : l <= y
    BY <1>9
  <1>12. \E z \in U : \A y \in U : z >= y
    <2>1. CASE g >= x
      BY <1>10, <2>1
    <2>2. CASE ~(g >= x)
      BY <1>3, <1>4, <1>10, <2>2
    <2> QED BY <2>1, <2>2
  <1>13. \E z \in U : \A y \in U : z <= y
    <2>1. CASE l <= x
      BY <1>11, <2>1
    <2>2. CASE ~(l <= x)
      BY <1>3, <1>4, <1>11, <2>2
    <2> QED BY <2>1, <2>2
  <1> QED BY <1>3, <1>12, <1>13

(* What MAX(seq) returns, and that the new seq is above every row. *)
LEMMA AboveAll ==
    ASSUME NEW f \in [Messages -> Nat], NEW ms \in SUBSET Messages
    PROVE  /\ Max({0} \cup {f[m] : m \in ms}) \in Nat
           /\ \A m \in ms : f[m] <= Max({0} \cup {f[x] : x \in ms})
  <1> DEFINE S == {0} \cup {f[m] : m \in ms}
  <1>1. IsFiniteSet(ms)
    BY InboxAssumption, FS_Subset
  <1>2. IsFiniteSet({f[m] : m \in ms})
    <2> DEFINE g == [m \in ms |-> f[m]]
    <2>1. g \in Surjection(ms, {f[m] : m \in ms})
      BY DEF Surjection
    <2> QED BY <1>1, <2>1, FS_Surjection
  <1>3. IsFiniteSet(S)
    BY <1>2, FS_EmptySet, FS_Singleton, FS_Union
  <1>4. S \subseteq Nat /\ S # {}
    OBVIOUS
  <1>5. \E x \in S : \A y \in S : x >= y
    BY <1>3, <1>4, Extremes
  <1>6. Max(S) \in S /\ \A y \in S : Max(S) >= y
    BY <1>5 DEF Max
  <1> QED BY <1>4, <1>6

(* A set of messages is finite and its cardinality a natural number. *)
LEMMA Count ==
    ASSUME NEW ms \in SUBSET Messages
    PROVE  IsFiniteSet(ms) /\ Cardinality(ms) \in Nat
  BY InboxAssumption, FS_Subset, FS_CardinalityType

(* Disjoint sets of messages are counted separately. *)
LEMMA CountUnion ==
    ASSUME NEW x \in SUBSET Messages, NEW y \in SUBSET Messages, x \cap y = {}
    PROVE  Cardinality(x \cup y) = Cardinality(x) + Cardinality(y)
  <1>1. Cardinality(x) \in Nat /\ Cardinality(y) \in Nat
    BY Count
  <1>2. Cardinality(x \cup y) = Cardinality(x) + Cardinality(y) - Cardinality(x \cap y)
    BY Count, FS_Union
  <1>3. Cardinality(x \cap y) = 0
    BY FS_EmptySet
  <1> QED BY <1>1, <1>2, <1>3

(* The eviction loop leaves room for the new message: the rows it keeps are the
   ones not older than some row that fits, or none (MaxMessages is at least 1). *)
LEMMA KeptLeavesRoom ==
    ASSUME NEW f \in [Messages -> Nat], NEW ms \in SUBSET Messages, NEW new \in Messages,
           seq = f
    PROVE  Kept(ms, new) \subseteq ms /\ Cardinality(Kept(ms, new)) + 1 <= MaxMessages
  <1> DEFINE K == Kept(ms, new)
             S == {f[m] : m \in K}
  <1>1. K \subseteq ms /\ K \in SUBSET Messages
    BY DEF Kept
  <1>2. CASE K = {}
    BY <1>2, FS_EmptySet, InboxAssumption
  <1>3. CASE K # {}
    <2>1. IsFiniteSet(S)
      <3> DEFINE g == [m \in K |-> f[m]]
      <3> HIDE DEF K
      <3>1. g \in Surjection(K, S)
        BY <1>1 DEF Surjection
      <3>2. IsFiniteSet(K)
        BY <1>1, Count
      <3> QED BY <3>1, <3>2, FS_Surjection
    <2>2. S \subseteq Nat /\ S # {}
      BY <1>1, <1>3
    <2>3. PICK least \in S : \A y \in S : least <= y
      <3> HIDE DEF S
      <3> QED BY <2>1, <2>2, Extremes
    <2>4. PICK m \in K : f[m] = least
      OBVIOUS
    <2> DEFINE young == {y \in ms : f[y] >= f[m]}
    <2>5. K \subseteq young
      BY <1>1, <2>2, <2>3, <2>4
    <2>6. Cardinality(young) + 1 <= MaxMessages
      BY <2>4 DEF Kept, Fits
    <2>7. young \in SUBSET Messages
      OBVIOUS
    <2> HIDE DEF K, young
    <2>8. Cardinality(K) <= Cardinality(young)
      BY <2>5, <2>7, Count, FS_Subset
    <2>9. Cardinality(K) \in Nat /\ Cardinality(young) \in Nat
      BY <1>1, <2>7, Count
    <2>10. Cardinality(K) + 1 <= MaxMessages
      BY <2>6, <2>8, <2>9, InboxAssumption
    <2> QED BY <1>1, <2>10 DEF K
  <1> QED BY <1>1, <1>2, <1>3

-----------------------------------------------------------------------------
(* The message bound of Bounded.  (The byte bound is a sum over a set and stays
   with the model checker.) *)
CountBounded == \A d \in Devices : Cardinality(inbox[d]) <= MaxMessages

(* A device has a row in inbox_stats as soon as anything of it was dropped: the
   INSERT branch of enqueue's upsert overwrites no count. *)
HasRow(row) == row.exists \/ row.dropped = 0
StatsRowExists == \A d \in Devices : HasRow(stats[d])

(* The inductive invariant of the store.  A message that was never committed is
   in no set, which makes the sets disjoint after the next enqueue. *)
InboxInv ==
    InboxTypeOK /\ StatsRowExists /\ CountBounded /\ DropsCounted /\ SeqIsCommitOrder

(* The sweep within a transaction removes rows, charges their device for exactly
   those, and leaves the other columns alone. *)
LEMMA SweepCharges ==
    ASSUME InboxTypeOK, StatsRowExists, NEW now \in Times, NEW d \in Devices
    PROVE  /\ Expired(d, now) \subseteq inbox[d]
           /\ Swept(d, now) = inbox[d] \ Expired(d, now)
           /\ SweptStats(now) \in [Devices -> Stats]
           /\ SweptStats(now)[d].dropped = stats[d].dropped + Cardinality(Expired(d, now))
           /\ HasRow(SweptStats(now)[d])
  <1>1. \A e \in Devices : Expired(e, now) \subseteq inbox[e] /\ Expired(e, now) \in SUBSET Messages
    BY DEF Expired, InboxTypeOK
  <1>2. \A e \in Devices : Cardinality(Expired(e, now)) \in Nat
    BY <1>1, Count
  <1>3. \A e \in Devices : /\ BumpExpired(stats[e], Cardinality(Expired(e, now))) \in Stats
                           /\ BumpExpired(stats[e], Cardinality(Expired(e, now))).dropped
                                = stats[e].dropped + Cardinality(Expired(e, now))
                           /\ HasRow(BumpExpired(stats[e], Cardinality(Expired(e, now))))
    <2> TAKE e \in Devices
    <2>1. stats[e] \in Stats /\ HasRow(stats[e])
      BY DEF InboxTypeOK, StatsRowExists
    <2> QED BY <1>2, <2>1 DEF BumpExpired, Stats, HasRow
  <1>4. SweptStats(now) = [e \in Devices |-> BumpExpired(stats[e], Cardinality(Expired(e, now)))]
    BY DEF SweptStats
  <1> QED BY <1>1, <1>3, <1>4 DEF Swept

(* The three sets of DropsCounted, one device at a time. *)
Filed(d) ==
    /\ {m \in Messages : To[m] = d /\ stamp[m] > 0} = inbox[d] \cup acked[d] \cup lost[d]
    /\ inbox[d] \cap (acked[d] \cup lost[d]) = {}
    /\ acked[d] \cap lost[d] = {}

(* The order of SeqIsCommitOrder, one device at a time. *)
Ordered(d) ==
    \A x, y \in inbox[d] :
        x # y => (seq[x] < seq[y] <=> stamp[x] < stamp[y]) /\ seq[x] # seq[y]

(* A step that only removes rows, files each of them and touches no column
   preserves everything but the counter. *)
LEMMA Removal ==
    ASSUME InboxInv, NEW d \in Devices,
           inbox' \in [Devices -> SUBSET Messages], inbox'[d] \subseteq inbox[d],
           UNCHANGED <<seq, expires, stamp>>,
           \/ lost'[d] = lost[d] \cup (inbox[d] \ inbox'[d]) /\ acked'[d] = acked[d]
           \/ acked'[d] = acked[d] \cup (inbox[d] \ inbox'[d]) /\ lost'[d] = lost[d]
    PROVE  Filed(d)' /\ Ordered(d)' /\ Cardinality(inbox'[d]) <= MaxMessages
  <1>1. Filed(d) /\ Ordered(d)
    BY DEF InboxInv, DropsCounted, SeqIsCommitOrder, Filed, Ordered
  <1>2. Filed(d)'
    BY <1>1 DEF Filed
  <1>3. Ordered(d)'
    BY <1>1 DEF Ordered
  <1>4. Cardinality(inbox'[d]) <= MaxMessages
    <2>1. inbox[d] \in SUBSET Messages
      BY DEF InboxInv, InboxTypeOK
    <2>2. Cardinality(inbox'[d]) <= Cardinality(inbox[d])
      BY <2>1, Count, FS_Subset
    <2>3. Cardinality(inbox'[d]) \in Nat /\ Cardinality(inbox[d]) \in Nat
      BY <2>1, Count
    <2>4. Cardinality(inbox[d]) <= MaxMessages
      BY DEF InboxInv, CountBounded
    <2> QED BY <2>2, <2>3, <2>4, InboxAssumption
  <1> QED BY <1>2, <1>3, <1>4

(* The counter follows the set it counts. *)
LEMMA Charged ==
    ASSUME InboxInv, NEW d \in Devices, NEW gone \in SUBSET inbox[d]
    PROVE  Cardinality(lost[d] \cup gone) = stats[d].dropped + Cardinality(gone)
  <1>1. lost[d] \in SUBSET Messages /\ gone \in SUBSET Messages
    BY DEF InboxInv, InboxTypeOK
  <1>2. lost[d] \cap gone = {}
    BY DEF InboxInv, DropsCounted
  <1>3. stats[d].dropped = Cardinality(lost[d])
    BY DEF InboxInv, DropsCounted
  <1> QED BY <1>1, <1>2, <1>3, CountUnion

(* The parts put together. *)
LEMMA Assemble ==
    ASSUME InboxTypeOK',
           \A d \in Devices : /\ Filed(d)' /\ Ordered(d)'
                              /\ Cardinality(inbox'[d]) <= MaxMessages
                              /\ stats'[d].dropped = Cardinality(lost'[d])
                              /\ HasRow(stats'[d])
    PROVE  InboxInv'
  BY DEF InboxInv, StatsRowExists, HasRow, CountBounded, DropsCounted, SeqIsCommitOrder, Filed, Ordered

-----------------------------------------------------------------------------
(* The sweep that drain and the hourly task make: rows go, their devices pay. *)
LEMMA ExpireAllFiles ==
    ASSUME InboxInv, NEW now \in Times, ExpireAll(now), UNCHANGED <<seq, expires, acked, stamp>>
    PROVE  /\ inbox' \in [Devices -> SUBSET Messages]
           /\ lost' \in [Devices -> SUBSET Messages]
           /\ \A d \in Devices : /\ Filed(d)' /\ Ordered(d)'
                                 /\ Cardinality(inbox'[d]) <= MaxMessages
                                 /\ Cardinality(lost'[d]) = SweptStats(now)[d].dropped
  <1>1. InboxTypeOK /\ StatsRowExists
    BY DEF InboxInv
  <1>2. \A d \in Devices : Expired(d, now) \subseteq inbox[d]
    BY <1>1, SweepCharges
  <1>3. /\ inbox' \in [Devices -> SUBSET Messages]
        /\ \A d \in Devices : inbox'[d] = inbox[d] \ Expired(d, now)
    BY <1>1, <1>2 DEF ExpireAll, Swept, InboxTypeOK
  <1>4. /\ lost' \in [Devices -> SUBSET Messages]
        /\ \A d \in Devices : lost'[d] = lost[d] \cup Expired(d, now)
    BY <1>1, <1>2 DEF ExpireAll, InboxTypeOK
  <1>5. ASSUME NEW d \in Devices
        PROVE  /\ Filed(d)' /\ Ordered(d)'
               /\ Cardinality(inbox'[d]) <= MaxMessages
               /\ Cardinality(lost'[d]) = SweptStats(now)[d].dropped
    <2>1. inbox'[d] \subseteq inbox[d] /\ inbox[d] \ inbox'[d] = Expired(d, now)
      BY <1>2, <1>3
    <2>2. Filed(d)' /\ Ordered(d)' /\ Cardinality(inbox'[d]) <= MaxMessages
      BY <1>3, <1>4, <2>1, Removal
    <2>3. Cardinality(lost[d] \cup Expired(d, now)) = stats[d].dropped + Cardinality(Expired(d, now))
      BY <1>2, Charged
    <2>4. SweptStats(now)[d].dropped = stats[d].dropped + Cardinality(Expired(d, now))
      BY <1>1, SweepCharges
    <2> QED BY <1>4, <2>2, <2>3, <2>4
  <1> QED BY <1>3, <1>4, <1>5

(* The hourly sweep. *)
LEMMA SweepKeeps ==
    ASSUME InboxInv, NEW now \in Times, Sweep(now)
    PROVE  InboxInv'
  <1>1. InboxTypeOK /\ StatsRowExists
    BY DEF InboxInv
  <1>2. /\ inbox' \in [Devices -> SUBSET Messages]
        /\ lost' \in [Devices -> SUBSET Messages]
        /\ \A d \in Devices : /\ Filed(d)' /\ Ordered(d)'
                              /\ Cardinality(inbox'[d]) <= MaxMessages
                              /\ Cardinality(lost'[d]) = SweptStats(now)[d].dropped
    BY ExpireAllFiles DEF Sweep
  <1>3. stats' = SweptStats(now)
    BY DEF Sweep
  <1>4. Devices = {} \/ stats' \in [Devices -> Stats]
    BY <1>1, <1>3, SweepCharges
  <1>5. stats' \in [Devices -> Stats]
    BY <1>3, <1>4 DEF SweptStats
  <1>6. InboxTypeOK'
    BY <1>1, <1>2, <1>5 DEF InboxTypeOK, Sweep
  <1>7. \A d \in Devices : HasRow(stats'[d])
    BY <1>1, <1>3, SweepCharges
  <1> QED BY <1>2, <1>3, <1>6, <1>7, Assemble

(* A drain moves the watermark and no row. *)
LEMMA DrainKeeps ==
    ASSUME InboxInv, NEW d \in Devices, NEW now \in Times, Drain(d, now)
    PROVE  InboxInv'
  <1>1. InboxTypeOK /\ StatsRowExists
    BY DEF InboxInv
  <1>2. /\ inbox' \in [Devices -> SUBSET Messages]
        /\ lost' \in [Devices -> SUBSET Messages]
        /\ \A e \in Devices : /\ Filed(e)' /\ Ordered(e)'
                              /\ Cardinality(inbox'[e]) <= MaxMessages
                              /\ Cardinality(lost'[e]) = SweptStats(now)[e].dropped
    BY ExpireAllFiles DEF Drain
  <1>3. SweptStats(now) \in [Devices -> Stats]
    BY <1>1, SweepCharges
  <1>4. stats' = [SweptStats(now) EXCEPT ![d] = MoveWatermark(SweptStats(now)[d])]
    BY DEF Drain
  <1>5. /\ MoveWatermark(SweptStats(now)[d]) \in Stats
        /\ MoveWatermark(SweptStats(now)[d]).dropped = SweptStats(now)[d].dropped
    BY <1>3 DEF MoveWatermark, Stats
  <1>6. /\ stats' \in [Devices -> Stats]
        /\ \A e \in Devices : stats'[e].dropped = SweptStats(now)[e].dropped
    BY <1>3, <1>4, <1>5
  <1>7. InboxTypeOK'
    BY <1>1, <1>2, <1>6 DEF InboxTypeOK, Drain
  <1>8. \A e \in Devices : HasRow(stats'[e])
    <2>1. \A e \in Devices : HasRow(SweptStats(now)[e])
      BY <1>1, SweepCharges
    <2>2. HasRow(MoveWatermark(SweptStats(now)[d]))
      BY DEF HasRow, MoveWatermark
    <2> QED BY <1>3, <1>4, <2>1, <2>2
  <1> QED BY <1>2, <1>6, <1>7, <1>8, Assemble

(* An ack removes rows of one device and counts none of them as dropped. *)
LEMMA AckKeeps ==
    ASSUME InboxInv, NEW d \in Devices, NEW n, Ack(d, n)
    PROVE  InboxInv'
  <1>1. InboxTypeOK /\ StatsRowExists
    BY DEF InboxInv
  <1>2. /\ inbox' \in [Devices -> SUBSET Messages]
        /\ inbox'[d] \subseteq inbox[d]
        /\ \A e \in Devices \ {d} : inbox'[e] = inbox[e]
    BY <1>1 DEF Ack, InboxTypeOK
  <1>3. /\ acked' \in [Devices -> SUBSET Messages]
        /\ acked'[d] = acked[d] \cup (inbox[d] \ inbox'[d])
        /\ \A e \in Devices \ {d} : acked'[e] = acked[e]
    BY <1>1, <1>2 DEF Ack, InboxTypeOK
  <1>4. /\ stats' \in [Devices -> Stats]
        /\ \A e \in Devices : stats'[e].dropped = stats[e].dropped /\ HasRow(stats'[e])
    BY <1>1 DEF Ack, InboxTypeOK, Stats, StatsRowExists, HasRow
  <1>5. lost' = lost /\ UNCHANGED <<seq, expires, stamp>>
    BY DEF Ack
  <1>6. InboxTypeOK'
    BY <1>1, <1>2, <1>3, <1>4, <1>5 DEF InboxTypeOK
  <1>7. ASSUME NEW e \in Devices
        PROVE  /\ Filed(e)' /\ Ordered(e)'
               /\ Cardinality(inbox'[e]) <= MaxMessages
               /\ stats'[e].dropped = Cardinality(lost'[e])
    <2>1. inbox'[e] \subseteq inbox[e]
      BY <1>2
    <2>2. acked'[e] = acked[e] \cup (inbox[e] \ inbox'[e]) /\ lost'[e] = lost[e]
      BY <1>2, <1>3, <1>5
    <2>3. Filed(e)' /\ Ordered(e)' /\ Cardinality(inbox'[e]) <= MaxMessages
      BY <1>2, <1>5, <2>1, <2>2, Removal
    <2>4. stats'[e].dropped = Cardinality(lost'[e])
      BY <1>4, <2>2 DEF InboxInv, DropsCounted
    <2> QED BY <2>3, <2>4
  <1> QED BY <1>4, <1>6, <1>7, Assemble

(* The row of inbox_stats that enqueue writes. *)
LEMMA ChargeAdds ==
    ASSUME NEW row \in Stats, NEW n \in Nat, NEW total \in Nat,
           HasRow(row)
    PROVE  /\ ChargeEvicted(row, n, total) \in Stats
           /\ ChargeEvicted(row, n, total).dropped = row.dropped + n
           /\ HasRow(ChargeEvicted(row, n, total))
  BY DEF ChargeEvicted, Stats, HasRow

(* An enqueue files the new message behind the rows it keeps and the rest as
   lost; the other devices are swept. *)
LEMMA EnqueueKeeps ==
    ASSUME InboxInv, NEW m \in Messages, NEW now \in Times, Enqueue(To[m], m, now)
    PROVE  InboxInv'
  <1> DEFINE d == To[m]
             kept == Kept(Swept(d, now), m)
             gone == inbox[d] \ kept
  <1>1. InboxTypeOK /\ StatsRowExists /\ d \in Devices
    BY InboxAssumption DEF InboxInv
  <1>2. \A e \in Devices : Expired(e, now) \subseteq inbox[e] /\ Swept(e, now) = inbox[e] \ Expired(e, now)
    BY <1>1, SweepCharges
  <1>3. /\ stamp[m] = 0
        /\ inbox' = [e \in Devices |-> IF e = d THEN kept \cup {m} ELSE Swept(e, now)]
        /\ seq' = [seq EXCEPT ![m] = NextSeq(kept)]
        /\ expires' = [expires EXCEPT ![m] = now + Ttl]
        /\ stats' = [SweptStats(now) EXCEPT ![d] =
                       ChargeEvicted(SweptStats(now)[d], Cardinality(Swept(d, now) \ kept), SweepTotal(now))]
        /\ lost' = [e \in Devices |-> lost[e] \cup (inbox[e] \ inbox'[e])]
        /\ stamp' = [stamp EXCEPT ![m] = NextStamp]
        /\ acked' = acked
    BY DEF Enqueue
  <1>4. kept \subseteq Swept(d, now) /\ Cardinality(kept) + 1 <= MaxMessages
    BY <1>1, <1>2, KeptLeavesRoom DEF InboxTypeOK
  <1>5. kept \subseteq inbox[d] /\ kept \in SUBSET Messages
    BY <1>1, <1>2, <1>4 DEF InboxTypeOK
  <1>6. \A e \in Devices : m \notin inbox[e] /\ m \notin acked[e] /\ m \notin lost[e]
    BY <1>1, <1>3 DEF InboxInv, DropsCounted
  <1>7. NextSeq(kept) \in Nat /\ \A x \in kept : seq[x] < NextSeq(kept)
    <2>1. seq \in [Messages -> Nat]
      BY <1>1 DEF InboxTypeOK
    <2> HIDE DEF kept
    <2> DEFINE top == Max({0} \cup {seq[x] : x \in kept})
    <2>2. top \in Nat /\ \A x \in kept : seq[x] <= top
      BY <1>5, <2>1, AboveAll
    <2>3. NextSeq(kept) = top + 1
      BY DEF NextSeq
    <2>4. \A x \in kept : seq[x] \in Nat
      BY <1>5, <2>1
    <2> HIDE DEF top
    <2> QED BY <2>2, <2>3, <2>4
  <1>8. NextStamp \in Nat /\ NextStamp > 0 /\ \A x \in Messages : stamp[x] < NextStamp
    <2>1. stamp \in [Messages -> Nat]
      BY <1>1 DEF InboxTypeOK
    <2> DEFINE top == Max({0} \cup {stamp[x] : x \in Messages})
    <2>2. top \in Nat /\ \A x \in Messages : stamp[x] <= top
      BY <2>1, AboveAll
    <2>3. NextStamp = top + 1
      BY DEF NextStamp
    <2>4. \A x \in Messages : stamp[x] \in Nat
      BY <2>1
    <2> HIDE DEF top
    <2> QED BY <2>2, <2>3, <2>4
  <1>9. /\ inbox'[d] = kept \cup {m} /\ lost'[d] = lost[d] \cup gone
        /\ \A e \in Devices \ {d} : /\ inbox'[e] = inbox[e] \ Expired(e, now)
                                    /\ lost'[e] = lost[e] \cup Expired(e, now)
    BY <1>1, <1>2, <1>3, <1>5, <1>6
  <1> HIDE DEF kept
  <1>10. InboxTypeOK'
    <2>1. SweptStats(now) \in [Devices -> Stats] /\ HasRow(SweptStats(now)[d])
      BY <1>1, SweepCharges
    <2>2. ChargeEvicted(SweptStats(now)[d], Cardinality(Swept(d, now) \ kept), SweepTotal(now)) \in Stats
      <3>1. Cardinality(Swept(d, now) \ kept) \in Nat
        BY <1>1, <1>2, Count DEF InboxTypeOK
      <3>2. SweepTotal(now) \in Nat
        BY <1>1, <1>2, Count DEF InboxTypeOK, SweepTotal
      <3> QED BY <1>1, <2>1, <3>1, <3>2, ChargeAdds
    <2>3. stats' \in [Devices -> Stats]
      BY <1>3, <2>1, <2>2
    <2>4. inbox' \in [Devices -> SUBSET Messages] /\ lost' \in [Devices -> SUBSET Messages]
      BY <1>1, <1>2, <1>3, <1>5 DEF InboxTypeOK
    <2>5. now + Ttl \in Nat
      BY InboxAssumption
    <2>6. /\ seq' \in [Messages -> Nat] /\ stamp' \in [Messages -> Nat]
          /\ expires' \in [Messages -> Nat]
      BY <1>1, <1>3, <1>7, <1>8, <2>5 DEF InboxTypeOK
    <2> QED BY <1>1, <1>3, <2>3, <2>4, <2>6 DEF InboxTypeOK
  <1>11. \A e \in Devices : Filed(e) /\ Ordered(e)
    BY DEF InboxInv, DropsCounted, SeqIsCommitOrder, Filed, Ordered
  <1>12. ASSUME NEW e \in Devices PROVE Filed(e)'
    <2>1. \A x \in Messages : x # m => stamp'[x] = stamp[x]
      BY <1>1, <1>3 DEF InboxTypeOK
    <2>2. stamp'[m] > 0
      BY <1>1, <1>3, <1>8 DEF InboxTypeOK
    <2>3. inbox[e] \in SUBSET Messages /\ lost[e] \in SUBSET Messages /\ acked[e] \in SUBSET Messages
      BY <1>1 DEF InboxTypeOK
    <2>4. CASE e = d
      BY <1>3, <1>5, <1>6, <1>9, <1>11, <2>1, <2>2, <2>3, <2>4 DEF Filed
    <2>5. CASE e # d
      BY <1>2, <1>3, <1>6, <1>9, <1>11, <2>1, <2>2, <2>3, <2>5 DEF Filed
    <2> QED BY <2>4, <2>5
  <1>13. ASSUME NEW e \in Devices PROVE Ordered(e)'
    <2>1. \A x \in Messages : x # m => stamp'[x] = stamp[x] /\ seq'[x] = seq[x]
      BY <1>1, <1>3 DEF InboxTypeOK
    <2>2. stamp'[m] = NextStamp /\ seq'[m] = NextSeq(kept)
      BY <1>1, <1>3 DEF InboxTypeOK
    <2>3. seq \in [Messages -> Nat] /\ stamp \in [Messages -> Nat]
          /\ inbox[e] \in SUBSET Messages
      BY <1>1 DEF InboxTypeOK
    <2>4. CASE e = d
      <3> SUFFICES ASSUME NEW x \in inbox'[d], NEW y \in inbox'[d], x # y
                   PROVE  (seq'[x] < seq'[y] <=> stamp'[x] < stamp'[y]) /\ seq'[x] # seq'[y]
        BY <2>4 DEF Ordered
      <3>1. CASE x = m
        BY <1>5, <1>7, <1>8, <1>9, <2>1, <2>2, <2>3, <3>1
      <3>2. CASE y = m
        BY <1>5, <1>7, <1>8, <1>9, <2>1, <2>2, <2>3, <3>2
      <3>3. CASE x # m /\ y # m
        <4>1. x \in inbox[d] /\ y \in inbox[d] /\ x \in Messages /\ y \in Messages
          BY <1>5, <1>9, <3>3
        <4> QED BY <1>1, <1>11, <2>1, <3>3, <4>1 DEF Ordered
      <3> QED BY <3>1, <3>2, <3>3
    <2>5. CASE e # d
      <3>1. inbox'[e] \subseteq inbox[e] /\ m \notin inbox'[e]
        BY <1>6, <1>9, <2>5
      <3> QED BY <1>11, <2>1, <2>3, <3>1 DEF Ordered
    <2> QED BY <2>4, <2>5
  <1>14. ASSUME NEW e \in Devices PROVE Cardinality(inbox'[e]) <= MaxMessages
    <2>1. CASE e = d
      <3>1. IsFiniteSet(kept) /\ Cardinality(kept) \in Nat
        BY <1>5, Count
      <3>2. Cardinality(kept \cup {m}) = Cardinality(kept) + 1
        BY <1>5, <1>6, <1>1, <3>1, FS_AddElement
      <3> QED BY <1>4, <1>9, <2>1, <3>2 DEF kept
    <2>2. CASE e # d
      <3>1. inbox[e] \in SUBSET Messages /\ inbox'[e] \in SUBSET inbox[e]
        BY <1>1, <1>9, <2>2 DEF InboxTypeOK
      <3>2. Cardinality(inbox'[e]) <= Cardinality(inbox[e])
        BY <3>1, Count, FS_Subset
      <3>3. Cardinality(inbox'[e]) \in Nat /\ Cardinality(inbox[e]) \in Nat
        BY <3>1, Count
      <3>4. Cardinality(inbox[e]) <= MaxMessages
        BY DEF InboxInv, CountBounded
      <3> QED BY <3>2, <3>3, <3>4, InboxAssumption
    <2> QED BY <2>1, <2>2
  <1>15. ASSUME NEW e \in Devices
         PROVE  stats'[e].dropped = Cardinality(lost'[e]) /\ HasRow(stats'[e])
    <2>1. /\ SweptStats(now) \in [Devices -> Stats] /\ HasRow(SweptStats(now)[e])
          /\ SweptStats(now)[e].dropped = stats[e].dropped + Cardinality(Expired(e, now))
      BY <1>1, SweepCharges
    <2>2. CASE e # d
      <3>1. stats'[e] = SweptStats(now)[e]
        BY <1>3, <2>1, <2>2
      <3>2. Cardinality(lost[e] \cup Expired(e, now)) = stats[e].dropped + Cardinality(Expired(e, now))
        BY <1>2, Charged
      <3> QED BY <1>9, <2>1, <2>2, <3>1, <3>2
    <2>3. CASE e = d
      <3> DEFINE evicted == Swept(d, now) \ kept
      <3>1. gone = Expired(d, now) \cup evicted /\ Expired(d, now) \cap evicted = {}
        BY <1>1, <1>2, <1>4, <1>5 DEF kept
      <3>2. Expired(d, now) \in SUBSET Messages /\ evicted \in SUBSET Messages
        BY <1>1, <1>2 DEF InboxTypeOK
      <3>3. Cardinality(gone) = Cardinality(Expired(d, now)) + Cardinality(evicted)
        BY <3>1, <3>2, CountUnion
      <3>4. Cardinality(lost'[d]) = stats[d].dropped + Cardinality(gone)
        BY <1>1, <1>9, Charged
      <3>5. Cardinality(evicted) \in Nat /\ Cardinality(Expired(d, now)) \in Nat
        BY <3>2, Count
      <3>6. SweepTotal(now) \in Nat
        BY <1>1, <1>2, Count DEF InboxTypeOK, SweepTotal
      <3>7. stats'[d] = ChargeEvicted(SweptStats(now)[d], Cardinality(evicted), SweepTotal(now))
        BY <1>1, <1>3, <2>1
      <3>8. stats'[d].dropped = SweptStats(now)[d].dropped + Cardinality(evicted) /\ HasRow(stats'[d])
        <4> DEFINE row == SweptStats(now)[d]
        <4>1. row \in Stats /\ HasRow(row)
          BY <1>1, <2>1, <2>3
        <4> HIDE DEF row, evicted
        <4>2. /\ ChargeEvicted(row, Cardinality(evicted), SweepTotal(now)).dropped
                  = row.dropped + Cardinality(evicted)
              /\ HasRow(ChargeEvicted(row, Cardinality(evicted), SweepTotal(now)))
          BY <3>5, <3>6, <4>1, ChargeAdds
        <4> QED BY <3>7, <4>2 DEF row
      <3>9. stats[d].dropped \in Nat
        BY <1>1 DEF InboxTypeOK, Stats
      <3> HIDE DEF gone, evicted
      <3> QED BY <2>1, <2>3, <3>3, <3>4, <3>5, <3>8, <3>9
    <2> QED BY <2>2, <2>3
  <1> QED BY <1>10, <1>12, <1>13, <1>14, <1>15, Assemble

(* Every operation preserves the invariant, in whatever order they run. *)
LEMMA InboxStep ==
    InboxInv /\ [InboxNext]_inboxVars => InboxInv'
  <1> SUFFICES ASSUME InboxInv, [InboxNext]_inboxVars PROVE InboxInv'
    OBVIOUS
  <1>1. ASSUME NEW m \in Messages, NEW now \in Times, Enqueue(To[m], m, now) PROVE InboxInv'
    BY <1>1, EnqueueKeeps
  <1>2. ASSUME NEW d \in Devices, NEW now \in Times, Drain(d, now) PROVE InboxInv'
    BY <1>2, DrainKeeps
  <1>3. ASSUME NEW d \in Devices, NEW n \in Cursors, Ack(d, n) PROVE InboxInv'
    BY <1>3, AckKeeps
  <1>4. ASSUME NEW now \in Times, Sweep(now) PROVE InboxInv'
    BY <1>4, SweepKeeps
  <1>5. CASE UNCHANGED inboxVars
    BY <1>5 DEF inboxVars, InboxInv, InboxTypeOK, StatsRowExists, HasRow, CountBounded,
                DropsCounted, SeqIsCommitOrder
  <1> QED BY <1>1, <1>2, <1>3, <1>4, <1>5 DEF InboxNext

(* The empty store satisfies it. *)
LEMMA InboxStart == InboxInit => InboxInv
  <1> SUFFICES ASSUME InboxInit PROVE InboxInv
    OBVIOUS
  <1>1. InboxTypeOK /\ StatsRowExists
    BY DEF InboxInit, InboxTypeOK, StatsRowExists, HasRow, NoStats, Stats
  <1>2. Cardinality({}) = 0
    BY FS_EmptySet
  <1>3. CountBounded
    BY <1>2, InboxAssumption DEF InboxInit, CountBounded
  <1>4. DropsCounted
    BY <1>2 DEF InboxInit, DropsCounted, NoStats
  <1>5. SeqIsCommitOrder
    BY DEF InboxInit, SeqIsCommitOrder
  <1> QED BY <1>1, <1>3, <1>4, <1>5 DEF InboxInv

(* The values of the store's tables are those of their columns. *)
THEOREM InboxTypeCorrect == InboxSpec => []InboxTypeOK
  <1>1. InboxInv => InboxTypeOK
    BY DEF InboxInv
  <1> QED BY <1>1, InboxStart, InboxStep, PTL DEF InboxSpec

(* No device ever has more than max_messages rows: enqueue evicts until the new
   message fits, for every bound and every mix of sizes. *)
THEOREM InboxCountBounded == InboxSpec => []CountBounded
  <1>1. InboxInv => CountBounded
    BY DEF InboxInv
  <1> QED BY <1>1, InboxStart, InboxStep, PTL DEF InboxSpec

(* Every committed message is queued, acknowledged or counted as dropped for its
   own device, exactly once (enqueue, drain, ack and sweep together). *)
THEOREM InboxDropsCounted == InboxSpec => []DropsCounted
  <1>1. InboxInv => DropsCounted
    BY DEF InboxInv
  <1> QED BY <1>1, InboxStart, InboxStep, PTL DEF InboxSpec

(* MAX(seq) + 1 keeps the rows of a device distinct and in commit order. *)
THEOREM InboxSeqIsCommitOrder == InboxSpec => []SeqIsCommitOrder
  <1>1. InboxInv => SeqIsCommitOrder
    BY DEF InboxInv
  <1> QED BY <1>1, InboxStart, InboxStep, PTL DEF InboxSpec

-----------------------------------------------------------------------------
(* The router. *)

(* Tokens are positive numbers, handed out in order. *)
LEMMA Tokens == Sessions \subseteq Nat /\ NoSession \notin Sessions /\ NoSession = 0
  BY DEF Sessions, NoSession

-----------------------------------------------------------------------------
(* The registry of routes. *)

(* A device's route, when it has one, is a session of that device that reads. *)
RouteIsReader ==
    \A d \in Devices : live[d] # NoSession =>
        /\ live[d] \in 1..Len(device)
        /\ device[live[d]] = d
        /\ phase[live[d]] = "reading"

RouteInv ==
    /\ device \in Seq(Devices)
    /\ 1..Len(device) \subseteq Sessions
    /\ live \in [Devices -> Sessions \cup {NoSession}]
    /\ phase \in [Sessions -> {"new", "reading", "leaving", "ended"}]
    /\ \A s \in Sessions : phase[s] = "new" <=> s > Len(device)
    /\ RouteIsReader
    /\ NewestHoldsRoute

(* The sessions registered so far are sessions. *)
LEMMA Registered ==
    ASSUME RouteInv
    PROVE  1..Len(device) \subseteq Sessions /\ Len(device) \in Nat
  BY DEF RouteInv, Sessions

LEMMA RouteStart == Init => RouteInv
  <1> SUFFICES ASSUME Init PROVE RouteInv
    OBVIOUS
  <1>1. device = <<>> /\ Len(device) = 0 /\ device \in Seq(Devices)
    BY DEF Init
  <1>2. \A s \in Sessions : s > 0
    BY DEF Sessions
  <1>3. live \in [Devices -> Sessions \cup {NoSession}] /\ \A d \in Devices : live[d] = NoSession
    BY DEF Init
  <1>4. phase \in [Sessions -> {"new", "reading", "leaving", "ended"}]
        /\ \A s \in Sessions : phase[s] = "new"
    BY DEF Init
  <1> QED BY <1>1, <1>2, <1>3, <1>4 DEF RouteInv, RouteIsReader, NewestHoldsRoute

(* A registration: the new session is the newest of its device. *)
LEMMA RegisterRoutes ==
    ASSUME RouteInv, NEW d \in Devices, Register(d)
    PROVE  RouteInv'
  <1> DEFINE n == Len(device)
             s == n + 1
  <1>1. s \in Sessions /\ device' = Append(device, d) /\ live' = [live EXCEPT ![d] = s]
        /\ phase' = [phase EXCEPT ![s] = "reading"]
    BY DEF Register
  <1>2. n \in Nat /\ 1..n \subseteq Sessions /\ Sessions \subseteq Nat /\ NoSession = 0
    BY Registered, Tokens
  <1>3. device' \in Seq(Devices) /\ Len(device') = s
        /\ (\A t \in 1..n : device'[t] = device[t]) /\ device'[s] = d
    BY <1>1 DEF RouteInv
  <1>4. /\ live' \in [Devices -> Sessions \cup {NoSession}]
        /\ live'[d] = s /\ \A e \in Devices \ {d} : live'[e] = live[e]
    BY <1>1 DEF RouteInv
  <1>5. /\ phase' \in [Sessions -> {"new", "reading", "leaving", "ended"}]
        /\ phase'[s] = "reading" /\ \A t \in Sessions \ {s} : phase'[t] = phase[t]
    BY <1>1 DEF RouteInv
  <1>6. \A t \in Sessions : phase'[t] = "new" <=> t > s
    BY <1>1, <1>2, <1>5 DEF RouteInv
  <1>7. 1..Len(device') \subseteq Sessions
    BY <1>1, <1>2, <1>3
  <1> HIDE DEF s
  <1>8. RouteIsReader'
    <2> SUFFICES ASSUME NEW e \in Devices, live'[e] # NoSession
                 PROVE  live'[e] \in 1..s /\ device'[live'[e]] = e /\ phase'[live'[e]] = "reading"
      BY <1>3 DEF RouteIsReader
    <2>1. CASE e = d
      BY <1>2, <1>3, <1>4, <1>5, <2>1 DEF s
    <2>2. CASE e # d
      <3>1. live'[e] = live[e] /\ live[e] \in 1..n /\ device[live[e]] = e
            /\ phase[live[e]] = "reading"
        BY <1>4, <2>2 DEF RouteInv, RouteIsReader
      <3>2. live[e] \in 1..s /\ live[e] # s /\ live[e] \in Sessions
        BY <1>2, <3>1 DEF s
      <3> QED BY <1>3, <1>5, <3>1, <3>2
    <2> QED BY <2>1, <2>2
  <1>9. NewestHoldsRoute'
    <2> SUFFICES ASSUME NEW t \in 1..s
                 PROVE  /\ phase'[t] = "reading" /\ (\A u \in (t + 1)..s : device'[u] # device'[t])
                               => live'[device'[t]] = t
                        /\ live'[device'[t]] = t => phase'[t] = "reading"
      BY <1>3 DEF NewestHoldsRoute
    <2>1. CASE t = s
      BY <1>3, <1>4, <1>5, <2>1
    <2>2. CASE t # s
      <3>1. t \in 1..n /\ s \in (t + 1)..s /\ (t + 1)..n \subseteq (t + 1)..s
        BY <1>2, <2>2 DEF s
      <3>2. t \in Sessions /\ device'[t] = device[t] /\ device[t] \in Devices /\ phase'[t] = phase[t]
        BY <1>2, <1>3, <1>5, <2>2, <3>1 DEF RouteInv
      <3>3. CASE device[t] = d
        BY <1>3, <1>4, <2>2, <3>1, <3>2, <3>3
      <3>4. CASE device[t] # d
        <4>1. live'[device'[t]] = live[device[t]]
          BY <1>4, <3>2, <3>4
        <4>2. \A u \in (t + 1)..n : u \in 1..n /\ device'[u] = device[u]
          BY <1>2, <1>3, <3>1
        <4>3. (\A u \in (t + 1)..s : device'[u] # device'[t]) => \A u \in (t + 1)..n : device[u] # device[t]
          BY <3>1, <3>2, <4>2
        <4> QED BY <3>1, <3>2, <4>1, <4>3 DEF RouteInv, NewestHoldsRoute
      <3> QED BY <3>3, <3>4
    <2> QED BY <2>1, <2>2
  <1> QED BY <1>1, <1>3, <1>4, <1>5, <1>6, <1>7, <1>8, <1>9 DEF RouteInv

(* A session leaves: it takes its own route with it and no other. *)
LEMMA DeregisterRoutes ==
    ASSUME RouteInv, NEW s \in Sessions, Deregister(s)
    PROVE  RouteInv'
  <1>1. phase[s] = "reading" /\ device' = device /\ phase' = [phase EXCEPT ![s] = "leaving"]
    BY DEF Deregister
  <1>2. s \in 1..Len(device) /\ device[s] \in Devices
    BY <1>1, Tokens, Registered DEF RouteInv, Sessions
  <1>3. /\ phase' \in [Sessions -> {"new", "reading", "leaving", "ended"}]
        /\ phase'[s] = "leaving" /\ \A t \in Sessions \ {s} : phase'[t] = phase[t]
    BY <1>1 DEF RouteInv
  <1>4. /\ live' \in [Devices -> Sessions \cup {NoSession}]
        /\ \A e \in Devices : live'[e] = IF live[e] = s THEN NoSession ELSE live[e]
    <2>1. CASE HoldsRoute(s)
      <3>1. live' = [live EXCEPT ![device[s]] = NoSession]
        BY <2>1 DEF Deregister
      <3>2. \A e \in Devices : live[e] = s <=> e = device[s]
        BY <1>2, <2>1, Tokens DEF HoldsRoute, RouteInv, RouteIsReader
      <3> QED BY <1>2, <3>1, <3>2 DEF RouteInv
    <2>2. CASE ~HoldsRoute(s)
      <3>1. live' = live
        BY <2>2 DEF Deregister
      <3>2. \A e \in Devices : live[e] # s
        BY <1>2, <2>2, Tokens DEF HoldsRoute, RouteInv, RouteIsReader
      <3> QED BY <3>1, <3>2 DEF RouteInv
    <2> QED BY <2>1, <2>2
  <1>5. RouteIsReader'
    <2> SUFFICES ASSUME NEW e \in Devices, live'[e] # NoSession
                 PROVE  live'[e] \in 1..Len(device) /\ device[live'[e]] = e /\ phase'[live'[e]] = "reading"
      BY <1>1 DEF RouteIsReader
    <2>1. live'[e] = live[e] /\ live[e] # s /\ live[e] # NoSession
      BY <1>4
    <2>2. live[e] \in Sessions
      BY <2>1 DEF RouteInv
    <2> QED BY <1>3, <2>1, <2>2 DEF RouteInv, RouteIsReader
  <1>6. NewestHoldsRoute'
    <2> SUFFICES ASSUME NEW t \in 1..Len(device)
                 PROVE  /\ phase'[t] = "reading" /\ (\A u \in (t + 1)..Len(device) : device[u] # device[t])
                               => live'[device[t]] = t
                        /\ live'[device[t]] = t => phase'[t] = "reading"
      BY <1>1 DEF NewestHoldsRoute
    <2>1. t \in Sessions /\ t # NoSession /\ device[t] \in Devices
      BY Registered, Tokens DEF RouteInv
    <2> QED BY <1>3, <1>4, <2>1 DEF RouteInv, NewestHoldsRoute
  <1>7. \A t \in Sessions : phase'[t] = "new" <=> t > Len(device)
    BY <1>1, <1>3 DEF RouteInv
  <1> QED BY <1>1, <1>3, <1>4, <1>5, <1>6, <1>7 DEF RouteInv

(* A restart forgets every route and every session. *)
LEMMA CrashRoutes ==
    ASSUME RouteInv, Crash
    PROVE  RouteInv'
  <1>1. /\ device' = device
        /\ live' = [d \in Devices |-> NoSession]
        /\ phase' = [s \in Sessions |-> IF phase[s] = "new" THEN "new" ELSE "ended"]
    BY DEF Crash, LoseSessions
  <1>2. phase' \in [Sessions -> {"new", "reading", "leaving", "ended"}]
    BY <1>1
  <1>3. \A s \in Sessions : /\ phase'[s] = "new" <=> phase[s] = "new"
                            /\ phase'[s] # "reading"
    BY <1>1
  <1>4. NewestHoldsRoute'
    BY <1>1, <1>3, Registered, Tokens DEF NewestHoldsRoute, RouteInv
  <1> QED BY <1>1, <1>2, <1>3, <1>4 DEF RouteInv, RouteIsReader

(* A session that has left ends. *)
LEMMA FinishRoutes ==
    ASSUME RouteInv, NEW s \in Sessions, Finish(s)
    PROVE  RouteInv'
  <1>1. /\ phase[s] = "leaving" /\ phase' = [phase EXCEPT ![s] = "ended"]
        /\ device' = device /\ live' = live
    BY DEF Finish
  <1>2. phase' \in [Sessions -> {"new", "reading", "leaving", "ended"}]
    BY <1>1 DEF RouteInv
  <1>3. \A t \in Sessions : /\ phase'[t] = "new" <=> phase[t] = "new"
                            /\ phase'[t] = "reading" <=> phase[t] = "reading"
    BY <1>1 DEF RouteInv
  <1>4. \A d \in Devices : live[d] # NoSession => live[d] \in Sessions
    BY DEF RouteInv
  <1>5. RouteIsReader'
    BY <1>1, <1>3, <1>4 DEF RouteInv, RouteIsReader
  <1>6. NewestHoldsRoute'
    BY <1>1, <1>3, Registered DEF NewestHoldsRoute, RouteInv
  <1> QED BY <1>1, <1>2, <1>3, <1>5, <1>6 DEF RouteInv

(* Nothing else touches the registry or the phase of a session. *)
LEMMA RouteStep ==
    RouteInv /\ [Next]_vars => RouteInv'
  <1> SUFFICES ASSUME RouteInv, [Next]_vars PROVE RouteInv'
    OBVIOUS
  <1>1. CASE UNCHANGED <<live, device, phase>>
    BY <1>1 DEF RouteInv, RouteIsReader, NewestHoldsRoute
  <1>2. ASSUME NEW d \in Devices, Welcome(d) PROVE UNCHANGED <<live, device, phase>>
    BY <1>2 DEF Welcome, sessionVars
  <1>3. ASSUME NEW s \in Sessions, SessionStep(s)
        PROVE  Deregister(s) \/ Finish(s) \/ UNCHANGED <<live, device, phase>>
    <2>1. ASSUME NEW m \in Messages,
                 FrameRefused(s, m) \/ FrameToStranger(s, m) \/ Decide(s, m)
          PROVE  UNCHANGED <<live, device, phase>>
      BY <2>1 DEF FrameRefused, FrameToStranger, Decide, Answer
    <2>2. CASE AnsweredHere(s) \/ Deliver(s) \/ QueueFails(s)
      BY <2>2 DEF AnsweredHere, Deliver, QueueFails, Answer
    <2>3. ASSUME NEW now \in Times, QueueFrame(s, now) \/ DrainRequest(s, now)
          PROVE  UNCHANGED <<live, device, phase>>
      BY <2>3 DEF QueueFrame, DrainRequest, Answer
    <2>4. CASE PushRow(s) \/ PushReport(s) \/ AckRequest(s)
      BY <2>4 DEF PushRow, PushReport, AckRequest, sessionVars
    <2>5. CASE WriteItem(s) \/ WriterEnds(s) \/ HangUp(s) \/ StreamEnds(s)
      BY <2>5 DEF WriteItem, WriterEnds, HangUp, StreamEnds, Close
    <2>6. CASE NotifyPeers(s)
      BY <2>6 DEF NotifyPeers
    <2> QED BY <1>3, <2>1, <2>2, <2>3, <2>4, <2>5, <2>6 DEF SessionStep
  <1>4. ASSUME NEW now \in Times, HourlySweep(now) PROVE UNCHANGED <<live, device, phase>>
    BY <1>4 DEF HourlySweep, routerVars, sessionVars
  <1>5. CASE UNCHANGED vars
    BY <1>1, <1>5 DEF vars, routerVars, sessionVars
  <1>6. ASSUME NEW d \in Devices, Register(d) PROVE RouteInv'
    BY <1>6, RegisterRoutes
  <1>7. ASSUME NEW s \in Sessions, SessionStep(s) PROVE RouteInv'
    BY <1>1, <1>3, <1>7, DeregisterRoutes, FinishRoutes
  <1>8. CASE Crash
    BY <1>8, CrashRoutes
  <1> QED BY <1>1, <1>2, <1>4, <1>5, <1>6, <1>7, <1>8 DEF Next

(* The newest session of a device holds its route until it leaves, for any
   number of devices and sessions (register and deregister, with the token). *)
THEOREM RouteOfNewest == Spec => []NewestHoldsRoute
  <1>1. RouteInv => NewestHoldsRoute
    BY DEF RouteInv
  <1> QED BY <1>1, RouteStart, RouteStep, PTL DEF Spec

-----------------------------------------------------------------------------
(* The router implements the store: it changes the tables only through the four
   transactions, and it acknowledges only what a drain has handed out.  The
   second needs an invariant about every place where a cursor waits. *)

(* A cursor the store may have handed out: 1, or one past the seq of a row. *)
Given(n) ==
    /\ n \in Nat \ {0}
    /\ n = 1 \/ \E m \in Messages : stamp[m] > 0 /\ seq[m] + 1 = n

(* A queue whose drain reports carry such cursors. *)
Sound(item) == item[1] = "report" => Given(item[2])
Carries(queue) == \E S : queue \in Seq(S) /\ \A item \in S : Sound(item)
Queues(queues) == DOMAIN queues = Sessions /\ \A s \in Sessions : Carries(queues[s])

CursorsGiven(jobs, queues, cursors, reports) ==
    /\ DOMAIN jobs = Sessions
    /\ \A s \in Sessions : jobs[s][1] = "drain" => Given(jobs[s][3])
    /\ Queues(queues)
    /\ DOMAIN cursors = Devices
    /\ \A d \in Devices : Given(cursors[d])
    /\ DOMAIN reports = Sessions
    /\ \A s \in Sessions : reports[s] # 0 => Given(reports[s])

CursorInv == CursorsGiven(job, out, cursor, report)

RouterInv == InboxInv /\ RouteInv /\ CursorInv

(* Adding an item to a queue, and taking the first one off. *)
LEMMA CarriesAppend ==
    ASSUME NEW queue, Carries(queue), NEW item, Sound(item)
    PROVE  Carries(Append(queue, item))
  <1>1. PICK S : queue \in Seq(S) /\ \A x \in S : Sound(x)
    BY DEF Carries
  <1> DEFINE T == S \cup {item}
  <1>2. queue \in Seq(T) /\ item \in T
    BY <1>1
  <1>3. Append(queue, item) \in Seq(T)
    <2> HIDE DEF T
    <2> QED BY <1>2
  <1>4. \A x \in T : Sound(x)
    BY <1>1
  <1> QED BY <1>3, <1>4 DEF Carries

LEMMA CarriesHeadTail ==
    ASSUME NEW queue, Carries(queue), queue # <<>>
    PROVE  Carries(Tail(queue)) /\ Sound(Head(queue))
  <1>1. PICK S : queue \in Seq(S) /\ \A x \in S : Sound(x)
    BY DEF Carries
  <1>2. Tail(queue) \in Seq(S) /\ Head(queue) \in S
    BY <1>1
  <1> QED BY <1>1, <1>2 DEF Carries

LEMMA CarriesEmpty == Carries(<<>>)
  <1> DEFINE none == {}
  <1>1. <<>> \in Seq(none) /\ \A x \in none : Sound(x)
    OBVIOUS
  <1> HIDE DEF none
  <1>2. \E S : <<>> \in Seq(S) /\ \A x \in S : Sound(x)
    BY <1>1, Zenon
  <1> QED BY <1>2, Zenon DEF Carries

LEMMA TrySendQueues ==
    ASSUME NEW queues, Queues(queues), NEW s \in Sessions, NEW item, Sound(item)
    PROVE  Queues(TrySend(queues, s, item))
  <1>1. CASE ~Accepts(queues, s)
    BY <1>1 DEF TrySend
  <1>2. CASE Accepts(queues, s)
    <2>1. TrySend(queues, s, item) = [queues EXCEPT ![s] = Append(@, item)]
      BY <1>2 DEF TrySend
    <2>2. Carries(Append(queues[s], item))
      BY CarriesAppend DEF Queues
    <2> QED BY <2>1, <2>2 DEF Queues
  <1> QED BY <1>1, <1>2

(* An operation of the store takes no cursor back. *)
LEMMA GivenStays ==
    ASSUME InboxInv, [InboxNext]_inboxVars, NEW n, Given(n)
    PROVE  Given(n)'
  <1>1. InboxTypeOK
    BY DEF InboxInv
  <1>2. CASE seq' = seq /\ stamp' = stamp
    BY <1>2 DEF Given
  <1>3. ASSUME NEW m \in Messages, NEW now \in Times, Enqueue(To[m], m, now) PROVE Given(n)'
    <2>1. \A x \in Messages : stamp[x] > 0 => stamp'[x] = stamp[x] /\ seq'[x] = seq[x]
      BY <1>1, <1>3 DEF Enqueue, InboxTypeOK
    <2> QED BY <2>1 DEF Given
  <1>4. ASSUME NEW d \in Devices, NEW now \in Times, Drain(d, now) PROVE Given(n)'
    BY <1>2, <1>4 DEF Drain
  <1>5. ASSUME NEW d \in Devices, NEW k \in Cursors, Ack(d, k) PROVE Given(n)'
    BY <1>2, <1>5 DEF Ack
  <1>6. ASSUME NEW now \in Times, Sweep(now) PROVE Given(n)'
    BY <1>2, <1>6 DEF Sweep
  <1>7. CASE UNCHANGED inboxVars
    BY <1>2, <1>7 DEF inboxVars
  <1> QED BY <1>3, <1>4, <1>5, <1>6, <1>7 DEF InboxNext

(* The cursor that a drain returns is one of them. *)
LEMMA NextCursorGiven ==
    ASSUME InboxInv, NEW d \in Devices, NEW from, Given(from), NEW now \in Times
    PROVE  Given(NextCursor(d, from, now))
  <1> DEFINE B == Batch(d, from, now)
             S == {from} \cup {seq[m] + 1 : m \in B}
  <1>1. B \subseteq inbox[d] /\ B \in SUBSET Messages
    BY DEF InboxInv, InboxTypeOK, Batch, Waiting, Swept
  <1>2. \A m \in B : stamp[m] > 0 /\ seq[m] \in Nat
    BY <1>1 DEF InboxInv, InboxTypeOK, DropsCounted
  <1>3. IsFiniteSet(B)
    BY <1>1, Count
  <1> HIDE DEF B
  <1>4. IsFiniteSet({seq[m] + 1 : m \in B})
    <2> DEFINE g == [m \in B |-> seq[m] + 1]
    <2>1. g \in Surjection(B, {seq[m] + 1 : m \in B})
      BY DEF Surjection
    <2> QED BY <1>3, <2>1, FS_Surjection
  <1>5. IsFiniteSet(S)
    BY <1>4, FS_EmptySet, FS_Singleton, FS_Union
  <1>6. S \subseteq Nat /\ S # {}
    BY <1>2 DEF Given
  <1>7. \E x \in S : \A y \in S : x >= y
    BY <1>5, <1>6, Extremes
  <1>8. Max(S) \in S
    BY <1>7 DEF Max
  <1>9. \A x \in S : Given(x)
    BY <1>1, <1>2 DEF Given
  <1>10. NextCursor(d, from, now) = Max(S)
    BY DEF NextCursor, B
  <1> QED BY <1>8, <1>9, <1>10

(* The invariant, from its form before the step and the store's step. *)
LEMMA CursorsStay ==
    ASSUME InboxInv, [InboxNext]_inboxVars, CursorsGiven(job', out', cursor', report')
    PROVE  CursorInv'
  <1>1. \A n : Given(n) => Given(n)'
    BY GivenStays
  <1>2. \A item : Sound(item) => Sound(item)'
    BY <1>1 DEF Sound
  <1>3. ASSUME NEW queue, Carries(queue) PROVE Carries(queue)'
    BY <1>2, <1>3 DEF Carries
  <1>4. Queues(out') => Queues(out)'
    BY <1>3 DEF Queues
  <1> QED BY <1>1, <1>4 DEF CursorsGiven, CursorInv

(* An answer to the sender carries no cursor. *)
LEMMA AnswerCursors ==
    ASSUME CursorInv, NEW s \in Sessions, NEW queues, Queues(queues), NEW m, NEW what, NEW t,
           Answer(s, queues, m, what, t)
    PROVE  CursorsGiven(job', out', cursor', report')
  <1>1. /\ out' = TrySend(queues, s, <<"status">>)
        /\ job' = [job EXCEPT ![s] = Idle]
        /\ cursor' = cursor /\ report' = report
    BY DEF Answer, deviceVars
  <1>2. Sound(<<"status">>)
    BY DEF Sound
  <1>3. Queues(out')
    BY <1>1, <1>2, TrySendQueues
  <1>4. Idle[1] # "drain"
    BY DEF Idle
  <1> QED BY <1>1, <1>3, <1>4 DEF CursorInv, CursorsGiven

(* The step of a session on the store, and the cursors after it. *)
LEMMA SessionImplements ==
    ASSUME RouterInv, NEW s \in Sessions, SessionStep(s)
    PROVE  [InboxNext]_inboxVars /\ CursorsGiven(job', out', cursor', report')
  <1> DEFINE Goal == [InboxNext]_inboxVars /\ CursorsGiven(job', out', cursor', report')
  <1> SUFFICES Goal
    OBVIOUS
  <1>1. InboxInv /\ RouteInv /\ CursorInv /\ Queues(out)
    BY DEF RouterInv, CursorInv, CursorsGiven
  <1>2. ASSUME Ready(s) PROVE device[s] \in Devices
    BY <1>1, <1>2, Tokens, Registered DEF Ready, RouteInv, Sessions
  <1>3. ASSUME NEW m \in Messages, FrameRefused(s, m) \/ FrameToStranger(s, m)
        PROVE  Goal
    <2>1. UNCHANGED inboxVars
      BY <1>3 DEF FrameRefused, FrameToStranger
    <2>2. \E what : Answer(s, out, m, what, NoSession)
      BY <1>3 DEF FrameRefused, FrameToStranger
    <2> QED BY <1>1, <2>1, <2>2, AnswerCursors
  <1>4. ASSUME NEW m \in Messages, Decide(s, m) PROVE Goal
    <2>1. /\ UNCHANGED inboxVars /\ job' = [job EXCEPT ![s] = Decision(m)]
          /\ out' = out /\ cursor' = cursor /\ report' = report
      BY <1>4 DEF Decide, deviceVars
    <2>2. Decision(m)[1] # "drain"
      BY DEF Decision
    <2> HIDE DEF Decision
    <2> QED BY <1>1, <2>1, <2>2 DEF CursorInv, CursorsGiven
  <1>5. CASE Deliver(s)
    <2>1. PICK t \in Sessions, m \in Messages :
             /\ \E u : Answer(s, TrySend(out, t, <<"envelope", m>>), m, DeliverOutcome(t), u)
             /\ UNCHANGED inboxVars
      BY <1>5 DEF Deliver
    <2>2. Sound(<<"envelope", m>>)
      BY DEF Sound
    <2>3. Queues(TrySend(out, t, <<"envelope", m>>))
      BY <1>1, <2>2, TrySendQueues
    <2> QED BY <1>1, <2>1, <2>3, AnswerCursors
  <1>6. CASE QueueFails(s)
    BY <1>1, <1>6, AnswerCursors DEF QueueFails
  <1>7. ASSUME NEW now \in Times, QueueFrame(s, now) PROVE Goal
    <2>1. PICK m \in Messages : Enqueue(To[m], m, now) /\ Answer(s, out, m, "queued", NoSession)
      BY <1>7 DEF QueueFrame
    <2>2. InboxNext
      BY <2>1 DEF InboxNext
    <2> QED BY <1>1, <2>1, <2>2, AnswerCursors
  <1>8. ASSUME NEW now \in Times, DrainRequest(s, now) PROVE Goal
    <2>1. /\ Ready(s) /\ Drain(device[s], now)
          /\ out' = out /\ cursor' = cursor /\ report' = report
      BY <1>8 DEF DrainRequest
    <2>2. PICK raws, dropped : job' = [job EXCEPT ![s] =
              <<"drain", raws, NextCursor(device[s], FromSeq(s), now), dropped>>]
      BY <1>8 DEF DrainRequest
    <2>3. device[s] \in Devices
      BY <1>2, <2>1
    <2>4. Given(FromSeq(s))
      <3>1. Given(1)
        BY DEF Given
      <3> QED BY <1>1, <2>3, <3>1 DEF FromSeq, CursorInv, CursorsGiven
    <2>5. Given(NextCursor(device[s], FromSeq(s), now))
      BY <1>1, <2>3, <2>4, NextCursorGiven
    <2>6. InboxNext
      BY <2>1, <2>3 DEF InboxNext
    <2>7. \A t \in Sessions : job'[t][1] = "drain" => Given(job'[t][3])
      BY <1>1, <2>2, <2>5 DEF CursorInv, CursorsGiven
    <2> QED BY <1>1, <2>1, <2>2, <2>6, <2>7 DEF CursorInv, CursorsGiven
  <1>9. CASE PushRow(s)
    <2> DEFINE item == <<"raw", Head(job[s][2])>>
    <2>1. /\ UNCHANGED inboxVars /\ cursor' = cursor /\ report' = report
          /\ job[s][1] = "drain" /\ out' = TrySend(out, s, item)
      BY <1>9 DEF PushRow, deviceVars
    <2>2. PICK raws, dropped : job' = [job EXCEPT ![s] = <<"drain", raws, job[s][3], dropped>>]
      BY <1>9 DEF PushRow
    <2>3. Sound(item)
      BY DEF Sound
    <2>4. Queues(out')
      BY <1>1, <2>1, <2>3, TrySendQueues
    <2>5. \A t \in Sessions : job'[t][1] = "drain" => Given(job'[t][3])
      BY <1>1, <2>1, <2>2 DEF CursorInv, CursorsGiven
    <2> QED BY <1>1, <2>1, <2>2, <2>4, <2>5 DEF CursorInv, CursorsGiven
  <1>10. CASE PushReport(s)
    <2> DEFINE item == <<"report", job[s][3], job[s][4]>>
    <2>1. /\ UNCHANGED inboxVars /\ cursor' = cursor /\ report' = report
          /\ job[s][1] = "drain" /\ out' = TrySend(out, s, item)
          /\ job' = [job EXCEPT ![s] = Idle]
      BY <1>10 DEF PushReport, deviceVars
    <2>2. Sound(item)
      BY <1>1, <2>1 DEF Sound, CursorInv, CursorsGiven
    <2>3. Queues(out')
      BY <1>1, <2>1, <2>2, TrySendQueues
    <2>4. Idle[1] # "drain"
      BY DEF Idle
    <2> QED BY <1>1, <2>1, <2>3, <2>4 DEF CursorInv, CursorsGiven
  <1>11. CASE AckRequest(s)
    <2>1. /\ Ready(s) /\ report[s] # 0 /\ Ack(device[s], report[s] - 1)
          /\ cursor' = [cursor EXCEPT ![device[s]] = report[s]]
          /\ report' = [report EXCEPT ![s] = 0]
          /\ out' = out /\ job' = job
      BY <1>11 DEF AckRequest, sessionVars
    <2>2. device[s] \in Devices /\ Given(report[s])
      BY <1>1, <1>2, <2>1 DEF CursorInv, CursorsGiven
    <2>3. report[s] - 1 \in Cursors
      BY <1>1, <2>2 DEF Given, Cursors, InboxInv, InboxTypeOK
    <2>4. InboxNext
      BY <2>1, <2>2, <2>3 DEF InboxNext
    <2> QED BY <1>1, <2>1, <2>2, <2>4 DEF CursorInv, CursorsGiven
  <1>12. CASE WriteItem(s)
    <2> DEFINE item == Head(out[s])
    <2>1. /\ UNCHANGED inboxVars /\ cursor' = cursor /\ job' = job /\ out[s] # <<>>
          /\ out' = [out EXCEPT ![s] = Tail(@)]
          /\ report' = IF item[1] = "report" THEN [report EXCEPT ![s] = item[2]] ELSE report
      BY <1>12 DEF WriteItem
    <2>2. Carries(Tail(out[s])) /\ Sound(item)
      BY <1>1, <2>1, CarriesHeadTail DEF Queues
    <2>3. Queues(out')
      BY <1>1, <2>1, <2>2 DEF Queues
    <2>4. DOMAIN report' = Sessions /\ \A t \in Sessions : report'[t] # 0 => Given(report'[t])
      <3> HIDE DEF item
      <3> QED BY <1>1, <2>1, <2>2 DEF Sound, CursorInv, CursorsGiven
    <2> QED BY <1>1, <2>1, <2>3, <2>4 DEF CursorInv, CursorsGiven
  <1>13. CASE WriterEnds(s)
    <2>1. /\ UNCHANGED inboxVars /\ cursor' = cursor /\ job' = job /\ report' = report
          /\ out' = [out EXCEPT ![s] = <<>>]
      BY <1>13 DEF WriterEnds, deviceVars
    <2> QED BY <1>1, <2>1, CarriesEmpty DEF CursorInv, CursorsGiven, Queues
  <1>14. CASE HangUp(s) \/ StreamEnds(s)
    <2>1. UNCHANGED <<inboxVars, cursor, job, report, out>>
      BY <1>14 DEF HangUp, StreamEnds, Close, deviceVars
    <2> QED BY <1>1, <2>1 DEF CursorInv
  <1>15. CASE Deregister(s)
    <2>1. UNCHANGED <<inboxVars, cursor, report, out>>
      BY <1>15 DEF Deregister, deviceVars
    <2>2. job' = job \/ \E to : job' = [job EXCEPT ![s] = <<"gone", to>>]
      BY <1>15 DEF Deregister
    <2> QED BY <1>1, <2>1, <2>2 DEF CursorInv, CursorsGiven
  <1>16. CASE NotifyPeers(s)
    <2>1. /\ UNCHANGED <<inboxVars, cursor, report>>
          /\ job' = [job EXCEPT ![s] = Idle]
          /\ out' = [t \in Sessions |-> IF t \in job[s][2]
                                        THEN TrySend(out, t, <<"peer_gone">>)[t] ELSE out[t]]
      BY <1>16 DEF NotifyPeers, deviceVars
    <2>2. Sound(<<"peer_gone">>)
      BY DEF Sound
    <2>3. \A t \in Sessions : Queues(TrySend(out, t, <<"peer_gone">>))
      BY <1>1, <2>2, TrySendQueues
    <2>4. Queues(out')
      BY <1>1, <2>1, <2>3 DEF Queues
    <2>5. Idle[1] # "drain"
      BY DEF Idle
    <2> QED BY <1>1, <2>1, <2>4, <2>5 DEF CursorInv, CursorsGiven
  <1>17. CASE Finish(s)
    <2>1. /\ UNCHANGED <<inboxVars, cursor, job>>
          /\ out' = [out EXCEPT ![s] = <<>>] /\ report' = [report EXCEPT ![s] = 0]
      BY <1>17 DEF Finish
    <2> QED BY <1>1, <2>1, CarriesEmpty DEF CursorInv, CursorsGiven, Queues
  <1>18. CASE AnsweredHere(s)
    <2>1. UNCHANGED <<inboxVars, cursor, job, report>> /\ out' = TrySend(out, s, <<"status">>)
      BY <1>18 DEF AnsweredHere, deviceVars
    <2>2. Sound(<<"status">>)
      BY DEF Sound
    <2>3. Queues(out')
      BY <1>1, <2>1, <2>2, TrySendQueues
    <2> QED BY <1>1, <2>1, <2>3 DEF CursorInv, CursorsGiven
  <1> HIDE DEF Goal
  <1> QED BY <1>3, <1>4, <1>5, <1>6, <1>7, <1>8, <1>9, <1>10, <1>11, <1>12, <1>13, <1>14, <1>15,
             <1>16, <1>17, <1>18 DEF SessionStep

LEMMA RouterStart == Init => RouterInv
  <1> SUFFICES ASSUME Init PROVE RouterInv
    OBVIOUS
  <1>1. InboxInv /\ RouteInv
    BY InboxStart, RouteStart DEF Init
  <1>2. Queues(out)
    BY CarriesEmpty DEF Init, Queues
  <1>3. Given(1)
    BY DEF Given
  <1>4. Idle[1] # "drain"
    BY DEF Idle
  <1>5. CursorInv
    BY <1>2, <1>3, <1>4 DEF Init, CursorInv, CursorsGiven
  <1> QED BY <1>1, <1>5 DEF RouterInv

(* Every step of the router is a step of the store or leaves it alone. *)
LEMMA RouterStep ==
    RouterInv /\ [Next]_vars => [InboxNext]_inboxVars /\ RouterInv'
  <1> SUFFICES ASSUME RouterInv, [Next]_vars PROVE [InboxNext]_inboxVars /\ RouterInv'
    OBVIOUS
  <1> DEFINE Goal == [InboxNext]_inboxVars /\ CursorsGiven(job', out', cursor', report')
  <1>1. InboxInv /\ RouteInv /\ CursorInv /\ Queues(out)
    BY DEF RouterInv, CursorInv, CursorsGiven
  <1>2. ASSUME NEW d \in Devices, Welcome(d) PROVE Goal
    <2>1. UNCHANGED <<inboxVars, job, out, cursor, report>>
      BY <1>2 DEF Welcome, sessionVars, deviceVars
    <2> QED BY <1>1, <2>1 DEF CursorInv
  <1>3. ASSUME NEW d \in Devices, Register(d) PROVE Goal
    <2>1. UNCHANGED <<inboxVars, job, cursor, report>> /\ out' = Displace(out, live[d])
      BY <1>3 DEF Register, deviceVars
    <2>2. Sound(<<"displaced">>)
      BY DEF Sound
    <2>3. live[d] = NoSession \/ live[d] \in Sessions
      BY <1>1 DEF RouteInv
    <2>4. Queues(out')
      BY <1>1, <2>1, <2>2, <2>3, TrySendQueues DEF Displace
    <2> QED BY <1>1, <2>1, <2>4 DEF CursorInv, CursorsGiven
  <1>4. ASSUME NEW s \in Sessions, SessionStep(s) PROVE Goal
    BY <1>4, SessionImplements
  <1>5. ASSUME NEW now \in Times, HourlySweep(now) PROVE Goal
    <2>1. UNCHANGED <<job, out, cursor, report>>
      BY <1>5 DEF HourlySweep, routerVars, sessionVars, deviceVars
    <2>2. InboxNext
      BY <1>5 DEF HourlySweep, InboxNext
    <2> QED BY <1>1, <2>1, <2>2 DEF CursorInv
  <1>6. CASE Crash
    <2>1. /\ UNCHANGED <<inboxVars, cursor>>
          /\ job' = [s \in Sessions |-> Idle]
          /\ out' = [s \in Sessions |-> <<>>]
          /\ report' = [s \in Sessions |-> 0]
      BY <1>6 DEF Crash, LoseSessions
    <2>2. Queues(out')
      BY <2>1, CarriesEmpty DEF Queues
    <2>3. Idle[1] # "drain"
      BY DEF Idle
    <2>4. Goal
      BY <1>1, <2>1, <2>2, <2>3 DEF CursorInv, CursorsGiven
    <2> QED BY <1>1, <2>4, CursorsStay, InboxStep, RouteStep DEF RouterInv
  <1>7. CASE UNCHANGED vars
    <2>1. UNCHANGED <<inboxVars, job, out, cursor, report>>
      BY <1>7 DEF vars, routerVars, sessionVars, deviceVars
    <2>2. Goal
      BY <1>1, <2>1 DEF CursorInv
    <2> QED BY <1>1, <2>2, CursorsStay, InboxStep, RouteStep DEF RouterInv
  <1>8. ASSUME Goal PROVE [InboxNext]_inboxVars /\ RouterInv'
    BY <1>1, <1>8, CursorsStay, InboxStep, RouteStep DEF RouterInv
  <1> HIDE DEF Goal
  <1> QED BY <1>2, <1>3, <1>4, <1>5, <1>6, <1>7, <1>8 DEF Next

(* The router, with its sessions, queues and crashes, uses the store only as its
   specification allows: what is proved of the inbox holds of the relay. *)
THEOREM RouterImplementsInbox == Spec => InboxSpec
  <1>1. Init => InboxInit
    BY DEF Init
  <1> QED BY <1>1, RouterStart, RouterStep, PTL DEF Spec, InboxSpec

(* In the running relay every committed message is queued, acknowledged or
   counted as dropped for its own device (inbox.rs under router.rs). *)
THEOREM RouterDropsCounted == Spec => []DropsCounted
  BY RouterImplementsInbox, InboxDropsCounted, PTL

-----------------------------------------------------------------------------
(* What `delivered` promises.  A message goes to the session that held its
   device's route when it was looked up, and stays in that session's queue until
   the writer has written it or is gone. *)
Envelope(m) == <<"envelope", m>>

SessionOf(devices, t, d) == t \in 1..Len(devices) /\ devices[t] = d

DeliverJobs ==
    \A s \in Sessions : job[s][1] = "deliver" => SessionOf(device, job[s][2], To[job[s][3]])

DeliveryInv ==
    /\ DOMAIN job = Sessions /\ DOMAIN writer = Sessions /\ DOMAIN heard = Devices
    /\ DOMAIN outcome = Messages /\ DOMAIN carrier = Messages
    /\ DeliverJobs
    /\ \A m \in Messages : outcome[m] = "delivered" => SessionOf(device, carrier[m], To[m])
    /\ DeliveredOrSessionEnded

(* What is in a queue is in it after an append, and after the head is taken off
   unless it is the head. *)
LEMMA InAppended ==
    ASSUME NEW queue, Carries(queue), NEW item, NEW x, x \in Range(queue) \/ x = item
    PROVE  x \in Range(Append(queue, item))
  <1>1. PICK S : queue \in Seq(S)
    BY DEF Carries
  <1>2. /\ DOMAIN Append(queue, item) = 1..(Len(queue) + 1) /\ Len(queue) \in Nat
        /\ Append(queue, item)[Len(queue) + 1] = item
        /\ \A i \in 1..Len(queue) : Append(queue, item)[i] = queue[i]
    <2> DEFINE T == S \cup {item}
    <2>1. queue \in Seq(T) /\ item \in T
      BY <1>1
    <2> HIDE DEF T
    <2> QED BY <2>1
  <1>3. DOMAIN queue = 1..Len(queue)
    BY <1>1
  <1> QED BY <1>2, <1>3 DEF Range

LEMMA InTail ==
    ASSUME NEW queue, Carries(queue), queue # <<>>, NEW x \in Range(queue)
    PROVE  x = Head(queue) \/ x \in Range(Tail(queue))
  <1>1. PICK S : queue \in Seq(S)
    BY DEF Carries
  <1>2. PICK i \in 1..Len(queue) : x = queue[i]
    BY <1>1 DEF Range
  <1>3. CASE i = 1
    BY <1>1, <1>2, <1>3
  <1>4. CASE i # 1
    <2>1. /\ DOMAIN Tail(queue) = 1..(Len(queue) - 1) /\ i - 1 \in 1..(Len(queue) - 1)
          /\ Tail(queue)[i - 1] = queue[i]
      BY <1>1, <1>2, <1>4
    <2> QED BY <1>2, <2>1 DEF Range
  <1> QED BY <1>3, <1>4

(* try_send loses nothing, and adds the item where it is accepted. *)
LEMMA TrySendHolds ==
    ASSUME NEW queues, Queues(queues), NEW s \in Sessions, NEW item, NEW t \in Sessions, NEW x
    PROVE  /\ x \in Range(queues[t]) => x \in Range(TrySend(queues, s, item)[t])
           /\ Accepts(queues, s) => item \in Range(TrySend(queues, s, item)[s])
  <1>1. CASE ~Accepts(queues, s)
    BY <1>1 DEF TrySend
  <1>2. CASE Accepts(queues, s)
    <2>1. TrySend(queues, s, item) = [queues EXCEPT ![s] = Append(@, item)]
      BY <1>2 DEF TrySend
    <2>2. /\ TrySend(queues, s, item)[s] = Append(queues[s], item)
          /\ t # s => TrySend(queues, s, item)[t] = queues[t]
      BY <2>1 DEF Queues
    <2> QED BY <2>2, InAppended DEF Queues
  <1> QED BY <1>1, <1>2

(* What a step has to keep. *)
LEMMA DeliveryKept ==
    ASSUME RouterInv, DeliveryInv,
           DOMAIN job' = Sessions, DOMAIN writer' = Sessions, DOMAIN heard' = Devices,
           DOMAIN outcome' = Messages, DOMAIN carrier' = Messages,
           DeliverJobs',
           \A t, d : SessionOf(device, t, d) => SessionOf(device', t, d),
           \A d \in Devices : heard[d] \subseteq heard'[d],
           \A t \in 1..Len(device) : writer'[t] => writer[t],
           \A t \in 1..Len(device), m \in Messages :
               device[t] = To[m] /\ Envelope(m) \in Range(out[t]) /\ writer'[t]
                 => Envelope(m) \in Range(out'[t]) \/ m \in heard'[To[m]],
           \A m \in Messages : outcome'[m] = "delivered" =>
               \/ outcome[m] = "delivered" /\ carrier'[m] = carrier[m]
               \/ SessionOf(device, carrier'[m], To[m]) /\ Envelope(m) \in Range(out'[carrier'[m]])
    PROVE  DeliveryInv'
  <1>1. \A m \in Messages : To[m] \in Devices
    BY InboxAssumption
  <1>2. ASSUME NEW m \in Messages, outcome'[m] = "delivered"
        PROVE  /\ SessionOf(device', carrier'[m], To[m])
               /\ \/ m \in heard'[To[m]]
                  \/ Envelope(m) \in Range(out'[carrier'[m]])
                  \/ ~writer'[carrier'[m]]
    <2>1. CASE outcome[m] = "delivered" /\ carrier'[m] = carrier[m]
      <3>1. SessionOf(device, carrier[m], To[m]) /\ To[m] \in Devices
        BY <1>1, <2>1 DEF DeliveryInv
      <3>2. \/ m \in heard[To[m]] \/ Envelope(m) \in Range(out[carrier[m]]) \/ ~writer[carrier[m]]
        BY <2>1 DEF DeliveryInv, DeliveredOrSessionEnded, Envelope
      <3>3. SessionOf(device', carrier'[m], To[m])
        BY <2>1, <3>1 DEF SessionOf
      <3> QED BY <2>1, <3>1, <3>2, <3>3 DEF SessionOf
    <2>2. CASE SessionOf(device, carrier'[m], To[m]) /\ Envelope(m) \in Range(out'[carrier'[m]])
      <3>1. SessionOf(device', carrier'[m], To[m])
        BY <2>2 DEF SessionOf
      <3> QED BY <2>2, <3>1
    <2> QED BY <1>2, <2>1, <2>2
  <1>3. DeliveredOrSessionEnded'
    BY <1>2 DEF DeliveredOrSessionEnded, Envelope
  <1>4. \A m \in Messages : outcome'[m] = "delivered" => SessionOf(device', carrier'[m], To[m])
    BY <1>2
  <1>5. (\A m \in Messages : outcome[m] = "delivered" => SessionOf(device, carrier[m], To[m]))'
    BY <1>4 DEF SessionOf
  <1> QED BY <1>3, <1>5 DEF DeliveryInv

(* A reader takes on work other than a delivery. *)
LEMMA JobsKept ==
    ASSUME DeliveryInv, NEW s \in Sessions, NEW j, j[1] # "deliver",
           job' = [job EXCEPT ![s] = j], device' = device
    PROVE  DeliverJobs' /\ DOMAIN job' = Sessions
  <1>1. DOMAIN job' = Sessions /\ job'[s] = j /\ \A t \in Sessions \ {s} : job'[t] = job[t]
    BY DEF DeliveryInv
  <1>2. \A t \in Sessions : job'[t][1] = "deliver" => job'[t] = job[t]
    BY <1>1
  <1> QED BY <1>1, <1>2 DEF DeliveryInv, DeliverJobs

(* Steps that only add to the queues, and leave the writers and the messages. *)
LEMMA QueuesGrow ==
    ASSUME RouterInv, DeliveryInv, UNCHANGED <<device, writer, outcome, carrier, heard>>,
           DeliverJobs', DOMAIN job' = Sessions,
           \A t \in Sessions, m \in Messages :
               Envelope(m) \in Range(out[t]) => Envelope(m) \in Range(out'[t])
    PROVE  DeliveryInv'
  <1>1. 1..Len(device) \subseteq Sessions
    BY Registered DEF RouterInv
  <1> QED BY <1>1, DeliveryKept DEF DeliveryInv

(* The reader finishes an envelope. *)
LEMMA AnswerKeeps ==
    ASSUME RouterInv, DeliveryInv, NEW s \in Sessions, NEW queues, Queues(queues),
           NEW n \in Messages, NEW what, NEW u, Answer(s, queues, n, what, u),
           \A t \in Sessions, m \in Messages :
               Envelope(m) \in Range(out[t]) => Envelope(m) \in Range(queues[t]),
           what = "delivered" => SessionOf(device, u, To[n]) /\ Envelope(n) \in Range(queues[u])
    PROVE  DeliveryInv'
  <1>1. /\ out' = TrySend(queues, s, <<"status">>) /\ job' = [job EXCEPT ![s] = Idle]
        /\ outcome' = [outcome EXCEPT ![n] = what] /\ carrier' = [carrier EXCEPT ![n] = u]
        /\ UNCHANGED <<device, writer, heard>>
    BY DEF Answer, deviceVars
  <1>2. 1..Len(device) \subseteq Sessions
    BY Registered DEF RouterInv
  <1>3. \A t \in Sessions, m \in Messages :
           Envelope(m) \in Range(queues[t]) => Envelope(m) \in Range(out'[t])
    BY <1>1, TrySendHolds
  <1>4. DeliverJobs' /\ DOMAIN job' = Sessions
    BY <1>1, JobsKept DEF Idle
  <1>5. /\ DOMAIN outcome' = Messages /\ outcome'[n] = what
        /\ DOMAIN carrier' = Messages /\ carrier'[n] = u
        /\ \A m \in Messages \ {n} : outcome'[m] = outcome[m] /\ carrier'[m] = carrier[m]
    BY <1>1 DEF DeliveryInv
  <1>6. ASSUME NEW m \in Messages, outcome'[m] = "delivered"
        PROVE  \/ outcome[m] = "delivered" /\ carrier'[m] = carrier[m]
               \/ SessionOf(device, carrier'[m], To[m]) /\ Envelope(m) \in Range(out'[carrier'[m]])
    <2>1. CASE m = n
      BY <1>2, <1>3, <1>5, <1>6, <2>1 DEF SessionOf
    <2>2. CASE m # n
      BY <1>5, <1>6, <2>2
    <2> QED BY <2>1, <2>2
  <1>7. DOMAIN writer' = Sessions /\ DOMAIN heard' = Devices
    BY <1>1 DEF DeliveryInv
  <1>8. /\ \A t, d : SessionOf(device, t, d) => SessionOf(device', t, d)
        /\ \A d \in Devices : heard[d] \subseteq heard'[d]
        /\ \A t \in 1..Len(device) : writer'[t] => writer[t]
    BY <1>1
  <1>9. \A t \in 1..Len(device), m \in Messages :
           Envelope(m) \in Range(out[t]) => Envelope(m) \in Range(out'[t])
    BY <1>2, <1>3
  <1> QED BY <1>4, <1>5, <1>6, <1>7, <1>8, <1>9, DeliveryKept

(* Decision::Deliver: the queue that accepted the message has it. *)
LEMMA DeliverKeeps ==
    ASSUME RouterInv, DeliveryInv, NEW s \in Sessions, Deliver(s)
    PROVE  DeliveryInv'
  <1>1. PICK t \in Sessions, n \in Messages :
           /\ job[s] = <<"deliver", t, n>>
           /\ Answer(s, TrySend(out, t, Envelope(n)), n, DeliverOutcome(t),
                     IF DeliverOutcome(t) = "delivered" THEN t ELSE NoSession)
    BY DEF Deliver, Envelope
  <1> DEFINE queues == TrySend(out, t, Envelope(n))
  <1>2. SessionOf(device, t, To[n])
    BY <1>1 DEF DeliveryInv, DeliverJobs
  <1>3. Queues(out) /\ Sound(Envelope(n))
    BY DEF RouterInv, CursorInv, CursorsGiven, Sound, Envelope
  <1>4. Queues(queues)
    BY <1>3, TrySendQueues
  <1>5. \A v \in Sessions, m \in Messages :
           Envelope(m) \in Range(out[v]) => Envelope(m) \in Range(queues[v])
    BY <1>3, TrySendHolds
  <1>6. DeliverOutcome(t) = "delivered" => Envelope(n) \in Range(queues[t])
    BY <1>3, TrySendHolds DEF DeliverOutcome
  <1> HIDE DEF queues
  <1>7. CASE DeliverOutcome(t) = "delivered"
    BY <1>1, <1>2, <1>4, <1>5, <1>6, <1>7, AnswerKeeps DEF queues
  <1>8. CASE DeliverOutcome(t) # "delivered"
    BY <1>1, <1>4, <1>5, <1>8, AnswerKeeps DEF queues
  <1> QED BY <1>7, <1>8

(* Router::decide: the session that holds the route is a session of the device. *)
LEMMA DecideKeeps ==
    ASSUME RouterInv, DeliveryInv, NEW s \in Sessions, NEW m \in Messages, Decide(s, m)
    PROVE  DeliveryInv'
  <1>1. /\ job' = [job EXCEPT ![s] = Decision(m)] /\ outcome' = [outcome EXCEPT ![m] = "routing"]
        /\ UNCHANGED <<device, writer, heard, out, carrier>>
    BY DEF Decide, deviceVars
  <1>2. Decision(m)[1] = "deliver" => SessionOf(device, Decision(m)[2], To[Decision(m)[3]])
    <2>1. To[m] \in Devices
      BY InboxAssumption
    <2>2. CASE live[To[m]] # NoSession
      <3>1. Decision(m)[2] = live[To[m]] /\ Decision(m)[3] = m
        BY <2>2 DEF Decision
      <3>2. SessionOf(device, live[To[m]], To[m])
        BY <2>1, <2>2 DEF RouterInv, RouteInv, RouteIsReader, SessionOf
      <3> QED BY <3>1, <3>2
    <2>3. CASE live[To[m]] = NoSession
      BY <2>3 DEF Decision
    <2> QED BY <2>2, <2>3
  <1> DEFINE j == Decision(m)
  <1> HIDE DEF j
  <1>3. DOMAIN job' = Sessions /\ job'[s] = j /\ \A t \in Sessions \ {s} : job'[t] = job[t]
    BY <1>1 DEF DeliveryInv, j
  <1>4. DeliverJobs'
    BY <1>1, <1>2, <1>3 DEF DeliveryInv, DeliverJobs, j
  <1>5. /\ DOMAIN outcome' = Messages
        /\ \A n \in Messages : outcome'[n] = "delivered" => outcome[n] = "delivered"
    BY <1>1 DEF DeliveryInv
  <1>6. /\ DOMAIN carrier' = Messages /\ DOMAIN writer' = Sessions /\ DOMAIN heard' = Devices
    BY <1>1 DEF DeliveryInv
  <1> QED BY <1>1, <1>3, <1>4, <1>5, <1>6, DeliveryKept

(* The writer: what it takes off the queue of a session, the device has read. *)
LEMMA WriteKeeps ==
    ASSUME RouterInv, DeliveryInv, NEW s \in Sessions, WriteItem(s)
    PROVE  DeliveryInv'
  <1> DEFINE item == Head(out[s])
  <1>1. /\ out[s] # <<>> /\ out' = [out EXCEPT ![s] = Tail(@)]
        /\ heard' = IF item[1] \in {"envelope", "raw"}
                    THEN [heard EXCEPT ![device[s]] = @ \cup {item[2]}] ELSE heard
        /\ UNCHANGED <<device, writer, job, outcome, carrier>>
    BY DEF WriteItem, messageVars
  <1>2. Queues(out) /\ 1..Len(device) \subseteq Sessions
    BY Registered DEF RouterInv, CursorInv, CursorsGiven
  <1>3. out'[s] = Tail(out[s]) /\ \A t \in Sessions \ {s} : out'[t] = out[t]
    BY <1>1, <1>2 DEF Queues
  <1>4. DOMAIN heard' = Devices /\ \A d \in Devices : heard[d] \subseteq heard'[d]
    <2> HIDE DEF item
    <2> QED BY <1>1 DEF DeliveryInv
  <1>5. ASSUME NEW t \in 1..Len(device), NEW m \in Messages, device[t] = To[m],
               Envelope(m) \in Range(out[t])
        PROVE  Envelope(m) \in Range(out'[t]) \/ m \in heard'[To[m]]
    <2>1. CASE t # s
      BY <1>2, <1>3, <1>5, <2>1
    <2>2. CASE t = s /\ Envelope(m) # item
      <3>1. Carries(out[s])
        BY <1>2 DEF Queues
      <3> HIDE DEF item
      <3>2. Envelope(m) \in Range(Tail(out[s]))
        BY <1>1, <1>5, <2>2, <3>1, InTail DEF item
      <3> QED BY <1>3, <2>2, <3>2
    <2>3. CASE t = s /\ Envelope(m) = item
      <3> HIDE DEF item
      <3>1. item[1] = "envelope" /\ item[2] = m
        BY <2>3 DEF Envelope
      <3>2. To[m] \in Devices
        BY InboxAssumption
      <3> QED BY <1>1, <1>5, <2>3, <3>1, <3>2 DEF DeliveryInv
    <2> QED BY <2>1, <2>2, <2>3
  <1>6. DeliverJobs' /\ DOMAIN job' = Sessions /\ DOMAIN writer' = Sessions
        /\ DOMAIN outcome' = Messages /\ DOMAIN carrier' = Messages
    BY <1>1 DEF DeliveryInv, DeliverJobs
  <1> QED BY <1>1, <1>4, <1>5, <1>6, DeliveryKept

(* A writer that ends. *)
LEMMA WriterGone ==
    ASSUME RouterInv, DeliveryInv, NEW s \in Sessions, writer' = [writer EXCEPT ![s] = FALSE],
           out' = [out EXCEPT ![s] = <<>>], UNCHANGED <<device, job, outcome, carrier, heard>>
    PROVE  DeliveryInv'
  <1>1. 1..Len(device) \subseteq Sessions /\ DOMAIN out = Sessions
    BY Registered DEF RouterInv, CursorInv, CursorsGiven, Queues
  <1>2. /\ DOMAIN writer' = Sessions /\ ~writer'[s]
        /\ \A t \in Sessions \ {s} : writer'[t] = writer[t] /\ out'[t] = out[t]
    BY <1>1 DEF DeliveryInv
  <1>3. DeliverJobs' /\ DOMAIN job' = Sessions /\ DOMAIN heard' = Devices
        /\ DOMAIN outcome' = Messages /\ DOMAIN carrier' = Messages
    BY DEF DeliveryInv, DeliverJobs
  <1>4. \A t \in 1..Len(device) : writer'[t] => t # s /\ writer[t] /\ out'[t] = out[t]
    BY <1>1, <1>2
  <1> QED BY <1>2, <1>3, <1>4, DeliveryKept

(* Router::register: a session that was never handed anything. *)
LEMMA RegisterKeeps ==
    ASSUME RouterInv, DeliveryInv, NEW d \in Devices, Register(d)
    PROVE  DeliveryInv'
  <1> DEFINE n == Len(device)
             s == n + 1
  <1>1. /\ s \in Sessions /\ device' = Append(device, d) /\ writer' = [writer EXCEPT ![s] = TRUE]
        /\ out' = Displace(out, live[d]) /\ UNCHANGED <<job, outcome, carrier, heard>>
    BY DEF Register, messageVars, deviceVars
  <1>2. n \in Nat /\ 1..n \subseteq Sessions /\ device \in Seq(Devices)
        /\ (live[d] = NoSession \/ live[d] \in Sessions) /\ Queues(out)
    BY Registered DEF RouterInv, RouteInv, CursorInv, CursorsGiven
  <1>3. Len(device') = s /\ \A t \in 1..n : device'[t] = device[t]
    BY <1>1, <1>2
  <1>4. \A t \in 1..n : t \in 1..s /\ t # s /\ t \in Sessions
    BY <1>2
  <1> HIDE DEF s
  <1>5. DOMAIN writer' = Sessions /\ \A t \in 1..n : writer'[t] = writer[t]
    BY <1>1, <1>4 DEF DeliveryInv
  <1>6. \A t, e : SessionOf(device, t, e) => SessionOf(device', t, e)
    BY <1>3, <1>4 DEF SessionOf
  <1>7. DeliverJobs'
    BY <1>1, <1>6 DEF DeliveryInv, DeliverJobs
  <1>8. \A t \in Sessions : \A x : x \in Range(out[t]) => x \in Range(out'[t])
    BY <1>1, <1>2, TrySendHolds DEF Displace
  <1>9. DOMAIN job' = Sessions /\ DOMAIN heard' = Devices
        /\ DOMAIN outcome' = Messages /\ DOMAIN carrier' = Messages
    BY <1>1 DEF DeliveryInv
  <1>10. \A t \in 1..Len(device), m \in Messages :
           Envelope(m) \in Range(out[t]) => Envelope(m) \in Range(out'[t])
    BY <1>4, <1>8
  <1> QED BY <1>1, <1>5, <1>6, <1>7, <1>9, <1>10, DeliveryKept

(* kill -9: no writer is left. *)
LEMMA CrashDelivery ==
    ASSUME RouterInv, DeliveryInv, Crash
    PROVE  DeliveryInv'
  <1>1. /\ writer' = [s \in Sessions |-> FALSE] /\ job' = [s \in Sessions |-> Idle]
        /\ UNCHANGED <<device, outcome, carrier, heard>>
    BY DEF Crash, LoseSessions, messageVars
  <1>2. DeliverJobs' /\ DOMAIN job' = Sessions
    BY <1>1 DEF DeliverJobs, Idle
  <1>3. DOMAIN writer' = Sessions /\ \A t \in 1..Len(device) : ~writer'[t]
    BY <1>1, Registered DEF RouterInv
  <1>4. DOMAIN heard' = Devices /\ DOMAIN outcome' = Messages /\ DOMAIN carrier' = Messages
    BY <1>1 DEF DeliveryInv
  <1> QED BY <1>1, <1>2, <1>3, <1>4, DeliveryKept

LEMMA SessionDelivery ==
    ASSUME RouterInv, DeliveryInv, NEW s \in Sessions, SessionStep(s)
    PROVE  DeliveryInv'
  <1>1. Queues(out)
    BY DEF RouterInv, CursorInv, CursorsGiven
  <1>2. ASSUME NEW m \in Messages, FrameRefused(s, m) \/ FrameToStranger(s, m)
        PROVE  DeliveryInv'
    BY <1>1, <1>2, AnswerKeeps DEF FrameRefused, FrameToStranger
  <1>3. CASE QueueFails(s)
    BY <1>1, <1>3, AnswerKeeps DEF QueueFails
  <1>4. ASSUME NEW now \in Times, QueueFrame(s, now) PROVE DeliveryInv'
    BY <1>1, <1>4, AnswerKeeps DEF QueueFrame
  <1>5. ASSUME NEW j, NEW item, j[1] # "deliver", job' = [job EXCEPT ![s] = j],
               UNCHANGED <<device, writer, outcome, carrier, heard>>,
               out' = out \/ out' = TrySend(out, s, item)
        PROVE  DeliveryInv'
    <2>1. DeliverJobs' /\ DOMAIN job' = Sessions
      BY <1>5, JobsKept
    <2>2. \A t \in Sessions, m \in Messages :
             Envelope(m) \in Range(out[t]) => Envelope(m) \in Range(out'[t])
      BY <1>1, <1>5, TrySendHolds
    <2> QED BY <1>5, <2>1, <2>2, QueuesGrow
  <1>6. ASSUME NEW now \in Times, DrainRequest(s, now) PROVE DeliveryInv'
    <2>1. PICK raws, next, dropped : job' = [job EXCEPT ![s] = <<"drain", raws, next, dropped>>]
      BY <1>6 DEF DrainRequest
    <2>2. UNCHANGED <<device, writer, outcome, carrier, heard, out>>
      BY <1>6 DEF DrainRequest, messageVars
    <2> QED BY <1>5, <2>1, <2>2
  <1>7. CASE PushRow(s)
    <2>1. PICK raws : job' = [job EXCEPT ![s] = <<"drain", raws, job[s][3], job[s][4]>>]
      BY <1>7 DEF PushRow, DeliveryInv
    <2>2. UNCHANGED <<device, writer, outcome, carrier, heard>>
          /\ out' = TrySend(out, s, <<"raw", Head(job[s][2])>>)
      BY <1>7 DEF PushRow, messageVars, deviceVars
    <2> QED BY <1>5, <2>1, <2>2
  <1>8. CASE PushReport(s)
    <2>1. /\ job' = [job EXCEPT ![s] = Idle] /\ UNCHANGED <<device, writer, outcome, carrier, heard>>
          /\ out' = TrySend(out, s, <<"report", job[s][3], job[s][4]>>)
      BY <1>8 DEF PushReport, messageVars, deviceVars
    <2> QED BY <1>5, <2>1 DEF Idle
  <1>9. CASE AnsweredHere(s)
    <2>1. /\ UNCHANGED <<device, writer, outcome, carrier, heard, job>>
          /\ out' = TrySend(out, s, <<"status">>)
      BY <1>9 DEF AnsweredHere, messageVars, deviceVars
    <2>2. DeliverJobs' /\ DOMAIN job' = Sessions
      BY <2>1 DEF DeliveryInv, DeliverJobs
    <2>3. \A t \in Sessions, m \in Messages :
             Envelope(m) \in Range(out[t]) => Envelope(m) \in Range(out'[t])
      BY <1>1, <2>1, TrySendHolds
    <2> QED BY <2>1, <2>2, <2>3, QueuesGrow
  <1>10. CASE AckRequest(s) \/ HangUp(s) \/ StreamEnds(s)
    <2>1. UNCHANGED <<device, writer, outcome, carrier, heard, job, out>>
      BY <1>10 DEF AckRequest, HangUp, StreamEnds, Close, sessionVars, messageVars, deviceVars
    <2> QED BY <2>1, QueuesGrow DEF DeliveryInv, DeliverJobs
  <1>11. CASE Deregister(s)
    <2>1. UNCHANGED <<device, writer, outcome, carrier, heard, out>>
      BY <1>11 DEF Deregister, messageVars, deviceVars
    <2>2. job' = job \/ \E to : job' = [job EXCEPT ![s] = <<"gone", to>>]
      BY <1>11 DEF Deregister
    <2>3. CASE job' = job
      BY <2>1, <2>3, QueuesGrow DEF DeliveryInv, DeliverJobs
    <2>4. ASSUME NEW to, job' = [job EXCEPT ![s] = <<"gone", to>>] PROVE DeliveryInv'
      BY <1>5, <2>1, <2>4
    <2> QED BY <2>2, <2>3, <2>4
  <1>12. CASE NotifyPeers(s)
    <2>1. /\ UNCHANGED <<device, writer, outcome, carrier, heard>>
          /\ job' = [job EXCEPT ![s] = Idle]
          /\ out' = [t \in Sessions |-> IF t \in job[s][2]
                                        THEN TrySend(out, t, <<"peer_gone">>)[t] ELSE out[t]]
      BY <1>12 DEF NotifyPeers, messageVars, deviceVars
    <2>2. DeliverJobs' /\ DOMAIN job' = Sessions
      BY <2>1, JobsKept DEF Idle
    <2>3. \A t \in Sessions, m \in Messages :
             Envelope(m) \in Range(out[t]) => Envelope(m) \in Range(out'[t])
      BY <1>1, <2>1, TrySendHolds
    <2> QED BY <2>1, <2>2, <2>3, QueuesGrow
  <1>13. CASE WriterEnds(s) \/ Finish(s)
    <2>1. /\ writer' = [writer EXCEPT ![s] = FALSE] /\ out' = [out EXCEPT ![s] = <<>>]
          /\ UNCHANGED <<device, job, outcome, carrier, heard>>
      BY <1>13 DEF WriterEnds, Finish, messageVars, deviceVars
    <2> QED BY <2>1, WriterGone
  <1> QED BY <1>2, <1>3, <1>4, <1>6, <1>7, <1>8, <1>9, <1>10, <1>11, <1>12, <1>13, DecideKeeps,
             DeliverKeeps, WriteKeeps DEF SessionStep

(* A sender that was told `delivered` is wrong only about a message whose session
   ended (Decision::Deliver and the writer task), for every number of devices,
   sessions, messages, crashes and every size of the queue. *)
THEOREM RouterDelivers == Spec => []DeliveredOrSessionEnded
  <1>1. Init => DeliveryInv
    <2> SUFFICES ASSUME Init PROVE DeliveryInv
      OBVIOUS
    <2>1. DeliverJobs
      BY DEF Init, DeliverJobs, Idle
    <2>2. \A m \in Messages : outcome[m] # "delivered"
      BY DEF Init
    <2> QED BY <2>1, <2>2 DEF Init, DeliveryInv, DeliveredOrSessionEnded
  <1>2. RouterInv /\ DeliveryInv /\ [Next]_vars => DeliveryInv'
    <2> SUFFICES ASSUME RouterInv, DeliveryInv, [Next]_vars PROVE DeliveryInv'
      OBVIOUS
    <2>1. ASSUME UNCHANGED <<device, writer, outcome, carrier, heard, job, out>> PROVE DeliveryInv'
      BY <2>1, QueuesGrow DEF DeliveryInv, DeliverJobs
    <2>2. ASSUME NEW d \in Devices, Welcome(d) PROVE DeliveryInv'
      BY <2>1, <2>2 DEF Welcome, sessionVars, messageVars, deviceVars
    <2>3. ASSUME NEW now \in Times, HourlySweep(now) PROVE DeliveryInv'
      BY <2>1, <2>3 DEF HourlySweep, routerVars, sessionVars, messageVars, deviceVars
    <2>4. CASE UNCHANGED vars
      BY <2>1, <2>4 DEF vars, routerVars, sessionVars, messageVars, deviceVars
    <2> QED BY <2>2, <2>3, <2>4, RegisterKeeps, SessionDelivery, CrashDelivery DEF Next
  <1>3. DeliveryInv => DeliveredOrSessionEnded
    BY DEF DeliveryInv
  <1> QED BY <1>1, <1>2, <1>3, RouterStart, RouterStep, PTL DEF Spec
===============================================================================
