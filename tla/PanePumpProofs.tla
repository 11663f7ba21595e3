---------------------------- MODULE PanePumpProofs ----------------------------
EXTENDS PanePump, AgentWatch, SequenceTheorems, TLAPS

(* What the proofs need of the types: the functions are functions on Sides and
   the journals are bounded sequences of bytes. *)
CoreType ==
    /\ stream \in Seq(Bytes) /\ tty \in Seq(Bytes)
    /\ owner \in Sides
    /\ pump \in [Sides -> PumpPhases]
    /\ chunk \in [Sides -> Seq(Bytes)]
    /\ ring = [s \in Sides |-> ring[s]]
    /\ \A s \in Sides : /\ ring[s].raw \in Seq(Bytes)
                        /\ Len(ring[s].raw) <= MaxJournal
                        /\ ring[s].rawTruncated \in BOOLEAN
    /\ requested \in [Sides -> BOOLEAN] /\ quiesced \in [Sides -> BOOLEAN]
    /\ finished \in [Sides -> BOOLEAN]

(* A prefix of a byte sequence is one, of the length asked for. *)
LEMMA Prefix ==
    ASSUME NEW b \in Seq(Bytes), NEW n \in 0..Len(b)
    PROVE  /\ SubSeq(b, 1, n) \in Seq(Bytes)
           /\ Len(SubSeq(b, 1, n)) = n
           /\ \A i \in 1..n : SubSeq(b, 1, n)[i] = b[i]
  BY LenProperties, SubSeqProperties

(* The journal stays a byte sequence within its cap (push_bytes, MAX_RAW_JOURNAL). *)
LEMMA JournalType ==
    ASSUME NEW r, r.raw \in Seq(Bytes), Len(r.raw) <= MaxJournal, r.rawTruncated \in BOOLEAN,
           NEW b \in Seq(Bytes)
    PROVE  /\ Journal(r, b) \in Seq(Bytes)
           /\ Len(Journal(r, b)) <= MaxJournal
           /\ JournalTruncated(r, b) \in BOOLEAN
  <1> DEFINE n == IF Len(b) <= Room(r) THEN Len(b) ELSE Room(r)
  <1>1. JournalTruncated(r, b) \in BOOLEAN
    BY DEF JournalTruncated
  <1>a. Len(b) \in Nat /\ Len(r.raw) \in Nat
    BY LenProperties
  <1>b. Room(r) \in Nat
    BY <1>a, RingAssumption DEF Room
  <1>2. n \in 0..Len(b) /\ n <= Room(r)
    BY <1>a, <1>b
  <1>c. Room(r) = MaxJournal - Len(r.raw)
    BY DEF Room
  <1>3. CASE r.rawTruncated
    BY <1>1, <1>3 DEF Journal
  <1>4. CASE ~r.rawTruncated
    <2>1. Journal(r, b) = r.raw \o SubSeq(b, 1, n)
      BY <1>4 DEF Journal
    <2>2. SubSeq(b, 1, n) \in Seq(Bytes) /\ Len(SubSeq(b, 1, n)) = n
      BY <1>2, Prefix
    <2>3. Len(Journal(r, b)) = Len(r.raw) + n
      BY <2>1, <2>2, ConcatProperties
    <2> HIDE DEF n
    <2>4. Len(Journal(r, b)) <= MaxJournal
      BY <1>a, <1>c, <1>2, <2>3, RingAssumption
    <2> QED BY <1>1, <2>1, <2>2, <2>4, ConcatProperties
  <1> QED BY <1>3, <1>4

(* A prefix that ends inside the second of three parts is the first part and
   a prefix of the second. *)
LEMMA PrefixOfConcat ==
    ASSUME NEW s \in Seq(Bytes), NEW b \in Seq(Bytes), NEW t \in Seq(Bytes),
           NEW m \in Nat, Len(s) <= m, m <= Len(s) + Len(b)
    PROVE  /\ m <= Len(s \o b \o t)
           /\ s \o SubSeq(b, 1, m - Len(s)) = SubSeq(s \o b \o t, 1, m)
  <1> DEFINE k == m - Len(s)
             left == s \o SubSeq(b, 1, k)
             all == s \o b \o t
             right == SubSeq(all, 1, m)
  <1>1. Len(s) \in Nat /\ Len(b) \in Nat /\ Len(t) \in Nat /\ k \in 0..Len(b)
    BY LenProperties
  <1>2. /\ s \o b \in Seq(Bytes)
        /\ Len(s \o b) = Len(s) + Len(b)
        /\ \A i \in 1..(Len(s) + Len(b)) :
              (s \o b)[i] = IF i <= Len(s) THEN s[i] ELSE b[i - Len(s)]
    BY ConcatProperties
  <1>3. /\ all \in Seq(Bytes)
        /\ Len(all) = Len(s \o b) + Len(t)
        /\ \A i \in 1..(Len(s \o b) + Len(t)) :
              all[i] = IF i <= Len(s \o b) THEN (s \o b)[i] ELSE t[i - Len(s \o b)]
    BY <1>2, ConcatProperties
  <1>4. /\ SubSeq(b, 1, k) \in Seq(Bytes)
        /\ Len(SubSeq(b, 1, k)) = k
        /\ \A i \in 1..k : SubSeq(b, 1, k)[i] = b[i]
    BY <1>1, Prefix
  <1>5. /\ left \in Seq(Bytes)
        /\ Len(left) = Len(s) + k
        /\ \A i \in 1..(Len(s) + k) :
              left[i] = IF i <= Len(s) THEN s[i] ELSE SubSeq(b, 1, k)[i - Len(s)]
    BY <1>4, ConcatProperties
  <1>6. m \in 0..Len(all)
    BY <1>1, <1>2, <1>3
  <1>7. /\ right \in Seq(Bytes)
        /\ Len(right) = m
        /\ \A i \in 1..m : right[i] = all[i]
    BY <1>3, <1>6, Prefix
  <1> HIDE DEF left, all, right
  <1>8. Len(left) = Len(right)
    BY <1>1, <1>5, <1>7
  <1>9. ASSUME NEW i \in 1..Len(left) PROVE left[i] = right[i]
    <2>1. i \in 1..m /\ i <= Len(s) + Len(b) /\ i \in 1..(Len(s) + k)
      BY <1>1, <1>5
    <2>2. right[i] = IF i <= Len(s) THEN s[i] ELSE b[i - Len(s)]
      BY <2>1, <1>1, <1>2, <1>3, <1>7
    <2>3. i <= Len(s) \/ (i - Len(s)) \in 1..k
      BY <2>1, <1>1
    <2> QED BY <2>1, <2>2, <2>3, <1>1, <1>4, <1>5
  <1>10. left = right
    BY <1>5, <1>7, <1>8, <1>9, SeqEqual
  <1> QED BY <1>6, <1>10, <1>1 DEF left, right, all

(* A chunk either fits the journal, or closes it on a prefix of the stream. *)
LEMMA JournalGrows ==
    ASSUME NEW r, r.raw \in Seq(Bytes), Len(r.raw) <= MaxJournal, ~r.rawTruncated,
           NEW b \in Seq(Bytes), NEW t \in Seq(Bytes)
    PROVE  /\ JournalTruncated(r, b) \/ Journal(r, b) \o <<>> \o t = r.raw \o b \o t
           /\ JournalTruncated(r, b) =>
                /\ MaxJournal <= Len(r.raw \o b \o t)
                /\ Journal(r, b) = SubSeq(r.raw \o b \o t, 1, MaxJournal)
  <1>a. Len(b) \in Nat /\ Len(r.raw) \in Nat
    BY LenProperties
  <1>b. Room(r) = MaxJournal - Len(r.raw) /\ Room(r) \in Nat
    BY <1>a, RingAssumption DEF Room
  <1>1. CASE Len(b) <= Room(r)
    <2>1. ~(Len(b) > Room(r))
      BY <1>1, <1>a, <1>b
    <2>2. ~JournalTruncated(r, b)
      BY <2>1 DEF JournalTruncated
    <2>3. Journal(r, b) = r.raw \o SubSeq(b, 1, Len(b))
      BY <1>1 DEF Journal
    <2>4. SubSeq(b, 1, Len(b)) = b
      BY <1>a, SubSeqFull
    <2>a. r.raw \o b \in Seq(Bytes)
      BY ConcatProperties
    <2>5. Journal(r, b) \o <<>> = r.raw \o b
      BY <2>3, <2>4, <2>a, ConcatEmptySeq
    <2> QED BY <2>2, <2>5
  <1>2. CASE ~(Len(b) <= Room(r))
    <2>1. Len(b) > Room(r)
      BY <1>2, <1>a, <1>b
    <2>2. JournalTruncated(r, b)
      BY <2>1 DEF JournalTruncated
    <2>3. Journal(r, b) = r.raw \o SubSeq(b, 1, MaxJournal - Len(r.raw))
      BY <1>2, <1>b DEF Journal
    <2>4. MaxJournal \in Nat /\ MaxJournal <= Len(r.raw) + Len(b)
      BY <2>1, <1>a, <1>b, RingAssumption
    <2>5. /\ MaxJournal <= Len(r.raw \o b \o t)
          /\ r.raw \o SubSeq(b, 1, MaxJournal - Len(r.raw)) = SubSeq(r.raw \o b \o t, 1, MaxJournal)
      BY <2>4, PrefixOfConcat
    <2> QED BY <2>2, <2>3, <2>5
  <1> QED BY <1>1, <1>2

(* A read splits the terminal buffer into the chunk and the rest. *)
LEMMA ReadSplits ==
    ASSUME NEW t \in Seq(Bytes), NEW n \in 0..Len(t)
    PROVE  /\ SubSeq(t, 1, n) \in Seq(Bytes)
           /\ SubSeq(t, n + 1, Len(t)) \in Seq(Bytes)
           /\ SubSeq(t, 1, n) \o SubSeq(t, n + 1, Len(t)) = t
  <1> DEFINE a == SubSeq(t, 1, n)
             z == SubSeq(t, n + 1, Len(t))
  <1>1. Len(t) \in Nat /\ \A i \in 1..Len(t) : t[i] \in Bytes
    BY LenProperties, ElementOfSeq
  <1>2. a \in Seq(Bytes) /\ Len(a) = n /\ \A i \in 1..n : a[i] = t[i]
    BY Prefix
  <1>3. \A i \in (n + 1)..Len(t) : t[i] \in Bytes
    BY <1>1
  <1>4. /\ z \in Seq(Bytes)
        /\ Len(z) = IF n + 1 <= Len(t) THEN Len(t) - (n + 1) + 1 ELSE 0
        /\ \A i \in 1..(Len(t) - (n + 1) + 1) : z[i] = t[(n + 1) + i - 1]
    BY <1>1, <1>3, SubSeqProperties
  <1>5. Len(z) = Len(t) - n /\ \A i \in 1..(Len(t) - n) : z[i] = t[n + i]
    BY <1>1, <1>4
  <1>6. /\ a \o z \in Seq(Bytes)
        /\ Len(a \o z) = Len(a) + Len(z)
        /\ \A i \in 1..(Len(a) + Len(z)) :
              (a \o z)[i] = IF i <= Len(a) THEN a[i] ELSE z[i - Len(a)]
    BY <1>2, <1>4, ConcatProperties
  <1> HIDE DEF a, z
  <1>7. Len(a \o z) = Len(t)
    BY <1>1, <1>2, <1>5, <1>6
  <1>8. ASSUME NEW i \in 1..Len(a \o z) PROVE (a \o z)[i] = t[i]
    <2>1. i \in 1..(Len(a) + Len(z)) /\ i \in 1..Len(t)
      BY <1>6, <1>7
    <2>2. CASE i <= n
      BY <2>1, <2>2, <1>1, <1>2, <1>6
    <2>3. CASE ~(i <= n)
      <3>1. (i - n) \in 1..(Len(t) - n) /\ n + (i - n) = i
        BY <2>1, <2>3, <1>1
      <3>2. (a \o z)[i] = z[i - n]
        BY <2>1, <2>3, <1>2, <1>6
      <3> QED BY <3>1, <3>2, <1>5
    <2> QED BY <2>2, <2>3
  <1>9. a \o z = t
    BY <1>6, <1>7, <1>8, SeqEqual
  <1> QED BY <1>2, <1>4, <1>9 DEF a, z

(* What a closed journal holds stays a prefix as the child writes on. *)
LEMMA PrefixStays ==
    ASSUME NEW s \in Seq(Bytes), NEW c \in Seq(Bytes), MaxJournal <= Len(s)
    PROVE  /\ MaxJournal <= Len(s \o c)
           /\ SubSeq(s \o c, 1, MaxJournal) = SubSeq(s, 1, MaxJournal)
  <1>1. <<>> \in Seq(Bytes) /\ Len(<<>>) = 0 /\ Len(s) \in Nat /\ Len(c) \in Nat
    BY EmptySeq, LenProperties
  <1>2. MaxJournal \in Nat /\ Len(<<>>) <= MaxJournal /\ MaxJournal <= Len(<<>>) + Len(s)
    BY <1>1, RingAssumption
  <1>3. <<>> \o SubSeq(s, 1, MaxJournal - Len(<<>>)) = SubSeq(<<>> \o s \o c, 1, MaxJournal)
    BY <1>1, <1>2, PrefixOfConcat
  <1>4. <<>> \o s = s
    BY ConcatEmptySeq
  <1>5. MaxJournal - Len(<<>>) = MaxJournal
    BY <1>1, <1>2
  <1>6. SubSeq(s, 1, MaxJournal) \in Seq(Bytes)
    BY <1>1, <1>2, Prefix
  <1>7. <<>> \o SubSeq(s, 1, MaxJournal) = SubSeq(s, 1, MaxJournal)
    BY <1>6, ConcatEmptySeq
  <1>8. SubSeq(<<>> \o s \o c, 1, MaxJournal) = SubSeq(s \o c, 1, MaxJournal)
    BY <1>4
  <1>9. SubSeq(s \o c, 1, MaxJournal) = SubSeq(s, 1, MaxJournal)
    BY <1>3, <1>5, <1>7, <1>8
  <1>10. Len(s \o c) = Len(s) + Len(c)
    BY ConcatProperties
  <1> QED BY <1>1, <1>2, <1>9, <1>10

(* The initial state. *)
LEMMA InitInd == Init => CoreType /\ IndInv
  <1> SUFFICES ASSUME Init PROVE CoreType /\ IndInv
    OBVIOUS
  <1>1. <<>> \in Seq(Bytes) /\ Len(<<>>) = 0 /\ <<>> \o <<>> \o <<>> = <<>>
    BY EmptySeq, ConcatEmptySeq
  <1>2. CoreType
    <2>1. /\ ring = [s \in Sides |-> ring[s]]
          /\ \A s \in Sides : ring[s] = EmptyRing
      BY DEF Init
    <2>2. /\ EmptyRing.raw \in Seq(Bytes) /\ Len(EmptyRing.raw) <= MaxJournal
          /\ EmptyRing.rawTruncated \in BOOLEAN
      BY <1>1, RingAssumption DEF EmptyRing
    <2>3. /\ stream \in Seq(Bytes) /\ tty \in Seq(Bytes) /\ owner \in Sides
          /\ pump \in [Sides -> PumpPhases] /\ chunk \in [Sides -> Seq(Bytes)]
          /\ requested \in [Sides -> BOOLEAN] /\ quiesced \in [Sides -> BOOLEAN]
          /\ finished \in [Sides -> BOOLEAN]
      BY <1>1 DEF Init, Sides, PumpPhases
    <2> QED BY <2>1, <2>2, <2>3 DEF CoreType
  <1>3. GateInv /\ CutInv
    BY DEF Init, GateInv, CutInv, Sides, Other, Ended
  <1>4. BytesInv
    BY <1>1 DEF Init, BytesInv, EmptyRing, Sides
  <1> QED BY <1>2, <1>3, <1>4 DEF IndInv

(* There are two sides, each the other of the other. *)
LEMMA Sidedness ==
    ASSUME NEW s \in Sides
    PROVE  /\ Other(s) \in Sides /\ Other(s) # s
           /\ Other(Other(s)) = s
           /\ \A r \in Sides : r = s \/ r = Other(s)
  BY DEF Sides, Other

(* Writing extends the stream and the terminal by the same bytes. *)
LEMMA WriteKeeps ==
    ASSUME CoreType, IndInv, Write PROVE CoreType' /\ IndInv'
  <1>1. PICK char \in Output : /\ tty' = tty \o char
                               /\ stream' = stream \o char
    BY DEF Write
  <1>2. char \in Seq(Bytes)
    BY PumpAssumption
  <1>3. UNCHANGED <<exited, pumpVars, gateVars, cutVars>>
    BY DEF Write
  <1>4. CoreType'
    BY <1>1, <1>2, <1>3, ConcatProperties DEF CoreType, pumpVars, gateVars, cutVars
  <1>5. GateInv' /\ CutInv'
    BY <1>3 DEF IndInv, GateInv, CutInv, pumpVars, gateVars, cutVars
  <1> DEFINE r == ring[owner]
  <1>6. r.raw \in Seq(Bytes) /\ chunk[owner] \in Seq(Bytes) /\ r.rawTruncated \in BOOLEAN
    BY DEF CoreType
  <1>7. r.raw \o chunk[owner] \in Seq(Bytes)
    BY <1>6, ConcatProperties
  <1>8. (r.raw \o chunk[owner] \o tty) \o char = r.raw \o chunk[owner] \o (tty \o char)
    <2>1. tty \in Seq(Bytes)
      BY DEF CoreType
    <2> DEFINE p == r.raw \o chunk[owner]
    <2>2. p \in Seq(Bytes)
      BY <1>7
    <2> HIDE DEF p
    <2>3. (p \o tty) \o char = p \o (tty \o char)
      BY <1>2, <2>1, <2>2, ConcatAssociative
    <2> QED BY <2>3 DEF p
  <1>9. BytesInv'
    <2> SUFFICES ASSUME pump[owner] # "panicked"
                 PROVE  /\ ~r.rawTruncated => stream' = r.raw \o chunk[owner] \o tty'
                        /\ r.rawTruncated => /\ MaxJournal <= Len(stream')
                                             /\ r.raw = SubSeq(stream', 1, MaxJournal)
      BY <1>3 DEF BytesInv, pumpVars, cutVars
    <2>1. CASE ~r.rawTruncated
      BY <2>1, <1>1, <1>8 DEF IndInv, BytesInv
    <2>2. CASE r.rawTruncated
      BY <2>2, <1>1, <1>2, PrefixStays DEF IndInv, BytesInv, CoreType
    <2> QED BY <2>1, <2>2
  <1> QED BY <1>4, <1>5, <1>9 DEF IndInv

(* An exit of the child moves no byte. *)
LEMMA ChildExitKeeps ==
    ASSUME CoreType, IndInv, ChildExit PROVE CoreType' /\ IndInv'
  BY DEF CoreType, IndInv, GateInv, CutInv, BytesInv, ChildExit, pumpVars, gateVars, cutVars

(* The steps of a pump that move no byte. *)
LEMMA QuietPumpKeeps ==
    ASSUME CoreType, IndInv, NEW s \in Sides,
           Arrive(s) \/ Unpark(s) \/ PollWake(s) \/ PollMaster(s) \/ EndOfStream(s) \/ Finish(s)
    PROVE  CoreType' /\ IndInv'
  <1> USE DEF childVars, cutVars, Ended, PumpPhases
  <1>1. UNCHANGED <<childVars, chunk, ring, cutVars>>
    BY DEF Arrive, Unpark, PollWake, PollMaster, EndOfStream, Finish
  <1>2. CoreType'
    BY <1>1 DEF CoreType, Arrive, Unpark, PollWake, PollMaster, EndOfStream, Finish, gateVars
  <1>3. GateInv'
    BY <1>1 DEF CoreType, IndInv, GateInv, Arrive, Unpark, PollWake, PollMaster, EndOfStream,
                Finish, gateVars
  <1>4. CutInv'
    BY <1>1, Sidedness DEF CoreType, IndInv, GateInv, CutInv, Arrive, Unpark, PollWake, PollMaster,
                EndOfStream, Finish, gateVars
  <1>5. BytesInv'
    BY <1>1 DEF CoreType, IndInv, BytesInv, Arrive, Unpark, PollWake, PollMaster, EndOfStream, Finish
  <1> QED BY <1>2, <1>3, <1>4, <1>5 DEF IndInv

(* Only the owner's pump is ever past the gate. *)
LEMMA OnlyOwnerReads ==
    ASSUME CoreType, IndInv, NEW s \in Sides, pump[s] \in {"poll", "read", "push"}
    PROVE  s = owner /\ cut \notin {"paused", "sent", "adopted"}
  BY Sidedness DEF CoreType, IndInv, GateInv, CutInv, Ended

(* A read moves bytes from the terminal to the owner's chunk. *)
LEMMA ReadKeeps ==
    ASSUME CoreType, IndInv, NEW s \in Sides, Read(s) PROVE CoreType' /\ IndInv'
  <1>0. s = owner /\ cut \notin {"paused", "sent", "adopted"}
    BY OnlyOwnerReads DEF Read
  <1>1. PICK n \in 0..Len(tty) :
            /\ chunk' = [chunk EXCEPT ![s] = SubSeq(tty, 1, n)]
            /\ tty' = SubSeq(tty, n + 1, Len(tty))
    <2> DEFINE n == IF Len(tty) <= ChunkCap THEN Len(tty) ELSE ChunkCap
    <2>1. Len(tty) \in Nat
      BY LenProperties DEF CoreType
    <2>2. n \in 0..Len(tty)
      BY <2>1, PumpAssumption
    <2>3. /\ chunk' = [chunk EXCEPT ![s] = SubSeq(tty, 1, n)]
          /\ tty' = SubSeq(tty, n + 1, Len(tty))
      BY DEF Read
    <2> QED BY <2>2, <2>3
  <1>2. /\ pump[s] = "read" /\ pump' = [pump EXCEPT ![s] = "push"]
        /\ UNCHANGED <<stream, exited, ring, closed, gateVars, cutVars>>
    BY DEF Read
  <1>3. /\ SubSeq(tty, 1, n) \in Seq(Bytes) /\ tty' \in Seq(Bytes)
        /\ SubSeq(tty, 1, n) \o tty' = tty
    BY <1>1, ReadSplits DEF CoreType
  <1>4. CoreType'
    BY <1>1, <1>2, <1>3 DEF CoreType, gateVars, cutVars, PumpPhases
  <1>5. GateInv'
    BY <1>1, <1>2 DEF CoreType, IndInv, GateInv, gateVars, Ended
  <1>6. CutInv'
    BY <1>0, <1>1, <1>2, Sidedness DEF CoreType, IndInv, CutInv, gateVars, cutVars
  <1>7. BytesInv'
    <2>1. chunk[owner] = <<>> /\ chunk'[owner] = SubSeq(tty, 1, n)
      BY <1>0, <1>1, <1>2 DEF CoreType, IndInv, GateInv
    <2> DEFINE r == ring[owner]
    <2>2. r.raw \in Seq(Bytes) /\ r.raw \o <<>> = r.raw
      BY ConcatEmptySeq DEF CoreType
    <2>3. /\ SubSeq(tty, 1, n) \in Seq(Bytes) /\ tty' \in Seq(Bytes)
          /\ (r.raw \o SubSeq(tty, 1, n)) \o tty' = r.raw \o (SubSeq(tty, 1, n) \o tty')
      <3> DEFINE q == r.raw
                 x == SubSeq(tty, 1, n)
      <3>1. q \in Seq(Bytes) /\ x \in Seq(Bytes) /\ tty' \in Seq(Bytes)
        BY <2>2, <1>3
      <3> HIDE DEF q, x
      <3>2. (q \o x) \o tty' = q \o (x \o tty')
        BY <3>1, ConcatAssociative
      <3> QED BY <1>3, <3>2 DEF q, x
    <2>4. r.raw \o chunk'[owner] \o tty' = r.raw \o chunk[owner] \o tty
      BY <2>1, <2>2, <2>3, <1>3
    <2>5. ring' = ring /\ owner' = owner /\ stream' = stream /\ pump[owner] # "panicked"
      BY <1>0, <1>2 DEF cutVars
    <2> QED BY <2>4, <2>5 DEF IndInv, BytesInv
  <1> QED BY <1>4, <1>5, <1>6, <1>7 DEF IndInv

(* Pushing moves the chunk into the journal: the whole of it, or what fits. *)
LEMMA PushKeeps ==
    ASSUME CoreType, IndInv, NEW s \in Sides, Push(s) PROVE CoreType' /\ IndInv'
  <1>0. s = owner /\ cut \notin {"paused", "sent", "adopted"}
    BY OnlyOwnerReads DEF Push
  <1>1. /\ pump[s] = "push" /\ chunk' = [chunk EXCEPT ![s] = <<>>]
        /\ UNCHANGED <<childVars, closed, gateVars, cutVars>>
    BY DEF Push
  <1>2. <<>> \in Seq(Bytes) /\ Len(<<>>) = 0
    BY EmptySeq
  <1>3. ~quiesced[owner] /\ ~finished[owner]
    BY <1>0, <1>1 DEF CoreType, IndInv, GateInv, Ended
  <1>4. /\ ring[s].raw \in Seq(Bytes) /\ Len(ring[s].raw) <= MaxJournal
        /\ ring[s].rawTruncated \in BOOLEAN /\ chunk[s] \in Seq(Bytes) /\ tty \in Seq(Bytes)
    BY DEF CoreType
  <1>5. CASE pump' = [pump EXCEPT ![s] = "panicked"] /\ ring' = [ring EXCEPT ![s] = EmptyRing]
    <2>1. /\ EmptyRing.raw \in Seq(Bytes) /\ Len(EmptyRing.raw) <= MaxJournal
          /\ EmptyRing.rawTruncated \in BOOLEAN
      BY <1>2, RingAssumption DEF EmptyRing
    <2> HIDE DEF EmptyRing
    <2>2. CoreType'
      BY <1>1, <1>2, <1>5, <2>1 DEF CoreType, PumpPhases, childVars, gateVars, cutVars
    <2>3. GateInv'
      BY <1>0, <1>1, <1>3, <1>5 DEF CoreType, IndInv, GateInv, Ended, gateVars
    <2>4. CutInv'
      BY <1>0, <1>1, <1>5, Sidedness DEF CoreType, IndInv, CutInv, gateVars, cutVars
    <2>5. BytesInv'
      BY <1>0, <1>1, <1>5 DEF CoreType, BytesInv, cutVars
    <2> QED BY <2>2, <2>3, <2>4, <2>5 DEF IndInv
  <1>6. CASE /\ pump' = [pump EXCEPT ![s] = "gate"]
             /\ \E pieces : ring' = [ring EXCEPT ![s] = PushPieces(ring[s], chunk[s], pieces)]
    <2>1. PICK pieces : ring' = [ring EXCEPT ![s] = PushPieces(ring[s], chunk[s], pieces)]
      BY <1>6
    <2> DEFINE new == PushPieces(ring[s], chunk[s], pieces)
    <2>2. /\ new.raw = Journal(ring[s], chunk[s])
          /\ new.rawTruncated = JournalTruncated(ring[s], chunk[s])
      BY DEF PushPieces
    <2>3. /\ new.raw \in Seq(Bytes) /\ Len(new.raw) <= MaxJournal /\ new.rawTruncated \in BOOLEAN
      BY <1>4, <2>2, JournalType
    <2>4. ring' = [ring EXCEPT ![s] = new]
      BY <2>1
    <2> HIDE DEF new
    <2>5. CoreType'
      BY <1>1, <1>2, <1>6, <2>3, <2>4 DEF CoreType, PumpPhases, childVars, gateVars, cutVars
    <2>6. GateInv'
      BY <1>0, <1>1, <1>3, <1>6 DEF CoreType, IndInv, GateInv, Ended, gateVars
    <2>7. CutInv'
      BY <1>0, <1>1, <1>6, <2>4, Sidedness DEF CoreType, IndInv, CutInv, gateVars, cutVars
    <2>8. BytesInv'
      <3>1. /\ ring'[owner'] = new /\ chunk'[owner'] = <<>> /\ tty' = tty /\ stream' = stream
            /\ pump[owner] # "panicked"
        BY <1>0, <1>1, <2>4 DEF CoreType, childVars, cutVars
      <3>2. CASE ring[s].rawTruncated
        <4>1. new.raw = ring[s].raw /\ new.rawTruncated
          BY <2>2, <3>2 DEF Journal, JournalTruncated
        <4> QED BY <1>0, <3>1, <3>2, <4>1 DEF IndInv, BytesInv
      <3>3. CASE ~ring[s].rawTruncated
        <4>1. stream = ring[s].raw \o chunk[s] \o tty
          BY <1>0, <3>1, <3>3 DEF IndInv, BytesInv
        <4>2. /\ new.rawTruncated \/ new.raw \o <<>> \o tty = stream
              /\ new.rawTruncated => /\ MaxJournal <= Len(stream)
                                     /\ new.raw = SubSeq(stream, 1, MaxJournal)
          <5> DEFINE r == ring[s]
                     b == chunk[s]
          <5>1. /\ r.raw \in Seq(Bytes) /\ Len(r.raw) <= MaxJournal /\ ~r.rawTruncated
                /\ b \in Seq(Bytes) /\ tty \in Seq(Bytes)
            BY <1>4, <3>3
          <5> HIDE DEF r, b
          <5>2. /\ JournalTruncated(r, b) \/ Journal(r, b) \o <<>> \o tty = r.raw \o b \o tty
                /\ JournalTruncated(r, b) =>
                    /\ MaxJournal <= Len(r.raw \o b \o tty)
                    /\ Journal(r, b) = SubSeq(r.raw \o b \o tty, 1, MaxJournal)
            BY <5>1, JournalGrows
          <5>3. new.raw = Journal(r, b) /\ new.rawTruncated = JournalTruncated(r, b)
            BY <2>2 DEF r, b
          <5>4. stream = r.raw \o b \o tty
            BY <4>1 DEF r, b
          <5> QED BY <5>2, <5>3, <5>4
        <4> QED BY <3>1, <4>2 DEF BytesInv
      <3> QED BY <3>2, <3>3
    <2> QED BY <2>5, <2>6, <2>7, <2>8 DEF IndInv
  <1> QED BY <1>5, <1>6 DEF Push

(* The steps of a pause. *)
LEMMA PauseKeeps ==
    ASSUME CoreType, IndInv, PauseAsk \/ PauseWake \/ PauseDone PROVE CoreType' /\ IndInv'
  <1> USE DEF PauseAsk, PauseWake, PauseDone, childVars, pumpVars, gateVars
  <1>1. CoreType'
    BY DEF CoreType
  <1>2. GateInv'
    BY DEF CoreType, IndInv, GateInv
  <1>3. CutInv'
    BY DEF CoreType, IndInv, CutInv
  <1>4. BytesInv'
    BY DEF IndInv, BytesInv
  <1> QED BY <1>1, <1>2, <1>3, <1>4 DEF IndInv

(* The snapshot is the owner's ring, which is parked. *)
LEMMA SendKeeps ==
    ASSUME CoreType, IndInv, Send PROVE CoreType' /\ IndInv'
  BY DEF CoreType, IndInv, GateInv, CutInv, BytesInv, Send, childVars, pumpVars, gateVars

(* The adopted side starts with the sender's journal and its gate closed. *)
LEMMA AdoptKeeps ==
    ASSUME CoreType, IndInv, Adopt PROVE CoreType' /\ IndInv'
  <1> DEFINE new == Other(owner)
             old == ring[owner]
             seed == Seed(snapshot)
  <1>1. new \in Sides /\ owner \in Sides /\ new # owner
    BY Sidedness DEF CoreType
  <1>2. snapshot = old /\ cut = "sent" /\ quiesced[owner]
    BY DEF Adopt, IndInv, CutInv
  <1>3. old.raw \in Seq(Bytes) /\ Len(old.raw) <= MaxJournal /\ old.rawTruncated \in BOOLEAN
    BY <1>1 DEF CoreType
  <1>4. seed.raw = old.raw /\ seed.rawTruncated = old.rawTruncated
    BY <1>2, <1>3 DEF Seed
  <1>5. /\ requested' = [requested EXCEPT ![new] = TRUE]
        /\ quiesced' = [quiesced EXCEPT ![new] = FALSE]
        /\ finished' = [finished EXCEPT ![new] = FALSE]
        /\ ring' = [ring EXCEPT ![new] = seed]
        /\ chunk' = [chunk EXCEPT ![new] = <<>>]
        /\ pump' = [pump EXCEPT ![new] = "gate"]
        /\ cut' = "adopted"
        /\ UNCHANGED <<stream, tty, owner, snapshot>>
    BY DEF Adopt, childVars
  <1> HIDE DEF new, old, seed
  <1>6. <<>> \in Seq(Bytes)
    BY EmptySeq
  <1>7. CoreType'
    BY <1>1, <1>3, <1>4, <1>5, <1>6 DEF CoreType, PumpPhases
  <1>8. GateInv'
    BY <1>1, <1>5 DEF CoreType, IndInv, GateInv, Ended
  <1>9. /\ ring'[owner] = old /\ ring'[new] = seed /\ pump'[owner] = pump[owner]
        /\ chunk'[owner] = chunk[owner]
    BY <1>1, <1>5 DEF CoreType, old
  <1>10. CutInv'
    BY <1>1, <1>2, <1>4, <1>5, <1>9 DEF CoreType, IndInv, CutInv, new
  <1>11. BytesInv'
    BY <1>1, <1>5, <1>9 DEF IndInv, BytesInv, old
  <1> QED BY <1>7, <1>8, <1>10, <1>11 DEF IndInv

(* At the commit the new owner holds what the old one held. *)
LEMMA CommitKeeps ==
    ASSUME CoreType, IndInv, Commit PROVE CoreType' /\ IndInv'
  <1> DEFINE new == Other(owner)
  <1>1. new \in Sides /\ owner \in Sides /\ new # owner /\ Other(new) = owner
    BY Sidedness DEF CoreType
  <1>2. /\ cut = "adopted" /\ owner' = new /\ cut' = "committed"
        /\ pump' = [pump EXCEPT ![owner] = "none"]
        /\ ring' = [ring EXCEPT ![owner] = EmptyRing]
        /\ UNCHANGED <<stream, tty, chunk, requested, quiesced, finished>>
    BY DEF Commit, ProcessExit, childVars, gateVars
  <1>3. /\ quiesced[owner] /\ pump[new] \in {"gate", "parked"}
        /\ ring[new].raw = ring[owner].raw
        /\ ring[new].rawTruncated = ring[owner].rawTruncated
    BY <1>2 DEF IndInv, CutInv
  <1>4. chunk[owner] = <<>> /\ chunk[new] = <<>> /\ pump[owner] # "panicked"
    BY <1>1, <1>3 DEF IndInv, GateInv, Ended, CoreType
  <1>5. /\ EmptyRing.raw \in Seq(Bytes) /\ Len(EmptyRing.raw) <= MaxJournal
        /\ EmptyRing.rawTruncated \in BOOLEAN
    BY EmptySeq, RingAssumption DEF EmptyRing
  <1> HIDE DEF new, EmptyRing
  <1>6. CoreType'
    BY <1>1, <1>2, <1>5 DEF CoreType, PumpPhases
  <1>7. GateInv'
    BY <1>1, <1>2, <1>4 DEF CoreType, IndInv, GateInv, Ended
  <1>8. CutInv'
    BY <1>1, <1>2, <1>3 DEF CoreType, CutInv
  <1>9. ring'[owner'] = ring[new] /\ chunk'[owner'] = chunk[owner]
    BY <1>1, <1>2, <1>4 DEF CoreType
  <1>10. BytesInv'
    BY <1>2, <1>3, <1>4, <1>9 DEF IndInv, BytesInv
  <1> QED BY <1>6, <1>7, <1>8, <1>10 DEF IndInv

(* The new owner opens its gate; the old side is gone. *)
LEMMA ResumeNewKeeps ==
    ASSUME CoreType, IndInv, ResumeNew PROVE CoreType' /\ IndInv'
  <1> USE DEF ResumeNew, Resume, childVars, pumpVars
  <1>1. CoreType'
    BY DEF CoreType
  <1>2. GateInv'
    BY DEF CoreType, IndInv, GateInv
  <1>3. CutInv'
    BY DEF CoreType, IndInv, CutInv
  <1>4. BytesInv'
    BY DEF IndInv, BytesInv
  <1> QED BY <1>1, <1>2, <1>3, <1>4 DEF IndInv

(* An abort gives the pane back to the pump it was taken from. *)
LEMMA AbortKeeps ==
    ASSUME CoreType, IndInv, Abort PROVE CoreType' /\ IndInv'
  <1> DEFINE new == Other(owner)
  <1>1. new \in Sides /\ owner \in Sides /\ new # owner /\ \A r \in Sides : r = owner \/ r = new
    BY Sidedness DEF CoreType
  <1>2. /\ cut' = "idle" /\ owner' = owner
        /\ requested' = [requested EXCEPT ![owner] = FALSE]
        /\ quiesced' = [quiesced EXCEPT ![owner] = finished[owner]]
        /\ pump' = [pump EXCEPT ![new] = "none"]
        /\ ring' = [ring EXCEPT ![new] = EmptyRing]
        /\ UNCHANGED <<stream, tty, chunk, finished>>
    BY DEF Abort, Resume, ProcessExit, childVars
  <1>3. chunk[new] = <<>>
    BY <1>1 DEF IndInv, GateInv, CutInv, CoreType
  <1>4. /\ EmptyRing.raw \in Seq(Bytes) /\ Len(EmptyRing.raw) <= MaxJournal
        /\ EmptyRing.rawTruncated \in BOOLEAN
    BY EmptySeq, RingAssumption DEF EmptyRing
  <1> HIDE DEF new, EmptyRing
  <1>5. CoreType'
    BY <1>1, <1>2, <1>4 DEF CoreType, PumpPhases
  <1>6. GateInv'
    BY <1>1, <1>2, <1>3 DEF CoreType, IndInv, GateInv, Ended
  <1>7. CutInv'
    BY <1>1, <1>2 DEF CoreType, IndInv, CutInv, new
  <1>8. BytesInv'
    BY <1>1, <1>2 DEF CoreType, IndInv, BytesInv
  <1> QED BY <1>5, <1>6, <1>7, <1>8 DEF IndInv

(* CoreType and IndInv are inductive: one case per disjunct of Next. *)
LEMMA StepInd == CoreType /\ IndInv /\ [Next]_vars => CoreType' /\ IndInv'
  <1> SUFFICES ASSUME CoreType, IndInv, [Next]_vars PROVE CoreType' /\ IndInv'
    OBVIOUS
  <1>1. CASE Write
    BY <1>1, WriteKeeps
  <1>2. CASE ChildExit
    BY <1>2, ChildExitKeeps
  <1>3. ASSUME NEW s \in Sides, PumpStep(s) PROVE CoreType' /\ IndInv'
    BY <1>3, QuietPumpKeeps, ReadKeeps, PushKeeps DEF PumpStep
  <1>4. CASE HandoffStep
    BY <1>4, PauseKeeps, SendKeeps, AdoptKeeps, CommitKeeps, ResumeNewKeeps, AbortKeeps
       DEF HandoffStep
  <1>5. CASE UNCHANGED vars
    BY <1>5 DEF CoreType, IndInv, GateInv, CutInv, BytesInv, vars, childVars, pumpVars, gateVars,
                cutVars
  <1> QED BY <1>1, <1>2, <1>3, <1>4, <1>5 DEF Next

(* The gate, the cut and the bytes keep their invariant for every alphabet,
   every bound of the ring and the terminal, and any number of handoffs. *)
THEOREM PumpInvariance == Spec => [](CoreType /\ IndInv)
  BY InitInd, StepInd, PTL DEF Spec

(* A snapshot is complete from the moment it is taken until the handoff ends. *)
THEOREM SnapshotTheorem == Spec => []SnapshotExact
  <1>1. CoreType /\ IndInv => SnapshotExact
    <2> SUFFICES ASSUME CoreType, IndInv, cut \in {"sent", "adopted"}
                 PROVE  snapshot = ring[owner] /\ \A s \in Sides : chunk[s] = <<>>
      BY DEF SnapshotExact
    <2>1. ASSUME NEW s \in Sides PROVE chunk[s] = <<>>
      BY OnlyOwnerReads DEF IndInv, GateInv
    <2> QED BY <2>1 DEF IndInv, CutInv
  <1> QED BY <1>1, PumpInvariance, PTL

(* No byte is lost, doubled or reordered. *)
THEOREM NoByteLostTheorem == Spec => []NoByteLost
  <1>1. CoreType /\ IndInv => NoByteLost
    <2> SUFFICES ASSUME CoreType, IndInv PROVE NoByteLost
      OBVIOUS
    <2>1. Other(owner) \in Sides /\ Other(owner) # owner
      BY Sidedness DEF CoreType
    <2>2. chunk[Other(owner)] = <<>>
      BY <2>1, OnlyOwnerReads DEF IndInv, GateInv
    <2> QED BY <2>2 DEF IndInv, BytesInv, NoByteLost
  <1> QED BY <1>1, PumpInvariance, PTL
-----------------------------------------------------------------------------
(***************************************************************************)
(* Who watches the pane: the sweeper's alerts, for every sequence of       *)
(* readings, handoffs and ticks.  A level that rang in this episode is not *)
(* above the one the alert state remembers, and a level fires only above   *)
(* it.                                                                     *)
(***************************************************************************)
AlertInv ==
    /\ fired \in Nat
    /\ \A l \in rang : l \in Nat /\ l <= fired
    /\ load = 0 => rang = {}
    /\ ~twice

(* AlertState::check and the re-arm line. *)
LEMMA SweepAlerts ==
    ASSUME AlertInv, NEW kill \in BOOLEAN, Sweep(kill)
    PROVE  AlertInv'
  <1>0. load' = load
    BY DEF Sweep
  <1>1. CASE Rearmed
    BY <1>0, <1>1 DEF AlertInv, Sweep, Rearmed
  <1>2. CASE ~Rearmed /\ Fires = {}
    BY <1>0, <1>2 DEF AlertInv, Sweep
  <1>3. CASE ~Rearmed /\ Fires # {}
    <2>1. PICK level : /\ level \in Fires /\ fired' = level
                       /\ twice' = (twice \/ level \in rang) /\ rang' = rang \union {level}
      BY <1>3 DEF Sweep
    <2>2. level \in 1..3 /\ level > fired
      BY <2>1 DEF Fires, Levels
    <2>3. level \notin rang
      BY <2>2 DEF AlertInv
    <2>4. \A l \in rang' : l \in Nat /\ l <= level
      BY <2>1, <2>2 DEF AlertInv
    <2> QED BY <1>0, <1>3, <2>1, <2>2, <2>3, <2>4 DEF AlertInv, Rearmed
  <1> QED BY <1>1, <1>2, <1>3

(* A handoff keeps the first level of the episode. *)
LEMMA OthersAlert ==
    ASSUME AlertInv, [WatchNext]_(watchVars), \A kill \in BOOLEAN : ~Sweep(kill)
    PROVE  AlertInv'
  <1>1. CASE Cut
    <2>1. /\ fired' = (IF fired < 1 THEN fired ELSE 1) /\ rang' = rang \intersect {1}
          /\ load' = load /\ twice' = twice
      BY <1>1 DEF Cut, AtMost
    <2> QED BY <2>1 DEF AlertInv
  <1>2. ASSUME NEW n \in Loads, Load(n) PROVE AlertInv'
    BY <1>2 DEF AlertInv, Load
  <1>3. ASSUME UNCHANGED <<load, fired, rang, twice>> PROVE AlertInv'
    BY <1>3 DEF AlertInv
  <1>4. CASE Pass \/ TickStep \/ ClientStep \/ PumpRead("client") \/ UNCHANGED watchVars
    BY <1>3, <1>4 DEF Pass, TickStep, ClientStep, PumpRead, PumpTake, PumpFeed,
       TickAfter, TickDecide, sweeper, watchVars
  <1>5. ASSUME NEW kind \in Kinds, PaneOutput(kind) PROVE AlertInv'
    BY <1>3, <1>5 DEF PaneOutput, sweeper
  <1> QED BY <1>1, <1>2, <1>4, <1>5 DEF WatchNext

(* "each at most once per episode": no level is alerted again before the reading has
   been below the re-arm line, or the levels above warn before a handoff
   (AlertState::check, PaneEntry::adopted). *)
THEOREM AlertTheorem == WatchSpec => []AlertOnce
  <1>1. WatchInit => AlertInv
    BY DEF WatchInit, AlertInv
  <1>2. AlertInv /\ [WatchNext]_(watchVars) => AlertInv'
    BY SweepAlerts, OthersAlert
  <1>3. AlertInv => AlertOnce
    BY DEF AlertInv, AlertOnce
  <1> QED BY <1>1, <1>2, <1>3, PTL DEF WatchSpec
=============================================================================
