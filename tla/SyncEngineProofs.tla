--------------------------- MODULE SyncEngineProofs ----------------------------
(***************************************************************************)
(* What the sync promises, for every number of machines, documents,        *)
(* revisions, payloads and deaths.                                         *)
(*                                                                         *)
(* Counters are honest however the workers overlap: a counter travels only *)
(* from the machine that issues it, and the payload that a worker holds    *)
(* was stamped before the worker read its own vector.  The two promises    *)
(* about documents are for workers that take turns: then what a worker     *)
(* has read is what is there when it writes.                               *)
(***************************************************************************)
EXTENDS SyncEngine, TLAPS

Vector   == [Machine -> Nat]
Packet   == [machine : Machine, vector : Vector, doc : Doc, knows : SUBSET Doc]
Revision == [by : Machine, counter : Nat, reason : {"own", "sync", "conflict"}, doc : Doc]
Copy     == [from : Machine, doc : Doc]
File     == Doc \cup {Absent}

(* What a worker holds, by what it is doing. *)
Local     == [pc : {"compare", "count", "record", "replace"}, op : {"push", "payload", "revert"}, doc : Doc]
Merging   == [pc : {"aside", "replace", "count", "record"}, op : {"merge"}, doc : Doc, used : SUBSET Copy]
Consuming == [pc : {"consume"}, op : {"merge"}, used : SUBSET Copy]
Reading   == [pc : {"read"}, op : {"payload"}]
Stamping  == [pc : {"stamp"}, op : {"payload"}, doc : Doc, knows : SUBSET Doc]
Judging   == [pc : {"judge"}, op : {"receive"}, pay : Packet, doc : Doc, current : File]
Taking    == [pc : {"write", "copy", "log", "logcopy"}, op : {"receive"}, pay : Packet, doc : Doc, base : Vector]
Absorbing == [pc : {"absorb"}, op : {"receive"}, pay : Packet, base : Vector]

Job == {Idle} \cup Local \cup Merging \cup Consuming \cup Reading \cup Stamping \cup Judging
         \cup Taking \cup Absorbing

Types ==
    /\ live \in [Machine -> File] /\ sibling \in [Machine -> File]
    /\ copies \in [Machine -> SUBSET Copy]
    /\ vector \in [Machine -> Vector]
    /\ history \in [Machine -> Seq(Revision)]
    /\ job \in [Machine -> [Worker -> Job]]
    /\ wire \subseteq Packet
    /\ seen \in [Machine -> SUBSET Doc]

(* The program counters of a worker that has a payload, and of one that has read the
   vector too. *)
Based    == {"write", "copy", "log", "logcopy", "absorb"}
Carrying == Based \cup {"judge"}

(* Every counter of v has been issued. *)
Issued(v) == \A n \in Machine : v[n] <= vector[n][n]

(* A worker carries a payload that was produced; a payload of its own machine claims
   no more than the vector it has read. *)
JobHonest(m, j) ==
    /\ j.pc \in Carrying => j.pay \in wire
    /\ j.pc \in Based => Issued(j.base) /\ (j.pay.machine = m => j.pay.vector[m] <= j.base[m])

Honest ==
    /\ \A m \in Machine : Issued(vector[m])
    /\ \A pay \in wire : Issued(pay.vector)
    /\ \A m \in Machine, w \in Worker : JobHonest(m, job[m][w])

(* Every worker but this one is idle. *)
Turn(m, w) == \A n \in Machine, x \in Worker : n # m \/ x # w => At(n, x, "idle")

Exclusive == \A m \in Machine, w \in Worker : ~At(m, w, "idle") => Turn(m, w)

LiveSeen == \A m \in Machine : live[m] # Absent => Denormalize(live[m]) \in seen[m]

(* A revision that a machine made itself is known to every machine and in every
   payload that counts it. *)
RevisionSeen(m, r) ==
    r.reason = "own" =>
      /\ r.counter <= vector[m][m]
      /\ \A n \in Machine : r.counter <= vector[n][m] => Denormalize(r.doc) \in seen[n]
      /\ \A pay \in wire : r.counter <= pay.vector[m] => Denormalize(r.doc) \in pay.knows

OwnSeen == \A m \in Machine : \A i \in 1..Len(history[m]) : RevisionSeen(m, history[m][i])

(* Between the count and the record nobody else has the new counter; what a worker
   has read is still there. *)
JobSeen(m, j) ==
    /\ j.pc \in {"compare", "count", "record"} => Denormalize(j.doc) \in seen[m]
    /\ j.pc = "record" => /\ \A pay \in wire : pay.vector[m] < vector[m][m]
                          /\ \A n \in Machine \ {m} : vector[n][m] < vector[m][m]
    /\ j.pc = "stamp" => j.knows = seen[m]
    /\ j.pc = "judge" => j.current = live[m]
    /\ j.pc = "write" => /\ live[m] \in {Absent, Newest(m)}
                         /\ \A n \in Machine : vector[m][n] <= j.pay.vector[n]
    /\ j.pc \in Based => j.base = vector[m]

(* Everything that d says is in x. *)
Covers(x, d) == ~Clash({d, x}) /\ DOMAIN d \subseteq DOMAIN x

(* A merge has folded all that is on disk; what it consumes is in the file. *)
JobDisk(m, j) ==
    /\ j.pc \in {"aside", "replace"} /\ j.op # "revert" =>
         j.used = copies[m] /\ \A d \in OnDisk(m) : Covers(j.doc, d)
    /\ j.pc \in {"count", "record", "consume"} /\ j.op = "merge" =>
         live[m] # Absent /\ \A c \in j.used : Covers(live[m], c.doc)

InTurns ==
    /\ Exclusive /\ LiveSeen /\ OwnSeen
    /\ \A m \in Machine, w \in Worker : JobSeen(m, job[m][w]) /\ JobDisk(m, job[m][w])

IndInv == Types /\ Honest /\ (overlap \/ InTurns)

-----------------------------------------------------------------------------
(* Documents and jobs. *)

LEMMA Spelling ==
    ASSUME NEW doc \in Doc
    PROVE  Normalize(doc) \in Doc /\ Denormalize(doc) \in Doc
  <1>1. PICK K \in SUBSET Keys : doc \in [K -> Texts]
    BY DEF Doc
  <1>2. Normalize(doc) \in [K -> Texts] /\ Denormalize(doc) \in [K -> Texts]
    BY <1>1, SyncAssumption DEF Normalize, Denormalize
  <1> QED BY <1>2 DEF Doc

LEMMA JobAt ==
    ASSUME NEW j \in Job
    PROVE  /\ j.pc \in {"compare", "count", "record", "replace"} => j \in Local \cup Merging
           /\ j.pc = "compare" => j \in Local
           /\ j.pc = "aside" => j \in Merging
           /\ j.pc = "consume" => j \in Consuming
           /\ j.pc = "read" => j \in Reading
           /\ j.pc = "stamp" => j \in Stamping
           /\ j.pc = "judge" => j \in Judging
           /\ j.pc \in {"write", "copy", "log", "logcopy"} => j \in Taking
           /\ j.pc = "absorb" => j \in Absorbing
  BY DEF Job, Idle, Local, Merging, Consuming, Reading, Stamping, Judging, Taking, Absorbing

LEMMA IdleJob == Idle \in Job /\ Idle.pc = "idle"
  BY DEF Job, Idle

LEMMA SetJob ==
    ASSUME job \in [Machine -> [Worker -> Job]],
           NEW m \in Machine, NEW w \in Worker, NEW j \in Job, Set(m, w, j)
    PROVE  /\ job' \in [Machine -> [Worker -> Job]]
           /\ job'[m][w] = j
           /\ \A n \in Machine, x \in Worker : n # m \/ x # w => job'[n][x] = job[n][x]
  BY DEF Set

(* The steps a job takes keep its shape. *)
LEMMA JobMoves ==
    ASSUME NEW j \in Job
    PROVE  /\ j.pc = "compare" => [j EXCEPT !.pc = "count"] \in Local
           /\ j.pc = "count" => /\ [j EXCEPT !.pc = "record"] \in Local \cup Merging
                                /\ [j EXCEPT !.pc = "record"].doc = j.doc
           /\ j.pc = "aside" => [j EXCEPT !.pc = "replace"] \in Merging
           /\ j.pc = "replace" => [j EXCEPT !.pc = "count"] \in Local \cup Merging
           /\ j.pc = "write" => [j EXCEPT !.pc = "log"] \in Taking
           /\ j.pc = "copy" => [j EXCEPT !.pc = "logcopy"] \in Taking
           /\ j.pc \in {"compare", "record"} => AfterPush(j) \in Job
           /\ j.pc = "record" => AfterRecord(j) \in Job
  <1>1. j.pc = "compare" => [j EXCEPT !.pc = "count"] \in Local
    BY JobAt DEF Local
  <1>2. j.pc = "count" => /\ [j EXCEPT !.pc = "record"] \in Local \cup Merging
                          /\ [j EXCEPT !.pc = "record"].doc = j.doc
    BY JobAt DEF Local, Merging
  <1>3. j.pc = "aside" => [j EXCEPT !.pc = "replace"] \in Merging
    BY JobAt DEF Merging
  <1>4. j.pc = "replace" => [j EXCEPT !.pc = "count"] \in Local \cup Merging
    BY JobAt DEF Local, Merging
  <1>5. j.pc = "write" => [j EXCEPT !.pc = "log"] \in Taking
    BY JobAt DEF Taking
  <1>6. j.pc = "copy" => [j EXCEPT !.pc = "logcopy"] \in Taking
    BY JobAt DEF Taking
  <1>7. AfterPush(j) \in Job
    BY DEF AfterPush, Job, Reading
  <1>8. j.pc = "record" => AfterRecord(j) \in Job
    <2>1. CASE j.pc = "record" /\ j.op = "merge"
      <3>1. j.used \in SUBSET Copy
        BY <2>1, JobAt DEF Local, Merging
      <3> QED BY <2>1, <3>1 DEF AfterRecord, Job, Consuming
    <2>2. CASE j.op # "merge"
      BY <1>7, <2>2 DEF AfterRecord
    <2> QED BY <2>1, <2>2
  <1> QED BY <1>1, <1>2, <1>3, <1>4, <1>5, <1>6, <1>7, <1>8

-----------------------------------------------------------------------------
(* Steps that only move a worker on. *)

LEMMA IdleInv ==
    ASSUME NEW m
    PROVE  JobHonest(m, Idle) /\ JobSeen(m, Idle) /\ JobDisk(m, Idle)
  BY IdleJob DEF JobHonest, JobSeen, JobDisk, Based, Carrying

(* With turns, a worker that starts or goes on is alone. *)
LEMMA OwnTurn ==
    ASSUME IndInv, ~overlap, NEW m \in Machine, NEW w \in Worker,
           ~At(m, w, "idle") \/ MayStart(m, w) \/ Quiet
    PROVE  InTurns /\ Turn(m, w) /\ JobSeen(m, job[m][w]) /\ JobDisk(m, job[m][w])
  BY DEF IndInv, InTurns, Exclusive, Turn, MayStart, Quiet

(* When it was alone, it is alone after the step. *)
LEMMA TurnStays ==
    ASSUME Types, NEW m \in Machine, NEW w \in Worker, NEW j \in Job, Set(m, w, j), Turn(m, w)
    PROVE  Exclusive' /\ \A n \in Machine, x \in Worker :
                            n # m \/ x # w => job'[n][x].pc = "idle"
  BY SetJob DEF Types, Turn, Exclusive, At

(* What is to be shown of the jobs is to be shown of the one that moved. *)
LEMMA JobsFollow ==
    ASSUME Types, NEW m \in Machine, NEW w \in Worker, NEW j \in Job, Set(m, w, j), Turn(m, w),
           JobSeen(m, j)', JobDisk(m, j)'
    PROVE  /\ Exclusive'
           /\ \A n \in Machine, x \in Worker : JobSeen(n, job[n][x])' /\ JobDisk(n, job[n][x])'
  <1>1. /\ job'[m][w] = j /\ Exclusive'
        /\ \A n \in Machine, x \in Worker : n # m \/ x # w => job'[n][x].pc = "idle"
    BY SetJob, TurnStays DEF Types
  <1>2. ASSUME NEW n \in Machine, NEW x \in Worker, n # m \/ x # w
        PROVE  JobSeen(n, job[n][x])' /\ JobDisk(n, job[n][x])'
    BY <1>1, <1>2 DEF JobSeen, JobDisk, Based
  <1>3. JobSeen(m, job[m][w])' /\ JobDisk(m, job[m][w])'
    BY <1>1 DEF JobSeen, JobDisk
  <1> QED BY <1>1, <1>2, <1>3

LEMMA MoveOn ==
    ASSUME IndInv, NEW m \in Machine, NEW w \in Worker, NEW j \in Job, Set(m, w, j),
           ~At(m, w, "idle") \/ MayStart(m, w),
           UNCHANGED <<fileVars, storeVars, wire, seen, overlap>>,
           JobHonest(m, j), overlap \/ (JobSeen(m, j) /\ JobDisk(m, j))
    PROVE  IndInv'
  <1>1. /\ job' \in [Machine -> [Worker -> Job]] /\ job'[m][w] = j
        /\ \A n \in Machine, x \in Worker : n # m \/ x # w => job'[n][x] = job[n][x]
    BY SetJob DEF IndInv, Types
  <1>2. Types'
    BY <1>1 DEF IndInv, Types, fileVars, storeVars
  <1>3. Honest'
    <2>1. \A n \in Machine, x \in Worker : JobHonest(n, job'[n][x])
      BY <1>1 DEF IndInv, Honest
    <2> QED BY <2>1 DEF IndInv, Honest, JobHonest, Issued, storeVars
  <1>4. ASSUME ~overlap PROVE InTurns'
    <2>1. Turn(m, w) /\ InTurns
      BY <1>4, OwnTurn
    <2>2. JobSeen(m, j)' /\ JobDisk(m, j)'
      BY <1>4 DEF JobSeen, JobDisk, Newest, OnDisk, fileVars, storeVars
    <2>3. LiveSeen' /\ OwnSeen'
      BY <2>1 DEF InTurns, LiveSeen, OwnSeen, RevisionSeen, fileVars, storeVars
    <2> QED BY <2>1, <2>2, <2>3, JobsFollow DEF IndInv, InTurns
  <1> QED BY <1>2, <1>3, <1>4 DEF IndInv

(* merge_json: the merged document is one, and says all that its parts say. *)
LEMMA MergeCovers ==
    ASSUME NEW docs \in SUBSET Doc, ~Clash(docs)
    PROVE  MergeJson(docs) \in Doc /\ \A d \in docs : Covers(MergeJson(docs), d)
  <1> DEFINE K == UNION {DOMAIN d : d \in docs}
             src(k) == CHOOSE d \in docs : k \in DOMAIN d
             x == MergeJson(docs)
  <1>1. \A d \in Doc : DOMAIN d \subseteq Keys /\ \A k \in DOMAIN d : d[k] \in Texts
    BY DEF Doc
  <1>2. \A k \in K : src(k) \in docs /\ k \in DOMAIN src(k)
    OBVIOUS
  <1>3. x = [k \in K |-> src(k)[k]]
    BY DEF MergeJson
  <1>4. K \subseteq Keys /\ \A k \in K : src(k)[k] \in Texts
    BY <1>1, <1>2
  <1> HIDE DEF K, src, x
  <1>5. x \in [K -> Texts]
    BY <1>3, <1>4
  <1>6. x \in Doc
    BY <1>4, <1>5 DEF Doc
  <1>7. ASSUME NEW d \in docs PROVE Covers(x, d)
    <2>1. DOMAIN d \subseteq K
      BY DEF K
    <2>2. \A k \in DOMAIN d : x[k] = d[k]
      BY <1>2, <1>3, <2>1 DEF Clash
    <2>3. DOMAIN x = K
      BY <1>5
    <2> QED BY <2>1, <2>2, <2>3 DEF Covers, Clash
  <1> QED BY <1>6, <1>7 DEF x

LEMMA PushMoves ==
    ASSUME IndInv, NEW m \in Machine, PushRead(m) \/ PushUnchanged(m) \/ PushChanged(m)
    PROVE  IndInv'
  <1> DEFINE j == job[m]["cli"]
  <1>0. "cli" \in Worker /\ j \in Job
    BY DEF Worker, IndInv, Types
  <1>1. CASE PushRead(m)
    <2>1. PICK op \in {"push", "payload"} : Set(m, "cli", [pc |-> "compare", op |-> op, doc |-> live[m]])
      BY <1>1 DEF PushRead
    <2> DEFINE new == [pc |-> "compare", op |-> op, doc |-> live[m]]
    <2>2. live[m] \in Doc /\ live[m] # Absent
      BY <1>1 DEF PushRead, IndInv, Types, File
    <2>3. new \in Job
      BY <2>2 DEF Job, Local
    <2>4. JobHonest(m, new) /\ JobDisk(m, new)
      BY DEF JobHonest, JobDisk, Based, Carrying
    <2>5. overlap \/ JobSeen(m, new)
      BY <2>2 DEF JobSeen, Based, IndInv, InTurns, LiveSeen
    <2> QED BY <1>0, <1>1, <2>1, <2>3, <2>4, <2>5, MoveOn DEF PushRead, envVars
  <1>2. CASE PushUnchanged(m)
    <2>1. AfterPush(j) \in Job
      BY <1>0, <1>2, JobMoves DEF PushUnchanged, At
    <2>2. JobHonest(m, AfterPush(j)) /\ JobSeen(m, AfterPush(j)) /\ JobDisk(m, AfterPush(j))
      <3>1. AfterPush(j).pc \in {"read", "idle"}
        BY IdleJob DEF AfterPush
      <3> QED BY <3>1 DEF JobHonest, JobSeen, JobDisk, Based, Carrying
    <2> QED BY <1>0, <1>2, <2>1, <2>2, MoveOn DEF PushUnchanged, envVars, At
  <1>3. CASE PushChanged(m)
    <2> DEFINE new == [j EXCEPT !.pc = "count"]
    <2>1. j.pc = "compare" /\ j \in Local
      BY <1>0, <1>3, JobAt DEF PushChanged, At
    <2>2. new \in Local /\ new.pc = "count" /\ new.doc = j.doc /\ new.op # "merge"
      BY <2>1 DEF Local
    <2>3. new \in Job
      BY <2>2 DEF Job
    <2> HIDE DEF new
    <2>4. JobHonest(m, new) /\ JobDisk(m, new)
      BY <2>2 DEF JobHonest, JobDisk, Based, Carrying
    <2>5. overlap \/ JobSeen(m, new)
      BY <1>0, <2>1, <2>2 DEF JobSeen, Based, IndInv, InTurns
    <2>6. Set(m, "cli", new) /\ UNCHANGED <<fileVars, storeVars, wire, seen, overlap>> /\ ~At(m, "cli", "idle")
      BY <1>3 DEF PushChanged, envVars, At, new
    <2> QED BY <1>0, <2>3, <2>4, <2>5, <2>6, MoveOn
  <1> QED BY <1>1, <1>2, <1>3

LEMMA PayloadReads == ASSUME IndInv, NEW m \in Machine, PayloadRead(m) PROVE IndInv'
  <1> DEFINE new == [pc |-> "stamp", op |-> "payload", doc |-> live[m], knows |-> seen[m]]
  <1>1. "cli" \in Worker /\ live[m] \in Doc /\ seen[m] \in SUBSET Doc
    BY DEF Worker, IndInv, Types, File, PayloadRead
  <1>2. new \in Job
    BY <1>1 DEF Job, Stamping
  <1>3. JobHonest(m, new) /\ JobSeen(m, new) /\ JobDisk(m, new)
    BY DEF JobHonest, JobSeen, JobDisk, Based, Carrying
  <1> QED BY <1>1, <1>2, <1>3, MoveOn DEF PayloadRead, envVars, At

LEMMA ReceiveReads ==
    ASSUME IndInv, NEW m \in Machine, NEW w \in Worker, ReceiveRead(m, w)
    PROVE  IndInv'
  <1>1. PICK pay \in wire :
          Set(m, w, [pc |-> "judge", op |-> "receive", pay |-> pay, doc |-> Denormalize(pay.doc),
                     current |-> live[m]])
    BY DEF ReceiveRead
  <1> DEFINE new == [pc |-> "judge", op |-> "receive", pay |-> pay, doc |-> Denormalize(pay.doc),
                     current |-> live[m]]
  <1>2. pay \in Packet /\ live[m] \in File
    BY DEF IndInv, Types
  <1>3. Denormalize(pay.doc) \in Doc
    BY <1>2, Spelling DEF Packet
  <1>4. new \in Job
    BY <1>2, <1>3 DEF Job, Judging
  <1>5. JobHonest(m, new) /\ JobSeen(m, new) /\ JobDisk(m, new)
    BY DEF JobHonest, JobSeen, JobDisk, Based, Carrying
  <1> QED BY <1>1, <1>4, <1>5, MoveOn DEF ReceiveRead, envVars

(* The verdict "apply" is about a recorded file and a vector that is ahead. *)
LEMMA Applies ==
    ASSUME Types, NEW m \in Machine, NEW w \in Worker, At(m, w, "judge"), Verdict(m, w) = "apply"
    PROVE  /\ job[m][w].current \in {Absent, Newest(m)}
           /\ \A n \in Machine : vector[m][n] <= job[m][w].pay.vector[n]
  <1>1. job[m][w] \in Judging /\ vector[m] \in Vector
    BY JobAt DEF Types, At
  <1>2. LiveIsRecorded(m, job[m][w].current) /\ Relation(vector[m], job[m][w].pay.vector) = "older"
    BY DEF Verdict
  <1>3. Dominates(job[m][w].pay.vector, vector[m])
    BY <1>2 DEF Relation
  <1>4. job[m][w].pay.vector \in Vector
    BY <1>1 DEF Judging, Packet
  <1> QED BY <1>1, <1>2, <1>3, <1>4 DEF LiveIsRecorded, Dominates, Vector

LEMMA ReceiveMoves ==
    ASSUME IndInv, NEW m \in Machine, NEW w \in Worker,
           ReceiveRefuse(m, w) \/ ReceiveUpToDate(m, w) \/ ReceiveDecide(m, w)
    PROVE  IndInv'
  <1> DEFINE j == job[m][w]
  <1>0. j \in Job /\ j.pc = "judge" /\ ~At(m, w, "idle")
    BY DEF IndInv, Types, ReceiveRefuse, ReceiveUpToDate, ReceiveDecide, At
  <1>1. /\ j \in Judging /\ j.pay \in Packet /\ j.doc \in Doc /\ vector[m] \in Vector
    BY <1>0, JobAt DEF Judging, IndInv, Types
  <1>2. /\ j.pay \in wire /\ Issued(vector[m])
        /\ j.pay.machine = m => j.pay.vector[m] <= vector[m][m]
    BY <1>0 DEF IndInv, Honest, JobHonest, Carrying, Issued
  <1>3. CASE ReceiveRefuse(m, w)
    BY <1>0, <1>3, IdleJob, IdleInv, MoveOn DEF ReceiveRefuse, envVars
  <1>4. CASE ReceiveUpToDate(m, w)
    <2> DEFINE new == [pc |-> "absorb", op |-> "receive", pay |-> j.pay, base |-> vector[m]]
    <2>1. new \in Job
      BY <1>1 DEF Job, Absorbing
    <2>2. JobHonest(m, new) /\ JobSeen(m, new) /\ JobDisk(m, new)
      BY <1>2 DEF JobHonest, JobSeen, JobDisk, Based, Carrying
    <2> QED BY <1>0, <1>4, <2>1, <2>2, MoveOn DEF ReceiveUpToDate, envVars
  <1>5. CASE ReceiveDecide(m, w)
    <2> DEFINE pc == IF Verdict(m, w) = "apply" THEN "write" ELSE "copy"
               new == [pc |-> pc, op |-> "receive", pay |-> j.pay, doc |-> j.doc, base |-> vector[m]]
    <2>1. new \in Job
      BY <1>1 DEF Job, Taking
    <2>2. JobHonest(m, new) /\ JobDisk(m, new)
      BY <1>2 DEF JobHonest, JobDisk, Based, Carrying
    <2>3. ASSUME ~overlap PROVE JobSeen(m, new)
      <3>1. j.current = live[m]
        BY <1>0, <2>3 DEF IndInv, InTurns, JobSeen
      <3>2. CASE Verdict(m, w) = "apply"
        <4>1. /\ live[m] \in {Absent, Newest(m)}
              /\ \A n \in Machine : vector[m][n] <= j.pay.vector[n]
          BY <1>0, <3>1, <3>2, Applies DEF At, IndInv
        <4> QED BY <3>2, <4>1 DEF JobSeen, Based
      <3>3. CASE Verdict(m, w) # "apply"
        BY <3>3 DEF JobSeen, Based
      <3> QED BY <3>2, <3>3
    <2> QED BY <1>0, <1>5, <2>1, <2>2, <2>3, MoveOn DEF ReceiveDecide, envVars
  <1> QED BY <1>3, <1>4, <1>5

LEMMA ReconcileReads ==
    ASSUME IndInv, NEW m \in Machine, RevertRead(m) \/ MergeRead(m)
    PROVE  IndInv'
  <1>0. "cli" \in Worker
    BY DEF Worker
  <1>1. CASE RevertRead(m)
    <2>1. PICK doc \in Recorded(m) : Set(m, "cli", [pc |-> "replace", op |-> "revert", doc |-> doc])
      BY <1>1 DEF RevertRead
    <2>2. doc \in Doc
      <3>1. history[m] \in Seq(Revision)
        BY DEF IndInv, Types
      <3>2. \A i \in DOMAIN history[m] : history[m][i] \in Revision
        BY <3>1
      <3> QED BY <3>2 DEF Recorded, Revision
    <2> DEFINE new == [pc |-> "replace", op |-> "revert", doc |-> doc]
    <2>3. new \in Job
      BY <2>2 DEF Job, Local
    <2>4. JobHonest(m, new) /\ JobSeen(m, new) /\ JobDisk(m, new)
      BY DEF JobHonest, JobSeen, JobDisk, Based, Carrying
    <2> QED BY <1>0, <1>1, <2>1, <2>3, <2>4, MoveOn DEF RevertRead, envVars
  <1>2. CASE MergeRead(m)
    <2> DEFINE docs == Sources(m) \cup {live[m]}
               new == [pc |-> "aside", op |-> "merge", doc |-> Merged(m), used |-> copies[m]]
    <2>1. copies[m] \in SUBSET Copy /\ sibling[m] \in File /\ live[m] \in Doc
      BY <1>2 DEF MergeRead, IndInv, Types, File
    <2>2. docs \in SUBSET Doc
      BY <2>1 DEF Sources, Copy, File
    <2>3. Merged(m) \in Doc /\ \A d \in docs : Covers(Merged(m), d)
      BY <1>2, <2>2, MergeCovers DEF MergeRead, Merged
    <2>4. OnDisk(m) \subseteq docs
      BY DEF OnDisk, Sources
    <2>5. new \in Job
      BY <2>1, <2>3 DEF Job, Merging
    <2>6. JobHonest(m, new) /\ JobSeen(m, new) /\ JobDisk(m, new)
      BY <2>3, <2>4 DEF JobHonest, JobSeen, JobDisk, Based, Carrying
    <2> QED BY <1>0, <1>2, <2>5, <2>6, MoveOn DEF MergeRead, envVars
  <1> QED BY <1>1, <1>2

LEMMA WorkerDies ==
    ASSUME IndInv, NEW m \in Machine, NEW w \in Worker, Crash(m, w)
    PROVE  IndInv'
  BY IdleJob, IdleInv, MoveOn DEF Crash, envVars

-----------------------------------------------------------------------------
(* Steps that change the file, the store or the wire. *)

(* Counters that were issued stay issued: what is to be shown is of the new payloads,
   the vectors and the job that moved. *)
LEMMA HonestFollows ==
    ASSUME Types, Types', Honest, NEW m \in Machine, NEW w \in Worker, NEW j \in Job, Set(m, w, j),
           wire \subseteq wire', \A n \in Machine : vector[n][n] <= vector'[n][n],
           \A n \in Machine : Issued(vector[n])', \A pay \in wire' \ wire : Issued(pay.vector)',
           JobHonest(m, j)'
    PROVE  Honest'
  <1>0. /\ \A n \in Machine : vector[n][n] \in Nat /\ vector'[n][n] \in Nat
        /\ \A pay \in wire : pay.vector \in Vector
    BY DEF Types, Vector, Packet
  <1>1. ASSUME NEW v \in Vector, Issued(v) PROVE \A n \in Machine : v[n] <= vector'[n][n]
    BY <1>0, <1>1 DEF Issued, Vector
  <1>2. \A pay \in wire' : Issued(pay.vector)'
    <2>1. ASSUME NEW pay \in wire PROVE \A n \in Machine : pay.vector[n] <= vector'[n][n]
      BY <1>0, <1>1 DEF Honest
    <2> QED BY <2>1 DEF Issued
  <1>3. ASSUME NEW n \in Machine, NEW x \in Worker PROVE JobHonest(n, job[n][x])'
    <2>1. CASE n = m /\ x = w
      BY <2>1, SetJob DEF Types, JobHonest, Issued
    <2>2. CASE n # m \/ x # w
      <3> DEFINE i == job[n][x]
      <3>1. job'[n][x] = i /\ i \in Job /\ JobHonest(n, i)
        BY <2>2, SetJob DEF Types, Honest
      <3>2. i.pc \in Based => i.base \in Vector
        BY <3>1, JobAt DEF Based, Taking, Absorbing
      <3>3. i.pc \in Based => \A k \in Machine : i.base[k] <= vector'[k][k]
        BY <1>1, <3>1, <3>2 DEF JobHonest
      <3> HIDE DEF i
      <3> QED BY <3>1, <3>3 DEF JobHonest, Issued
    <2> QED BY <2>1, <2>2
  <1> QED BY <1>2, <1>3 DEF Honest

(* A step of a worker, from what it shows of the worker's own job. *)
LEMMA StepKeeps ==
    ASSUME IndInv, Types', NEW m \in Machine, NEW w \in Worker, NEW j \in Job, Set(m, w, j),
           ~At(m, w, "idle"), UNCHANGED overlap,
           wire \subseteq wire', \A n \in Machine : vector[n][n] <= vector'[n][n],
           \A n \in Machine : Issued(vector[n])', \A pay \in wire' \ wire : Issued(pay.vector)',
           JobHonest(m, j)',
           overlap \/ (LiveSeen' /\ OwnSeen' /\ JobSeen(m, j)' /\ JobDisk(m, j)')
    PROVE  IndInv'
  <1>1. Honest'
    BY HonestFollows DEF IndInv
  <1>2. ASSUME ~overlap PROVE InTurns'
    <2>1. Turn(m, w)
      BY <1>2, OwnTurn
    <2> QED BY <1>2, <2>1, JobsFollow DEF IndInv, InTurns
  <1> QED BY <1>1, <1>2 DEF IndInv

(* The same for a step that leaves the vectors and the wire alone. *)
LEMMA FileStepKeeps ==
    ASSUME IndInv, Types', NEW m \in Machine, NEW w \in Worker, NEW j \in Job, Set(m, w, j),
           ~At(m, w, "idle"), UNCHANGED <<overlap, wire, vector>>, JobHonest(m, j),
           overlap \/ (LiveSeen' /\ OwnSeen' /\ JobSeen(m, j)' /\ JobDisk(m, j)')
    PROVE  IndInv'
  <1>1. \A n \in Machine : vector[n][n] \in Nat
    BY DEF IndInv, Types, Vector
  <1>2. \A n \in Machine : vector[n][n] <= vector'[n][n]
    BY <1>1
  <1>3. \A n \in Machine : Issued(vector[n])'
    BY DEF IndInv, Honest, Issued
  <1>4. JobHonest(m, j)'
    BY DEF JobHonest, Issued
  <1> QED BY <1>2, <1>3, <1>4, StepKeeps

LEMMA OwnSeenKept ==
    ASSUME OwnSeen, UNCHANGED <<vector, wire, history>>, \A n \in Machine : seen[n] \subseteq seen'[n]
    PROVE  OwnSeen'
  BY DEF OwnSeen, RevisionSeen

(* A revision is appended. *)
LEMMA HistoryGrows ==
    ASSUME Types, NEW m \in Machine, NEW r \in Revision,
           history' = [history EXCEPT ![m] = Append(@, r)]
    PROVE  /\ history' \in [Machine -> Seq(Revision)]
           /\ (OwnSeen /\ RevisionSeen(m, r) /\ UNCHANGED <<vector, wire, seen>>) => OwnSeen'
  <1>1. history[m] \in Seq(Revision)
    BY DEF Types
  <1>2. /\ Append(history[m], r) \in Seq(Revision)
        /\ Len(Append(history[m], r)) = Len(history[m]) + 1 /\ Len(history[m]) \in Nat
        /\ \A i \in 1..Len(history[m]) : Append(history[m], r)[i] = history[m][i]
        /\ Append(history[m], r)[Len(history[m]) + 1] = r
    BY <1>1
  <1>3. history' \in [Machine -> Seq(Revision)] /\ history'[m] = Append(history[m], r)
        /\ \A n \in Machine \ {m} : history'[n] = history[n]
    BY <1>2 DEF Types
  <1>4. ASSUME OwnSeen, RevisionSeen(m, r), UNCHANGED <<vector, wire, seen>> PROVE OwnSeen'
    <2> SUFFICES ASSUME NEW n \in Machine, NEW i \in 1..Len(history'[n])
                 PROVE  RevisionSeen(n, history'[n][i])
      BY <1>4 DEF OwnSeen, RevisionSeen
    <2>1. CASE n # m
      BY <1>3, <1>4, <2>1 DEF OwnSeen
    <2>2. CASE n = m /\ i \in 1..Len(history[m])
      BY <1>2, <1>3, <1>4, <2>2 DEF OwnSeen
    <2>3. CASE n = m /\ i = Len(history[m]) + 1
      BY <1>2, <1>3, <1>4, <2>3
    <2> QED BY <1>2, <1>3, <2>1, <2>2, <2>3
  <1> QED BY <1>3, <1>4

LEMMA EditKeeps == ASSUME IndInv, NEW m \in Machine, Edit(m) PROVE IndInv'
  <1>1. PICK doc \in Documents : /\ live' = [live EXCEPT ![m] = doc]
                                 /\ seen' = [seen EXCEPT ![m] = @ \cup {Denormalize(doc)}]
    BY DEF Edit
  <1>2. doc \in Doc /\ Denormalize(doc) \in Doc
    BY SyncAssumption, Spelling
  <1>3. UNCHANGED <<sibling, copies, vector, history, job, wire, overlap>>
    BY DEF Edit, storeVars
  <1>4. live' \in [Machine -> File] /\ seen' \in [Machine -> SUBSET Doc]
    BY <1>1, <1>2 DEF IndInv, Types, File
  <1>5. Types'
    BY <1>3, <1>4 DEF IndInv, Types
  <1>6. Honest'
    BY <1>3 DEF IndInv, Honest, JobHonest, Issued
  <1>7. ASSUME ~overlap PROVE InTurns'
    <2>1. InTurns /\ \A n \in Machine, x \in Worker : job[n][x].pc = "idle"
      BY <1>7 DEF IndInv, Edit, Quiet, At
    <2>2. Exclusive'
      BY <1>3, <2>1 DEF Exclusive, Turn, At
    <2>3. LiveSeen'
      <3> SUFFICES ASSUME NEW n \in Machine, live'[n] # Absent PROVE Denormalize(live'[n]) \in seen'[n]
        BY DEF LiveSeen, Denormalize
      <3>1. CASE n = m
        BY <1>1, <3>1 DEF IndInv, Types
      <3>2. CASE n # m
        BY <1>1, <2>1, <3>2 DEF IndInv, Types, InTurns, LiveSeen
      <3> QED BY <3>1, <3>2
    <2>4. OwnSeen'
      <3>1. \A n \in Machine : seen[n] \subseteq seen'[n]
        BY <1>1 DEF IndInv, Types
      <3> QED BY <1>3, <2>1, <3>1, OwnSeenKept DEF InTurns
    <2>5. \A n \in Machine, x \in Worker : JobSeen(n, job[n][x])' /\ JobDisk(n, job[n][x])'
      BY <1>3, <2>1 DEF JobSeen, JobDisk, Based
    <2> QED BY <2>2, <2>3, <2>4, <2>5 DEF InTurns
  <1> QED BY <1>3, <1>5, <1>6, <1>7 DEF IndInv

LEMMA CountKeeps == ASSUME IndInv, NEW m \in Machine, Count(m) PROVE IndInv'
  <1> DEFINE j == job[m]["cli"]
  <1>0. "cli" \in Worker /\ j \in Job /\ j.pc = "count" /\ ~At(m, "cli", "idle")
    BY DEF Worker, IndInv, Types, Count, At
  <1>p. PICK new : new = [j EXCEPT !.pc = "record"]
    OBVIOUS
  <1>1. new \in Local \cup Merging /\ new.pc = "record" /\ new.doc = j.doc /\ new.op = j.op
        /\ (new.op = "merge" => new.used = j.used)
    BY <1>0, <1>p, JobAt DEF Local, Merging
  <1>2. new \in Job
    BY <1>1 DEF Job
  <1>3. /\ Set(m, "cli", new) /\ UNCHANGED <<live, sibling, copies, history, wire, seen, overlap>>
        /\ vector' = [vector EXCEPT ![m][m] = @ + 1]
    BY <1>p DEF Count, fileVars, envVars
  <1>4. /\ vector \in [Machine -> Vector]
        /\ \A a, b \in Machine : vector[a][b] \in Nat
    BY DEF IndInv, Types, Vector
  <1>5. /\ vector' \in [Machine -> Vector] /\ vector'[m][m] = vector[m][m] + 1
        /\ \A a, b \in Machine : a # m \/ b # m => vector'[a][b] = vector[a][b]
    BY <1>3, <1>4 DEF Vector
  <1>6. Types'
    BY <1>0, <1>2, <1>3, <1>5, SetJob DEF IndInv, Types
  <1>7. \A n \in Machine : vector[n][n] <= vector'[n][n]
    BY <1>4, <1>5
  <1>8. \A n \in Machine : Issued(vector[n])'
    BY <1>4, <1>5 DEF IndInv, Honest, Issued
  <1>9. JobHonest(m, new)'
    BY <1>1 DEF JobHonest, Based, Carrying
  <1>10. ASSUME ~overlap PROVE LiveSeen' /\ OwnSeen' /\ JobSeen(m, new)' /\ JobDisk(m, new)'
    <2>1. InTurns /\ JobSeen(m, j) /\ JobDisk(m, j)
      BY <1>0, <1>10, OwnTurn
    <2>2. LiveSeen'
      BY <1>3, <2>1 DEF InTurns, LiveSeen
    <2>3. OwnSeen'
      <3> SUFFICES ASSUME NEW q \in Machine, NEW i \in 1..Len(history[q])
                   PROVE  RevisionSeen(q, history[q][i])'
        BY <1>3 DEF OwnSeen
      <3> DEFINE r == history[q][i]
      <3>1. r.counter \in Nat /\ RevisionSeen(q, r)
        <4>1. history[q] \in Seq(Revision)
          BY DEF IndInv, Types
        <4>2. r \in Revision
          BY <4>1
        <4> QED BY <2>1, <4>2 DEF InTurns, OwnSeen, Revision
      <3>2. r' = r
        BY <1>3
      <3> HIDE DEF r
      <3> QED BY <1>3, <1>4, <1>5, <3>1, <3>2 DEF RevisionSeen, r
    <2>4. JobSeen(m, new)'
      <3>1. \A pay \in wire : pay.vector[m] < vector'[m][m]
        <4>1. \A pay \in wire : pay.vector[m] \in Nat /\ pay.vector[m] <= vector[m][m]
          BY DEF IndInv, Types, Packet, Vector, Honest, Issued
        <4> QED BY <1>4, <1>5, <4>1
      <3>2. \A n \in Machine \ {m} : vector'[n][m] < vector'[m][m]
        <4>1. \A n \in Machine : vector[n][m] <= vector[m][m]
          BY DEF IndInv, Honest, Issued
        <4> QED BY <1>4, <1>5, <4>1
      <3> QED BY <1>0, <1>1, <1>3, <2>1, <3>1, <3>2 DEF JobSeen, Based
    <2>5. JobDisk(m, new)'
      BY <1>0, <1>1, <1>3, <2>1 DEF JobDisk
    <2> QED BY <2>2, <2>3, <2>4, <2>5
  <1> QED BY <1>0, <1>2, <1>3, <1>6, <1>7, <1>8, <1>9, <1>10, StepKeeps

LEMMA RecordKeeps == ASSUME IndInv, NEW m \in Machine, Record(m) PROVE IndInv'
  <1> DEFINE j == job[m]["cli"]
             r == [by |-> m, counter |-> vector[m][m], reason |-> "own", doc |-> j.doc]
  <1>0. "cli" \in Worker /\ j \in Job /\ j.pc = "record" /\ ~At(m, "cli", "idle")
    BY DEF Worker, IndInv, Types, Record, At
  <1>p. PICK new : new = AfterRecord(j)
    OBVIOUS
  <1>1. j \in Local \cup Merging /\ new \in Job
    BY <1>0, <1>p, JobAt, JobMoves
  <1>2. /\ new.pc \in {"idle", "read", "consume"}
        /\ new.pc = "consume" => j.op = "merge" /\ new.used = j.used
    BY <1>p, IdleJob DEF AfterRecord, AfterPush
  <1>3. /\ Set(m, "cli", new) /\ UNCHANGED <<live, sibling, copies, vector, wire, seen, overlap>>
        /\ history' = [history EXCEPT ![m] = Append(@, r)]
    BY <1>p DEF Record, fileVars, envVars
  <1>4. r \in Revision /\ r.counter = vector[m][m] /\ r.doc = j.doc
    BY <1>1 DEF Revision, Local, Merging, IndInv, Types, Vector
  <1> HIDE DEF r
  <1>5. Types'
    BY <1>0, <1>1, <1>3, <1>4, SetJob, HistoryGrows DEF IndInv, Types
  <1>6. JobHonest(m, new)
    BY <1>2 DEF JobHonest, Based, Carrying
  <1>7. ASSUME ~overlap PROVE LiveSeen' /\ OwnSeen' /\ JobSeen(m, new)' /\ JobDisk(m, new)'
    <2>1. InTurns /\ JobSeen(m, j) /\ JobDisk(m, j)
      BY <1>0, <1>7, OwnTurn
    <2>2. LiveSeen'
      BY <1>3, <2>1 DEF InTurns, LiveSeen
    <2>3. RevisionSeen(m, r)
      <3>1. /\ \A pay \in wire : pay.vector[m] < vector[m][m]
            /\ \A n \in Machine \ {m} : vector[n][m] < vector[m][m]
            /\ Denormalize(r.doc) \in seen[m]
        BY <1>0, <1>4, <2>1 DEF JobSeen
      <3>2. /\ \A pay \in wire : pay.vector[m] \in Nat
            /\ \A n \in Machine : vector[n][m] \in Nat
        BY DEF IndInv, Types, Packet, Vector
      <3> QED BY <1>4, <3>1, <3>2 DEF RevisionSeen
    <2>4. OwnSeen'
      BY <1>3, <1>4, <2>1, <2>3, HistoryGrows DEF IndInv, InTurns
    <2>5. JobSeen(m, new)'
      BY <1>2 DEF JobSeen, Based
    <2>6. JobDisk(m, new)'
      BY <1>0, <1>2, <1>3, <2>1 DEF JobDisk
    <2> QED BY <2>2, <2>4, <2>5, <2>6
  <1> QED BY <1>0, <1>1, <1>3, <1>5, <1>6, <1>7, FileStepKeeps

LEMMA StampKeeps == ASSUME IndInv, NEW m \in Machine, PayloadStamp(m) PROVE IndInv'
  <1> DEFINE j == job[m]["cli"]
             pay == [machine |-> m, vector |-> vector[m], doc |-> Normalize(j.doc), knows |-> j.knows]
  <1>0. "cli" \in Worker /\ j \in Job /\ j.pc = "stamp" /\ ~At(m, "cli", "idle")
    BY DEF Worker, IndInv, Types, PayloadStamp, At
  <1>1. j \in Stamping /\ j.doc \in Doc /\ j.knows \in SUBSET Doc
    BY <1>0, JobAt DEF Stamping
  <1>2. pay \in Packet
    BY <1>1, Spelling DEF Packet, IndInv, Types
  <1>3. /\ Set(m, "cli", Idle) /\ wire' = wire \cup {pay}
        /\ UNCHANGED <<live, sibling, copies, vector, history, seen, overlap>>
    BY DEF PayloadStamp, fileVars, storeVars, envVars
  <1>4. pay.vector = vector[m] /\ pay.knows = j.knows
    OBVIOUS
  <1> HIDE DEF pay
  <1>5. Types'
    BY <1>0, <1>2, <1>3, IdleJob, SetJob DEF IndInv, Types
  <1>6. \A n \in Machine : vector[n][n] <= vector'[n][n]
    BY <1>3 DEF IndInv, Types, Vector
  <1>7. (\A n \in Machine : Issued(vector[n])') /\ \A p \in wire' \ wire : Issued(p.vector)'
    BY <1>3, <1>4 DEF IndInv, Honest, Issued
  <1>8. JobHonest(m, Idle)' /\ JobSeen(m, Idle)' /\ JobDisk(m, Idle)'
    BY IdleJob DEF JobHonest, JobSeen, JobDisk, Based, Carrying
  <1>9. ASSUME ~overlap PROVE LiveSeen' /\ OwnSeen'
    <2>1. InTurns /\ j.knows = seen[m]
      BY <1>0, <1>9, OwnTurn DEF JobSeen
    <2>2. LiveSeen'
      BY <1>3, <2>1 DEF InTurns, LiveSeen
    <2>3. OwnSeen'
      BY <1>3, <1>4, <2>1 DEF InTurns, OwnSeen, RevisionSeen
    <2> QED BY <2>2, <2>3
  <1> QED BY <1>0, <1>3, <1>5, <1>6, <1>7, <1>8, <1>9, IdleJob, StepKeeps

LEMMA WriteKeeps ==
    ASSUME IndInv, NEW m \in Machine, NEW w \in Worker, ReceiveWrite(m, w)
    PROVE  IndInv'
  <1> DEFINE j == job[m][w]
  <1>0. j \in Job /\ j.pc = "write" /\ ~At(m, w, "idle")
    BY DEF IndInv, Types, ReceiveWrite, At
  <1>p. PICK new : new = [j EXCEPT !.pc = "log"]
    OBVIOUS
  <1>1. /\ j \in Taking /\ j.doc \in Doc /\ j.pay.knows \in SUBSET Doc
        /\ new \in Taking /\ new.pc = "log" /\ new.pay = j.pay /\ new.base = j.base /\ new.op # "merge"
    BY <1>0, <1>p, JobAt DEF Taking, Packet
  <1>2. new \in Job
    BY <1>1 DEF Job
  <1>3. /\ Set(m, w, new) /\ UNCHANGED <<sibling, copies, vector, history, wire, overlap>>
        /\ live' = [live EXCEPT ![m] = j.doc]
        /\ seen' = [seen EXCEPT ![m] = @ \cup j.pay.knows \cup {Denormalize(j.doc)}]
    BY <1>p DEF ReceiveWrite, storeVars, envVars
  <1>4. live' \in [Machine -> File] /\ seen' \in [Machine -> SUBSET Doc]
    BY <1>1, <1>3, Spelling DEF IndInv, Types, File
  <1>5. Types'
    BY <1>2, <1>3, <1>4, SetJob DEF IndInv, Types
  <1>6. JobHonest(m, new)
    BY <1>0, <1>1 DEF IndInv, Honest, JobHonest, Based, Carrying
  <1>7. ASSUME ~overlap PROVE LiveSeen' /\ OwnSeen' /\ JobSeen(m, new)' /\ JobDisk(m, new)'
    <2>1. InTurns /\ j.base = vector[m]
      BY <1>0, <1>7, OwnTurn DEF JobSeen, Based
    <2>2. LiveSeen'
      <3> SUFFICES ASSUME NEW n \in Machine, live'[n] # Absent PROVE Denormalize(live'[n]) \in seen'[n]
        BY DEF LiveSeen, Denormalize
      <3>1. CASE n = m
        BY <1>3, <3>1 DEF IndInv, Types
      <3>2. CASE n # m
        BY <1>3, <2>1, <3>2 DEF IndInv, Types, InTurns, LiveSeen
      <3> QED BY <3>1, <3>2
    <2>3. OwnSeen'
      <3>1. \A n \in Machine : seen[n] \subseteq seen'[n]
        BY <1>3 DEF IndInv, Types
      <3> QED BY <1>3, <2>1, <3>1, OwnSeenKept DEF InTurns
    <2>4. JobSeen(m, new)' /\ JobDisk(m, new)'
      BY <1>1, <1>3, <2>1 DEF JobSeen, JobDisk, Based
    <2> QED BY <2>2, <2>3, <2>4
  <1> QED BY <1>2, <1>3, <1>5, <1>6, <1>7, <1>0, FileStepKeeps

LEMMA CopyKeeps ==
    ASSUME IndInv, NEW m \in Machine, NEW w \in Worker, ReceiveCopy(m, w)
    PROVE  IndInv'
  <1> DEFINE j == job[m][w]
  <1>0. j \in Job /\ j.pc = "copy" /\ ~At(m, w, "idle")
    BY DEF IndInv, Types, ReceiveCopy, At
  <1>p. PICK new : new = [j EXCEPT !.pc = "logcopy"]
    OBVIOUS
  <1>1. /\ j \in Taking /\ j.doc \in Doc /\ j.pay.machine \in Machine
        /\ new \in Taking /\ new.pc = "logcopy" /\ new.pay = j.pay /\ new.base = j.base /\ new.op # "merge"
    BY <1>0, <1>p, JobAt DEF Taking, Packet
  <1>2. new \in Job
    BY <1>1 DEF Job
  <1>3. Set(m, w, new) /\ UNCHANGED <<live, sibling, vector, history, wire, seen, overlap>>
    BY <1>p DEF ReceiveCopy, storeVars, envVars
  <1>4. copies' \in [Machine -> SUBSET Copy]
    <2>1. [from |-> j.pay.machine, doc |-> j.doc] \in Copy
      BY <1>1 DEF Copy
    <2>2. copies \in [Machine -> SUBSET Copy] /\ copies[m] \in SUBSET Copy
      BY DEF IndInv, Types
    <2>3. PICK set \in SUBSET Copy : copies' = [copies EXCEPT ![m] = set]
      <3>1. CASE copies' = [copies EXCEPT ![m] = @ \cup {[from |-> j.pay.machine, doc |-> j.doc]}]
        BY <2>1, <2>2, <3>1
      <3>2. ASSUME NEW old \in copies[m],
                   copies' = [copies EXCEPT ![m] = (@ \ {old}) \cup {[from |-> j.pay.machine, doc |-> j.doc]}]
            PROVE  \E set \in SUBSET Copy : copies' = [copies EXCEPT ![m] = set]
        BY <2>1, <2>2, <3>2
      <3> QED BY <3>1, <3>2 DEF ReceiveCopy
    <2> QED BY <2>2, <2>3
  <1>5. Types'
    BY <1>2, <1>3, <1>4, SetJob DEF IndInv, Types
  <1>6. JobHonest(m, new)
    BY <1>0, <1>1 DEF IndInv, Honest, JobHonest, Based, Carrying
  <1>7. ASSUME ~overlap PROVE LiveSeen' /\ OwnSeen' /\ JobSeen(m, new)' /\ JobDisk(m, new)'
    <2>1. InTurns /\ j.base = vector[m]
      BY <1>0, <1>7, OwnTurn DEF JobSeen, Based
    <2>2. LiveSeen' /\ OwnSeen'
      BY <1>3, <2>1 DEF InTurns, LiveSeen, OwnSeen, RevisionSeen
    <2>3. JobSeen(m, new)' /\ JobDisk(m, new)'
      BY <1>1, <1>3, <2>1 DEF JobSeen, JobDisk, Based
    <2> QED BY <2>2, <2>3
  <1> QED BY <1>0, <1>2, <1>3, <1>5, <1>6, <1>7, FileStepKeeps

LEMMA LogKeeps ==
    ASSUME IndInv, NEW m \in Machine, NEW w \in Worker, ReceiveLog(m, w) \/ ReceiveLogCopy(m, w)
    PROVE  IndInv'
  <1> DEFINE j == job[m][w]
  <1>0. j \in Job /\ j.pc \in {"log", "logcopy"} /\ ~At(m, w, "idle")
    BY DEF IndInv, Types, ReceiveLog, ReceiveLogCopy, At
  <1>1. j \in Taking /\ j.pay \in Packet /\ j.base \in Vector
    BY <1>0, JobAt DEF Taking
  <1>2. PICK new \in Job :
          /\ Set(m, w, new)
          /\ new.pc = "idle" \/ (new.pc = "absorb" /\ new.pay = j.pay /\ new.base = j.base)
          /\ new.pc = "absorb" => new.op # "merge"
    <2>1. CASE ReceiveLogCopy(m, w)
      BY <2>1, IdleJob DEF ReceiveLogCopy
    <2>2. CASE ReceiveLog(m, w)
      <3> DEFINE x == [pc |-> "absorb", op |-> "receive", pay |-> j.pay, base |-> j.base]
      <3>1. x \in Job
        BY <1>1 DEF Job, Absorbing
      <3>2. x.pc = "absorb" /\ x.pay = j.pay /\ x.base = j.base /\ x.op # "merge" /\ Set(m, w, x)
        BY <2>2 DEF ReceiveLog
      <3> QED BY <3>1, <3>2
    <2> QED BY <2>1, <2>2
  <1>3. PICK r \in Revision : r.reason # "own" /\ history' = [history EXCEPT ![m] = Append(@, r)]
    <2>1. PICK why \in {"sync", "conflict"} : history' = [history EXCEPT ![m] = LogOf(m, j, why)]
      BY DEF ReceiveLog, ReceiveLogCopy
    <2> DEFINE x == [by |-> j.pay.machine, counter |-> j.pay.vector[j.pay.machine],
                     reason |-> why, doc |-> j.doc]
    <2>2. x \in Revision /\ x.reason # "own"
      BY <1>1 DEF Revision, Taking, Packet, Vector
    <2>3. history' = [history EXCEPT ![m] = Append(@, x)]
      BY <2>1 DEF LogOf
    <2> QED BY <2>2, <2>3
  <1>4. UNCHANGED <<live, sibling, copies, vector, wire, seen, overlap>>
    BY DEF ReceiveLog, ReceiveLogCopy, fileVars, envVars
  <1>5. Types'
    BY <1>2, <1>3, <1>4, SetJob, HistoryGrows DEF IndInv, Types
  <1>6. JobHonest(m, new)
    BY <1>0, <1>2 DEF IndInv, Honest, JobHonest, Based, Carrying
  <1>7. ASSUME ~overlap PROVE LiveSeen' /\ OwnSeen' /\ JobSeen(m, new)' /\ JobDisk(m, new)'
    <2>1. InTurns /\ j.base = vector[m]
      BY <1>0, <1>7, OwnTurn DEF JobSeen, Based
    <2>2. LiveSeen'
      BY <1>4, <2>1 DEF InTurns, LiveSeen
    <2>3. OwnSeen'
      <3>1. RevisionSeen(m, r)
        BY <1>3 DEF RevisionSeen
      <3> QED BY <1>3, <1>4, <2>1, <3>1, HistoryGrows DEF IndInv, InTurns
    <2>4. JobSeen(m, new)' /\ JobDisk(m, new)'
      BY <1>2, <1>4, <2>1 DEF JobSeen, JobDisk, Based
    <2> QED BY <2>2, <2>3, <2>4
  <1> QED BY <1>0, <1>2, <1>4, <1>5, <1>6, <1>7, FileStepKeeps

(* absorb: the sender's counter, or nothing; never this machine's own. *)
LEMMA AbsorbKeeps ==
    ASSUME IndInv, NEW m \in Machine, NEW w \in Worker, ReceiveAbsorb(m, w)
    PROVE  IndInv'
  <1> DEFINE j == job[m][w]
             from == j.pay.machine
  <1>0. j \in Job /\ j.pc = "absorb" /\ ~At(m, w, "idle")
    BY DEF IndInv, Types, ReceiveAbsorb, At
  <1>1. /\ j.pay \in Packet /\ j.base \in Vector /\ from \in Machine
        /\ j.pay.vector \in Vector /\ j.pay.knows \in SUBSET Doc
    BY <1>0, JobAt DEF Absorbing, Packet
  <1>2. /\ j.pay \in wire /\ Issued(j.pay.vector)
        /\ from = m => j.pay.vector[m] <= j.base[m]
    BY <1>0 DEF IndInv, Honest, JobHonest, Based, Carrying
  <1>3. /\ Set(m, w, Idle) /\ UNCHANGED <<live, sibling, copies, history, wire, overlap>>
        /\ vector' = [vector EXCEPT ![m] = Absorbed(m, j.base, j.pay)]
        /\ seen' = [seen EXCEPT ![m] = IF vector'[m] = vector[m] THEN @ ELSE @ \cup j.pay.knows]
    BY DEF ReceiveAbsorb, fileVars, envVars
  <1>4. /\ vector \in [Machine -> Vector] /\ \A a, b \in Machine : vector[a][b] \in Nat
        /\ j.base[from] \in Nat /\ j.pay.vector[from] \in Nat
    BY <1>1 DEF IndInv, Types, Vector
  <1>5. \/ vector' = vector
        \/ /\ from # m
           /\ vector' = [vector EXCEPT ![m] = [vector[m] EXCEPT ![from] = j.pay.vector[from]]]
    <2>1. CASE Taken(j.base, j.pay) = j.base[from]
      BY <1>3, <1>4, <2>1 DEF Absorbed
    <2>2. CASE Taken(j.base, j.pay) # j.base[from]
      <3>1. Taken(j.base, j.pay) = j.pay.vector[from] /\ j.base[from] < j.pay.vector[from]
        BY <1>4, <2>2 DEF Taken
      <3>2. from # m
        BY <1>2, <1>4, <3>1
      <3> QED BY <1>3, <2>2, <3>1, <3>2 DEF Absorbed
    <2> QED BY <2>1, <2>2
  <1>6. /\ vector' \in [Machine -> Vector]
        /\ \A a, b \in Machine : a # m \/ b # from => vector'[a][b] = vector[a][b]
        /\ from = m => vector' = vector
        /\ vector'[m][from] \in {vector[m][from], j.pay.vector[from]}
    <2>1. CASE vector' = vector
      BY <1>1, <1>4, <2>1
    <2>2. CASE from # m /\ vector' = [vector EXCEPT ![m] = [vector[m] EXCEPT ![from] = j.pay.vector[from]]]
      <3> DEFINE v == [vector[m] EXCEPT ![from] = j.pay.vector[from]]
      <3>1. vector[m] \in [Machine -> Nat]
        BY <1>4 DEF Vector
      <3>2. v \in Vector /\ v[from] = j.pay.vector[from] /\ \A b \in Machine : b # from => v[b] = vector[m][b]
        BY <1>1, <1>4, <3>1 DEF Vector
      <3> HIDE DEF v
      <3>3. vector' \in [Machine -> Vector] /\ vector'[m] = v /\ \A a \in Machine : a # m => vector'[a] = vector[a]
        BY <1>4, <2>2, <3>2 DEF v
      <3> QED BY <1>1, <2>2, <3>2, <3>3
    <2> QED BY <1>5, <2>1, <2>2
  <1>7. /\ seen' \in [Machine -> SUBSET Doc] /\ \A n \in Machine : seen[n] \subseteq seen'[n]
        /\ vector'[m][from] # vector[m][from] => j.pay.knows \subseteq seen'[m]
    BY <1>1, <1>3 DEF IndInv, Types
  <1>8. Types'
    BY <1>3, <1>6, <1>7, IdleJob, SetJob DEF IndInv, Types
  <1>9. \A n \in Machine : vector'[n][n] = vector[n][n]
    BY <1>1, <1>6
  <1>10. \A n \in Machine : vector[n][n] <= vector'[n][n]
    BY <1>4, <1>9
  <1>11. \A n \in Machine : Issued(vector[n])'
    BY <1>1, <1>2, <1>4, <1>6, <1>9 DEF IndInv, Honest, Issued
  <1>12. JobHonest(m, Idle)' /\ JobSeen(m, Idle)' /\ JobDisk(m, Idle)'
    BY IdleJob DEF JobHonest, JobSeen, JobDisk, Based, Carrying
  <1>13. ASSUME ~overlap PROVE LiveSeen' /\ OwnSeen'
    <2>1. InTurns
      BY <1>0, <1>13, OwnTurn
    <2>2. LiveSeen'
      BY <1>3, <1>7, <2>1 DEF InTurns, LiveSeen
    <2>3. OwnSeen'
      <3> SUFFICES ASSUME NEW q \in Machine, NEW i \in 1..Len(history[q])
                   PROVE  RevisionSeen(q, history[q][i])'
        BY <1>3 DEF OwnSeen
      <3>p. PICK r : r = history[q][i] /\ history'[q][i] = r
        BY <1>3
      <3>1. r \in Revision
        <4>1. history[q] \in Seq(Revision)
          BY DEF IndInv, Types
        <4> QED BY <3>p, <4>1
      <3>2. r.counter \in Nat /\ RevisionSeen(q, r)
        BY <2>1, <3>p, <3>1 DEF InTurns, OwnSeen, Revision
      <3>3. ASSUME r.reason = "own", NEW n \in Machine, r.counter <= vector'[n][q]
            PROVE  Denormalize(r.doc) \in seen'[n]
        <4>1. CASE vector'[n][q] = vector[n][q]
          BY <1>7, <3>2, <3>3, <4>1 DEF RevisionSeen
        <4>2. CASE vector'[n][q] # vector[n][q]
          <5>1. n = m /\ q = from /\ vector'[n][q] = j.pay.vector[q]
            BY <1>6, <4>2
          <5>2. Denormalize(r.doc) \in j.pay.knows
            BY <1>2, <3>2, <3>3, <5>1 DEF RevisionSeen
          <5> QED BY <1>7, <4>2, <5>1, <5>2
        <4> QED BY <4>1, <4>2
      <3>4. r.reason = "own" => r.counter <= vector'[q][q]
        BY <1>9, <3>2 DEF RevisionSeen
      <3> QED BY <1>3, <3>p, <3>2, <3>3, <3>4 DEF RevisionSeen
    <2> QED BY <2>2, <2>3
  <1>14. wire \subseteq wire' /\ \A pay \in wire' \ wire : Issued(pay.vector)'
    BY <1>3
  <1> QED BY <1>0, <1>3, <1>8, <1>10, <1>11, <1>12, <1>13, <1>14, IdleJob, StepKeeps

LEMMA AsideKeeps == ASSUME IndInv, NEW m \in Machine, MergeAside(m) PROVE IndInv'
  <1> DEFINE j == job[m]["cli"]
  <1>0. "cli" \in Worker /\ j \in Job /\ j.pc = "aside" /\ ~At(m, "cli", "idle")
    BY DEF Worker, IndInv, Types, MergeAside, At
  <1>p. PICK new : new = [j EXCEPT !.pc = "replace"]
    OBVIOUS
  <1>1. /\ j \in Merging /\ new \in Merging /\ j.op = "merge"
        /\ new.pc = "replace" /\ new.doc = j.doc /\ new.used = j.used
    BY <1>0, <1>p, JobAt DEF Merging
  <1>2. new \in Job
    BY <1>1 DEF Job
  <1>3. /\ Set(m, "cli", new) /\ UNCHANGED <<live, copies, vector, history, wire, seen, overlap>>
        /\ sibling' = [sibling EXCEPT ![m] = Absent]
    BY <1>p DEF MergeAside, storeVars, envVars
  <1>4. Types'
    BY <1>0, <1>2, <1>3, SetJob DEF IndInv, Types, File
  <1>5. JobHonest(m, new)
    BY <1>1 DEF JobHonest, Based, Carrying
  <1>6. ASSUME ~overlap PROVE LiveSeen' /\ OwnSeen' /\ JobSeen(m, new)' /\ JobDisk(m, new)'
    <2>1. InTurns /\ j.used = copies[m] /\ \A d \in OnDisk(m) : Covers(j.doc, d)
      BY <1>0, <1>1, <1>6, OwnTurn DEF JobDisk
    <2>2. LiveSeen' /\ OwnSeen'
      BY <1>3, <2>1 DEF InTurns, LiveSeen, OwnSeen, RevisionSeen
    <2>3. JobSeen(m, new)' /\ JobDisk(m, new)'
      BY <1>1, <1>3, <2>1 DEF JobSeen, JobDisk, Based, OnDisk
    <2> QED BY <2>2, <2>3
  <1> QED BY <1>0, <1>2, <1>3, <1>4, <1>5, <1>6, FileStepKeeps

LEMMA ReplaceKeeps == ASSUME IndInv, NEW m \in Machine, Replace(m) PROVE IndInv'
  <1> DEFINE j == job[m]["cli"]
  <1>0. "cli" \in Worker /\ j \in Job /\ j.pc = "replace" /\ ~At(m, "cli", "idle")
    BY DEF Worker, IndInv, Types, Replace, At
  <1>p. PICK new : new = [j EXCEPT !.pc = "count"]
    OBVIOUS
  <1>1. /\ j.doc \in Doc /\ new \in Local \cup Merging
        /\ new.pc = "count" /\ new.doc = j.doc /\ new.op = j.op
        /\ j.op = "merge" => new.used = j.used
    BY <1>0, <1>p, JobAt DEF Local, Merging
  <1>2. new \in Job
    BY <1>1 DEF Job
  <1>3. /\ Set(m, "cli", new) /\ UNCHANGED <<sibling, copies, vector, history, wire, overlap>>
        /\ live' = [live EXCEPT ![m] = j.doc]
        /\ seen' = [seen EXCEPT ![m] = @ \cup {Denormalize(j.doc)}]
    BY <1>p DEF Replace, storeVars, envVars
  <1>4. /\ live' \in [Machine -> File] /\ seen' \in [Machine -> SUBSET Doc]
        /\ live'[m] = j.doc /\ Denormalize(j.doc) \in seen'[m]
        /\ \A n \in Machine : seen[n] \subseteq seen'[n]
        /\ \A n \in Machine \ {m} : live'[n] = live[n]
    BY <1>1, <1>3, Spelling DEF IndInv, Types, File
  <1>5. Types'
    BY <1>0, <1>2, <1>3, <1>4, SetJob DEF IndInv, Types
  <1>6. JobHonest(m, new)
    BY <1>1 DEF JobHonest, Based, Carrying
  <1>7. ASSUME ~overlap PROVE LiveSeen' /\ OwnSeen' /\ JobSeen(m, new)' /\ JobDisk(m, new)'
    <2>1. InTurns /\ JobDisk(m, j)
      BY <1>0, <1>7, OwnTurn
    <2>2. LiveSeen'
      <3> SUFFICES ASSUME NEW n \in Machine, live'[n] # Absent PROVE Denormalize(live'[n]) \in seen'[n]
        BY DEF LiveSeen, Denormalize
      <3>1. CASE n = m
        BY <1>4, <3>1
      <3>2. CASE n # m
        BY <1>4, <2>1, <3>2 DEF InTurns, LiveSeen
      <3> QED BY <3>1, <3>2
    <2>3. OwnSeen'
      BY <1>3, <1>4, <2>1, OwnSeenKept DEF InTurns
    <2>4. JobSeen(m, new)'
      BY <1>1, <1>4 DEF JobSeen, Based
    <2>5. JobDisk(m, new)'
      <3>1. j.op = "merge" => \A c \in j.used : Covers(j.doc, c.doc)
        BY <1>0, <2>1 DEF JobDisk, OnDisk
      <3>2. live'[m] # Absent
        BY <1>1, <1>4, SyncAssumption
      <3> QED BY <1>1, <1>4, <3>1, <3>2 DEF JobDisk
    <2> QED BY <2>2, <2>3, <2>4, <2>5
  <1> QED BY <1>0, <1>2, <1>3, <1>5, <1>6, <1>7, FileStepKeeps

LEMMA ConsumeKeeps == ASSUME IndInv, NEW m \in Machine, MergeConsume(m) PROVE IndInv'
  <1>0. "cli" \in Worker /\ ~At(m, "cli", "idle")
    BY DEF Worker, MergeConsume, At
  <1>1. /\ Set(m, "cli", Idle) /\ UNCHANGED <<live, sibling, vector, history, wire, seen, overlap>>
        /\ copies' = [copies EXCEPT ![m] = @ \ job[m]["cli"].used]
    BY DEF MergeConsume, storeVars, envVars
  <1>2. copies' \in [Machine -> SUBSET Copy]
    BY <1>1 DEF IndInv, Types
  <1>3. Types'
    BY <1>0, <1>1, <1>2, IdleJob, SetJob DEF IndInv, Types
  <1>4. JobHonest(m, Idle) /\ JobSeen(m, Idle)' /\ JobDisk(m, Idle)'
    BY IdleJob DEF JobHonest, JobSeen, JobDisk, Based, Carrying
  <1>5. ASSUME ~overlap PROVE LiveSeen' /\ OwnSeen'
    <2>1. InTurns
      BY <1>5 DEF IndInv
    <2> QED BY <1>1, <2>1 DEF InTurns, LiveSeen, OwnSeen, RevisionSeen
  <1> QED BY <1>0, <1>1, <1>3, <1>4, <1>5, IdleJob, FileStepKeeps

-----------------------------------------------------------------------------
(* The induction. *)

LEMMA InitHolds == ASSUME Init PROVE IndInv /\ edits \in Nat
  <1>1. Types
    <2>1. SiblingDoc \in Doc
      BY SyncAssumption
    <2>2. sibling \in [Machine -> File] /\ live \in [Machine -> File]
      BY <2>1 DEF Init, File
    <2>3. history \in [Machine -> Seq(Revision)]
      BY DEF Init
    <2>4. job \in [Machine -> [Worker -> Job]]
      BY IdleJob DEF Init
    <2>5. vector \in [Machine -> Vector]
      BY DEF Init, Vector
    <2> QED BY <2>2, <2>3, <2>4, <2>5 DEF Init, Types
  <1>2. \A m \in Machine, w \in Worker : job[m][w] = Idle /\ At(m, w, "idle")
    BY IdleJob DEF Init, At
  <1>3. Honest
    <2>1. \A m \in Machine, w \in Worker : JobHonest(m, job[m][w])
      BY <1>2, IdleInv
    <2>2. \A m \in Machine : Issued(vector[m])
      BY DEF Init, Issued
    <2> QED BY <2>1, <2>2 DEF Init, Honest
  <1>4. InTurns
    <2>1. \A m \in Machine, w \in Worker : JobSeen(m, job[m][w]) /\ JobDisk(m, job[m][w])
      BY <1>2, IdleInv
    <2>2. Exclusive /\ LiveSeen
      BY <1>2 DEF Init, Exclusive, LiveSeen
    <2>3. OwnSeen
      BY DEF Init, OwnSeen
    <2> QED BY <2>1, <2>2, <2>3 DEF InTurns
  <1> QED BY <1>1, <1>3, <1>4 DEF IndInv, Init

LEMMA StutterKeeps == ASSUME IndInv, UNCHANGED vars PROVE IndInv'
  <1>1. UNCHANGED <<live, sibling, copies, vector, history, job, wire, seen, overlap>>
    BY DEF vars, fileVars, storeVars, envVars
  <1>2. Types' /\ Honest'
    BY <1>1 DEF IndInv, Types, Honest, JobHonest, Issued
  <1>3. ASSUME InTurns PROVE InTurns'
    <2>1. Exclusive' /\ LiveSeen' /\ OwnSeen'
      BY <1>1, <1>3 DEF InTurns, Exclusive, Turn, At, LiveSeen, OwnSeen, RevisionSeen
    <2>2. \A m \in Machine, w \in Worker : JobSeen(m, job[m][w])' /\ JobDisk(m, job[m][w])'
      BY <1>1, <1>3 DEF InTurns, JobSeen, JobDisk, OnDisk, Newest
    <2> QED BY <2>1, <2>2 DEF InTurns
  <1> QED BY <1>1, <1>2, <1>3 DEF IndInv

LEMMA NextKeeps == ASSUME IndInv, [Next]_vars PROVE IndInv'
  <1>1. ASSUME NEW m \in Machine, Edit(m) \/ Push(m) \/ Payload(m) \/ Reconcile(m) PROVE IndInv'
    BY <1>1, EditKeeps, PushMoves, CountKeeps, RecordKeeps, PayloadReads, StampKeeps, ReconcileReads,
       AsideKeeps, ReplaceKeeps, ConsumeKeeps DEF Push, Payload, Reconcile
  <1>2. ASSUME NEW m \in Machine, NEW w \in Worker, Receive(m, w) \/ Crash(m, w) PROVE IndInv'
    BY <1>2, ReceiveReads, ReceiveMoves, WriteKeeps, CopyKeeps, LogKeeps, AbsorbKeeps, WorkerDies DEF Receive
  <1> QED BY <1>1, <1>2, StutterKeeps DEF Next

(* The operators' edits are counted. *)
LEMMA EditsCount == ASSUME edits \in Nat, [Next]_vars PROVE edits' \in Nat
  <1>1. ASSUME NEW m \in Machine, ~Edit(m), Push(m) \/ Payload(m) \/ Reconcile(m) PROVE edits' = edits
    BY <1>1 DEF Push, PushRead, PushUnchanged, PushChanged, Count, Record, Payload, PayloadRead, PayloadStamp,
       Reconcile, RevertRead, MergeRead, MergeAside, Replace, MergeConsume, envVars
  <1>2. ASSUME NEW m \in Machine, NEW w \in Worker, Receive(m, w) \/ Crash(m, w) PROVE edits' = edits
    BY <1>2 DEF Receive, ReceiveRead, ReceiveRefuse, ReceiveUpToDate, ReceiveDecide, ReceiveWrite, ReceiveCopy,
       ReceiveLog, ReceiveLogCopy, ReceiveAbsorb, Crash, envVars
  <1>3. ASSUME NEW m \in Machine, Edit(m) PROVE edits' \in Nat
    BY <1>3 DEF Edit
  <1> QED BY <1>1, <1>2, <1>3 DEF Next, vars, envVars

(* The inductive invariant of the sync engine, for every number of machines. *)
THEOREM SyncInvariance == Spec => [](IndInv /\ edits \in Nat)
  <1>1. Init => IndInv /\ edits \in Nat
    BY InitHolds
  <1>2. IndInv /\ edits \in Nat /\ [Next]_vars => (IndInv /\ edits \in Nat)'
    BY NextKeeps, EditsCount
  <1> QED BY <1>1, <1>2, PTL DEF Spec

(* No machine, payload or worker ever believes a counter that was not issued, however
   the workers overlap or die: absorb moves the sender's own counter only, and never
   the receiving machine's. *)
THEOREM HonestTheorem == Spec => []HonestCounters
  <1>1. IndInv => HonestCounters
    <2> SUFFICES ASSUME IndInv PROVE HonestCounters
      OBVIOUS
    <2>1. ASSUME NEW n \in Machine, NEW m \in Machine, NEW w \in Worker, At(m, w, "absorb")
          PROVE  job[m][w].base[n] <= vector[n][n]
      <3>1. JobHonest(m, job[m][w]) /\ job[m][w].pc \in Based
        BY <2>1 DEF IndInv, Honest, At, Based
      <3> QED BY <3>1 DEF JobHonest, Issued
    <2>2. \A n \in Machine : /\ \A m \in Machine : vector[m][n] <= vector[n][n]
                            /\ \A pay \in wire : pay.vector[n] <= vector[n][n]
      BY DEF IndInv, Honest, Issued
    <2> QED BY <2>1, <2>2 DEF HonestCounters
  <1> QED BY <1>1, SyncInvariance, PTL

(* A receive that is about to replace what this machine has published replaces a
   document that the sender, or one whose revision the sender took, had on disk: the
   file is the newest revision, the sender's vector counts it, and every payload that
   counts it knows it.  For workers that take turns, also after one has died. *)
THEOREM SeenTheorem == Spec => []ReplacesOnlySeen
  <1>1. IndInv => ReplacesOnlySeen
    <2> SUFFICES ASSUME IndInv, ~overlap, NEW m \in Machine, NEW w \in Worker,
                        At(m, w, "write"), live[m] # Absent, OwnNewest(m)
                 PROVE  Denormalize(live[m]) \in job[m][w].pay.knows
      BY DEF ReplacesOnlySeen
    <2> DEFINE j == job[m][w]
    <2>1. /\ InTurns /\ j \in Job /\ j.pc = "write"
          /\ live[m] = Newest(m) /\ vector[m][m] <= j.pay.vector[m]
      BY OwnTurn DEF At, JobSeen, IndInv, Types
    <2>2. j.pay \in wire
      BY <2>1 DEF IndInv, Honest, JobHonest, Carrying, Based
    <2>p. PICK i : i = Len(history[m])
      OBVIOUS
    <2>3. history[m] \in Seq(Revision) /\ history[m] # <<>>
      BY DEF IndInv, Types, OwnNewest
    <2>4. i \in 1..Len(history[m]) /\ history[m][i] \in Revision
      BY <2>3, <2>p
    <2>5. RevisionSeen(m, history[m][i]) /\ history[m][i].reason = "own"
      BY <2>1, <2>4, <2>p DEF InTurns, OwnSeen, OwnNewest
    <2>6. history[m][i].counter \in Nat /\ vector[m][m] \in Nat /\ j.pay.vector[m] \in Nat
      <3>1. j.pay \in Packet /\ vector[m] \in Vector
        BY <2>2 DEF IndInv, Types
      <3>2. history[m][i].counter \in Nat
        BY <2>4 DEF Revision
      <3> QED BY <3>1, <3>2 DEF Packet, Vector
    <2>7. history[m][i].counter <= j.pay.vector[m]
      BY <2>1, <2>5, <2>6 DEF RevisionSeen
    <2>8. Denormalize(history[m][i].doc) \in j.pay.knows
      BY <2>2, <2>5, <2>7 DEF RevisionSeen
    <2> QED BY <2>1, <2>3, <2>8, <2>p DEF Newest
  <1> QED BY <1>1, SyncInvariance, PTL

-----------------------------------------------------------------------------
(* What a step takes from the disk. *)

LEMMA RecordedKept ==
    ASSUME NEW m \in Machine, NEW doc \in Recorded(m), UNCHANGED history
    PROVE  Kept(m, doc)'
  <1>1. doc \in Recorded(m)'
    BY DEF Recorded
  <1>2. ~Clash({doc, doc})
    BY DEF Clash
  <1> QED BY <1>1, <1>2 DEF Kept, Clash

LEMMA DiskStays ==
    ASSUME NEW m \in Machine, live'[m] = live[m], copies[m] \subseteq copies'[m]
    PROVE  OnDisk(m) \subseteq OnDisk(m)'
  BY DEF OnDisk

LEMMA WriteTakesRecorded ==
    ASSUME IndInv, ~overlap, NEW m \in Machine, NEW w \in Worker, ReceiveWrite(m, w), NEW doc \in OnDisk(m)
    PROVE  doc \in OnDisk(m)' \/ Kept(m, doc)'
  <1>1. UNCHANGED <<copies, history>> /\ live[m] \in {Absent, Newest(m)}
    BY OwnTurn DEF ReceiveWrite, At, JobSeen, storeVars
  <1>2. CASE \E c \in copies[m] : doc = c.doc
    BY <1>1, <1>2 DEF OnDisk
  <1>3. CASE doc = live[m] /\ live[m] # Absent
    <2>1. history[m] \in Seq(Revision) /\ history[m] # <<>> /\ doc = history[m][Len(history[m])].doc
      BY <1>1, <1>3 DEF IndInv, Types, Newest
    <2>2. doc \in Recorded(m)
      BY <2>1 DEF Recorded
    <2> QED BY <1>1, <2>2, RecordedKept
  <1> QED BY <1>2, <1>3 DEF OnDisk

LEMMA CopyTakesRecorded ==
    ASSUME IndInv, NEW m \in Machine, NEW w \in Worker, ReceiveCopy(m, w), NEW doc \in OnDisk(m)
    PROVE  doc \in OnDisk(m)' \/ Kept(m, doc)'
  <1> DEFINE new == [from |-> job[m][w].pay.machine, doc |-> job[m][w].doc]
  <1>1. UNCHANGED <<live, history>> /\ copies \in [Machine -> SUBSET Copy]
    BY DEF ReceiveCopy, storeVars, IndInv, Types
  <1>2. CASE copies' = [copies EXCEPT ![m] = @ \cup {new}]
    BY <1>1, <1>2, DiskStays
  <1>3. ASSUME NEW old \in copies[m], old.doc \in Recorded(m),
               copies' = [copies EXCEPT ![m] = (@ \ {old}) \cup {new}]
        PROVE  doc \in OnDisk(m)' \/ Kept(m, doc)'
    <2>1. copies[m] \ {old} \subseteq copies'[m]
      BY <1>1, <1>3
    <2>2. CASE doc = old.doc
      BY <1>1, <1>3, <2>2, RecordedKept
    <2>3. CASE doc # old.doc
      BY <1>1, <2>1, <2>3 DEF OnDisk
    <2> QED BY <2>2, <2>3
  <1> QED BY <1>2, <1>3 DEF ReceiveCopy

LEMMA MergeTakesCovered ==
    ASSUME IndInv, ~overlap, NEW m \in Machine, Replace(m) \/ MergeConsume(m),
           job[m]["cli"].op # "revert", NEW doc \in OnDisk(m)
    PROVE  doc \in OnDisk(m)' \/ Kept(m, doc)'
  <1> DEFINE j == job[m]["cli"]
  <1>0. "cli" \in Worker /\ j \in Job
    BY DEF Worker, IndInv, Types
  <1>1. CASE Replace(m)
    <2>1. /\ j.pc = "replace" /\ UNCHANGED <<copies, history>>
          /\ live' = [live EXCEPT ![m] = j.doc]
      BY <1>1 DEF Replace, At, storeVars
    <2>2. Covers(j.doc, doc) /\ j.doc \in Doc
      BY <1>0, <2>1, JobAt, OwnTurn DEF JobDisk, At, Local, Merging
    <2>3. live'[m] = j.doc /\ j.doc # Absent
      BY <2>1, <2>2, SyncAssumption DEF IndInv, Types
    <2> QED BY <2>2, <2>3 DEF Kept, Covers, Clash
  <1>2. CASE MergeConsume(m)
    <2>1. /\ j.pc = "consume" /\ UNCHANGED <<live, history>>
          /\ copies' = [copies EXCEPT ![m] = @ \ j.used]
      BY <1>2 DEF MergeConsume, At, storeVars
    <2>2. j.op = "merge"
      BY <1>0, <2>1, JobAt DEF Consuming
    <2>3. live[m] # Absent /\ \A c \in j.used : Covers(live[m], c.doc)
      BY <1>0, <2>1, <2>2, OwnTurn DEF JobDisk, At
    <2>4. copies'[m] = copies[m] \ j.used
      BY <2>1 DEF IndInv, Types
    <2>5. CASE \E c \in j.used : doc = c.doc
      BY <2>1, <2>3, <2>5 DEF Kept, Covers, Clash
    <2>6. CASE ~\E c \in j.used : doc = c.doc
      BY <2>1, <2>4, <2>6 DEF OnDisk
    <2> QED BY <2>5, <2>6
  <1> QED BY <1>1, <1>2

(* Every other step leaves the disk of a machine alone, or is the operator's. *)
LEMMA DiskUntouched ==
    ASSUME IndInv, [Next]_vars, NEW m \in Machine
    PROVE  \/ live'[m] = live[m] /\ copies'[m] = copies[m]
           \/ Edit(m) \/ Replace(m) \/ MergeConsume(m)
           \/ \E w \in Worker : ReceiveWrite(m, w) \/ ReceiveCopy(m, w)
  <1> DEFINE Same(n) == live'[n] = live[n] /\ copies'[n] = copies[n]
  <1>1. live \in [Machine -> File] /\ copies \in [Machine -> SUBSET Copy]
    BY DEF IndInv, Types
  <1>2. ASSUME NEW n \in Machine, Edit(n) \/ Push(n) \/ Payload(n) \/ Reconcile(n)
        PROVE  Same(m) \/ (n = m /\ (Edit(m) \/ Replace(m) \/ MergeConsume(m)))
    BY <1>1, <1>2 DEF Edit, Push, PushRead, PushUnchanged, PushChanged, Count, Record, Payload, PayloadRead,
       PayloadStamp, Reconcile, RevertRead, MergeRead, MergeAside, Replace, MergeConsume, fileVars
  <1>3. ASSUME NEW n \in Machine, NEW w \in Worker, Receive(n, w) \/ Crash(n, w)
        PROVE  Same(m) \/ (n = m /\ (ReceiveWrite(m, w) \/ ReceiveCopy(m, w)))
    BY <1>1, <1>3 DEF Receive, ReceiveRead, ReceiveRefuse, ReceiveUpToDate, ReceiveDecide, ReceiveWrite,
       ReceiveCopy, ReceiveLog, ReceiveLogCopy, ReceiveAbsorb, Crash, fileVars
  <1> QED BY <1>2, <1>3 DEF Next, vars, fileVars

(* A receive or a merge takes from the disk only what the file or the history keeps,
   the revert that an operator asks for apart: receive replaces the newest revision,
   merge removes the copies whose every key is in the file it has written. *)
THEOREM TakenTheorem == Spec => NothingTakenAway
  <1> DEFINE Step == \A m \in Machine :
                       ~overlap /\ edits' = edits /\ (job[m]["cli"] # Idle => job[m]["cli"].op # "revert")
                         => \A doc \in OnDisk(m) : doc \in OnDisk(m)' \/ Kept(m, doc)'
  <1>1. ASSUME IndInv, edits \in Nat, [Next]_vars PROVE Step
    <2> SUFFICES ASSUME NEW m \in Machine, ~overlap, edits' = edits,
                        job[m]["cli"] # Idle => job[m]["cli"].op # "revert", NEW doc \in OnDisk(m)
                 PROVE  doc \in OnDisk(m)' \/ Kept(m, doc)'
      OBVIOUS
    <2>1. CASE live'[m] = live[m] /\ copies'[m] = copies[m]
      BY <2>1, DiskStays
    <2>2. CASE Edit(m)
      BY <1>1, <2>2 DEF Edit
    <2>3. CASE Replace(m) \/ MergeConsume(m)
      <3>1. job[m]["cli"] # Idle
        BY <2>3, IdleJob DEF Replace, MergeConsume, At
      <3> QED BY <1>1, <2>3, <3>1, MergeTakesCovered
    <2>4. CASE \E w \in Worker : ReceiveWrite(m, w) \/ ReceiveCopy(m, w)
      BY <1>1, <2>4, WriteTakesRecorded, CopyTakesRecorded
    <2> QED BY <1>1, <2>1, <2>2, <2>3, <2>4, DiskUntouched
  <1>2. (IndInv /\ edits \in Nat) /\ [Next]_vars => [Step]_vars
    BY <1>1
  <1> QED BY <1>2, SyncInvariance, PTL DEF Spec, NothingTakenAway

================================================================================
