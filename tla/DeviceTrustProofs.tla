--------------------------- MODULE DeviceTrustProofs ---------------------------
(***************************************************************************)
(* "Stolen phone, one command", and a rotation that locks nobody out, for  *)
(* every number of devices, operators, certificates and deaths, when no    *)
(* process writes between the read and the write of another and a rotation *)
(* moves onto a fresh key.  Without the first, touch writes an old record  *)
(* back; without the second, rotate pins a revoked key anew.  IndInv says  *)
(* why nothing else can: the one writer that is under way works on a       *)
(* device that was not reported, and what touch has read is still the      *)
(* record.  LockInv adds what each command has done so far to the keys     *)
(* that a begun rotation counts on.  That the ledger is filled once, ever, *)
(* needs neither condition.                                                *)
(***************************************************************************)
EXTENDS DeviceTrust, Pairing, TLAPS

Row == [revoked : BOOLEAN, retired : BOOLEAN]
Record == Row \union {NoRow}

Ops == {"none", "issue", "rotate", "revoke"}
Ats == {"idle", "open", "write", "upsert", "grant", "retire", "remove"}

Job ==
    [op : Ops, at : Ats, dev : Devices \union {NoRow}, to : Devices \union {NoRow}, old : Record]

Types ==
    /\ row \in [Devices -> Record] /\ seen \in [Devices -> Record]
    /\ session \in [Devices -> {"none", "resolved", "touching", "open", "frame", "busy"}]
    /\ job \in [Operators -> Job]
    /\ reported \subseteq Devices

Cutoff(d) == row[d] # NoRow /\ row[d].revoked

Reported == \A d \in reported : Cutoff(d)

(* A command that pins or retires does so with devices that were not reported; one
   that is about to report has revoked. *)
JobInv(o) ==
    job[o].at # "idle" =>
      /\ job[o].dev \in Devices /\ job[o].to \in Devices
      /\ job[o].at \in {"open", "write", "upsert"} =>
           job[o].op \in {"issue", "rotate"} /\ job[o].to \notin reported
      /\ job[o].op = "rotate" => job[o].old \in Row /\ job[o].dev \notin reported
      /\ job[o].at = "retire" => job[o].op = "rotate"
      /\ job[o].op = "revoke" => Cutoff(job[o].dev)

(* One reader-then-writer at a time. *)
Alone ==
    /\ \A o1, o2 \in Operators : job[o1].at # "idle" /\ job[o2].at # "idle" => o1 = o2
    /\ \A o \in Operators, d \in Devices : job[o].at # "idle" => session[d] # "touching"
    /\ \A d1, d2 \in Devices : session[d1] = "touching" /\ session[d2] = "touching" => d1 = d2

Fresh == \A d \in Devices : session[d] = "touching" => seen[d] = row[d]

IndInv ==
    /\ Types /\ Reported /\ Alone /\ Fresh
    /\ \A o \in Operators : JobInv(o)
    /\ RevokedNeverServed

-----------------------------------------------------------------------------
(* Nothing is stored, open or reported at the start. *)
LEMMA InitHolds == Init => IndInv
  <1> SUFFICES ASSUME Init PROVE IndInv
    OBVIOUS
  <1> USE DEF Init
  <1>1. Idle \in Job /\ Idle.at = "idle"
    BY DEF Idle, Job, Ops, Ats, Record
  <1>2. Types
    BY <1>1 DEF Types, Record
  <1>3. \A o \in Operators : job[o].at = "idle"
    BY <1>1
  <1>4. Reported /\ Fresh /\ RevokedNeverServed
    BY DEF Reported, Fresh, RevokedNeverServed
  <1>5. Alone /\ \A o \in Operators : JobInv(o)
    BY <1>3 DEF Alone, JobInv
  <1> QED BY <1>2, <1>4, <1>5 DEF IndInv

LEMMA IdleJob == Idle \in Job /\ Idle.at = "idle"
  BY DEF Idle, Job, Ops, Ats, Record

(* A command that moves on, and one that ends. *)
LEMMA Stepped ==
    ASSUME Types, NEW o \in Operators, NEW at \in Ats, Step(o, at)
    PROVE  /\ job' \in [Operators -> Job]
           /\ job'[o].at = at /\ job'[o].op = job[o].op /\ job'[o].dev = job[o].dev
           /\ job'[o].to = job[o].to /\ job'[o].old = job[o].old
           /\ \A q \in Operators \ {o} : job'[q] = job[q]
  <1>1. job[o] \in Job /\ job \in [Operators -> Job]
    BY DEF Types
  <1>2. job' = [job EXCEPT ![o] = [job[o] EXCEPT !.at = at]]
    BY DEF Step
  <1>3. /\ [job[o] EXCEPT !.at = at] \in Job
        /\ [job[o] EXCEPT !.at = at].at = at
        /\ [job[o] EXCEPT !.at = at].op = job[o].op
        /\ [job[o] EXCEPT !.at = at].dev = job[o].dev
        /\ [job[o] EXCEPT !.at = at].to = job[o].to
        /\ [job[o] EXCEPT !.at = at].old = job[o].old
    BY <1>1 DEF Job
  <1> QED BY <1>1, <1>2, <1>3

LEMMA Ended ==
    ASSUME Types, NEW o \in Operators, Done(o)
    PROVE  /\ job' \in [Operators -> Job] /\ job'[o].at = "idle"
           /\ \A q \in Operators \ {o} : job'[q] = job[q]
  BY IdleJob DEF Types, Done

(* A revoked device does not get through the gate of a verb. *)
LEMMA GateHolds ==
    ASSUME IndInv, NEW d \in Devices, Passes(d)
    PROVE  d \notin reported
  BY DEF IndInv, Reported, Cutoff, Passes, Authorized, MayConnect

(* Nobody is between a read and a write when a command begins. *)
LEMMA Quiet ==
    ASSUME ~Overlaps, MayBegin
    PROVE  /\ \A o \in Operators : job[o].at = "idle"
           /\ \A d \in Devices : session[d] # "touching"
  BY DEF MayBegin, Busy

(* Nobody but the command o is between a read and a write. *)
Sole(o) ==
    /\ \A q \in Operators \ {o} : job[q].at = "idle"
    /\ \A d \in Devices : session[d] # "touching"

LEMMA SoleBegins ==
    ASSUME ~Overlaps, MayBegin, NEW o \in Operators
    PROVE  Sole(o)
  BY Quiet DEF Sole

LEMMA SoleGoesOn ==
    ASSUME IndInv, NEW o \in Operators, job[o].at # "idle"
    PROVE  Sole(o)
  BY DEF IndInv, Alone, Sole

(* What is left to show of a step of the only command under way. *)
LEMMA CommandKept ==
    ASSUME IndInv, NEW o \in Operators, Sole(o), UNCHANGED <<session, seen, after>>,
           row' \in [Devices -> Record], job' \in [Operators -> Job], reported' \subseteq Devices,
           Reported', JobInv(o)', \A q \in Operators \ {o} : job'[q] = job[q]
    PROVE  IndInv'
  <1>1. Types'
    BY DEF IndInv, Types
  <1>2. \A q \in Operators \ {o} : job'[q].at = "idle"
    BY DEF Sole
  <1>3. \A d \in Devices : session'[d] # "touching"
    BY DEF Sole
  <1>4. Alone' /\ Fresh'
    BY <1>2, <1>3 DEF Alone, Fresh
  <1>5. \A q \in Operators : JobInv(q)'
    <2> SUFFICES ASSUME NEW q \in Operators PROVE JobInv(q)'
      OBVIOUS
    <2>1. CASE q = o
      BY <2>1
    <2>2. CASE q # o
      BY <2>2, <1>2 DEF JobInv
    <2> QED BY <2>1, <2>2
  <1>6. RevokedNeverServed'
    BY DEF IndInv, RevokedNeverServed
  <1> QED BY <1>1, <1>4, <1>5, <1>6 DEF IndInv

(* A step that leaves the records and the commands alone. *)
LEMMA SessionKept ==
    ASSUME IndInv, UNCHANGED <<row, job, reported>>, Types', Alone', Fresh', RevokedNeverServed'
    PROVE  IndInv'
  <1>1. Reported' /\ \A o \in Operators : JobInv(o)'
    BY DEF IndInv, Reported, JobInv, Cutoff
  <1> QED BY <1>1 DEF IndInv

-----------------------------------------------------------------------------
(* The certificates and the grants are not part of the argument. *)
LEMMA StoreKept ==
    ASSUME IndInv, UNCHANGED <<row, job, reported, session, seen, after>>
    PROVE  IndInv'
  BY SessionKept DEF IndInv, Types, Alone, Fresh, RevokedNeverServed

(* issue and rotate begin on keys that are not reported. *)
LEMMA IssueKeeps ==
    ASSUME IndInv, ~Overlaps, NEW o \in Operators, NEW d \in Devices, Issue(o, d)
    PROVE  IndInv'
  <1>1. Sole(o)
    BY SoleBegins DEF Issue
  <1>2. UNCHANGED <<row, session, seen, after, reported>>
    BY DEF Issue, store, server
  <1> DEFINE j == [op |-> "issue", at |-> "open", dev |-> d, to |-> d, old |-> NoRow]
  <1>3. j \in Job /\ j.op = "issue" /\ j.at = "open" /\ j.dev = d /\ j.to = d
    BY DEF Job, Ops, Ats, Record
  <1>4. job' = [job EXCEPT ![o] = j] /\ job \in [Operators -> Job]
    BY DEF Issue, IndInv, Types
  <1> HIDE DEF j
  <1>5. job' \in [Operators -> Job] /\ job'[o] = j /\ \A q \in Operators \ {o} : job'[q] = job[q]
    BY <1>3, <1>4
  <1>6. d \notin reported
    BY DEF Issue, MayPin, MayConnect, IndInv, Reported, Cutoff
  <1>7. JobInv(o)'
    BY <1>2, <1>3, <1>5, <1>6 DEF JobInv
  <1>8. Reported' /\ row' \in [Devices -> Record] /\ reported' \subseteq Devices
    BY <1>2 DEF IndInv, Types, Reported, Cutoff
  <1> QED BY <1>1, <1>2, <1>5, <1>7, <1>8, CommandKept

LEMMA RotateKeeps ==
    ASSUME IndInv, ~Overlaps, FreshKeys, NEW o \in Operators, NEW d \in Devices, NEW n \in Devices,
           Rotate(o, d, n)
    PROVE  IndInv'
  <1>1. Sole(o)
    BY SoleBegins DEF Rotate
  <1>2. UNCHANGED <<row, session, seen, after, reported>>
    BY DEF Rotate, store, server
  <1> DEFINE j == [op |-> "rotate", at |-> "open", dev |-> d, to |-> n, old |-> row[d]]
  <1>3. row[d] \in Row /\ row[d] \in Record
    BY DEF Rotate, IndInv, Types, Record
  <1>4. j \in Job /\ j.op = "rotate" /\ j.at = "open" /\ j.dev = d /\ j.to = n /\ j.old = row[d]
    BY <1>3 DEF Job, Ops, Ats
  <1>5. job' = [job EXCEPT ![o] = j] /\ job \in [Operators -> Job]
    BY DEF Rotate, First, IndInv, Types
  <1> HIDE DEF j
  <1>6. job' \in [Operators -> Job] /\ job'[o] = j /\ \A q \in Operators \ {o} : job'[q] = job[q]
    BY <1>4, <1>5
  <1>7. d \notin reported /\ n \notin reported
    BY DEF Rotate, IndInv, Reported, Cutoff
  <1>8. JobInv(o)'
    BY <1>2, <1>3, <1>4, <1>6, <1>7 DEF JobInv
  <1>9. Reported' /\ row' \in [Devices -> Record] /\ reported' \subseteq Devices
    BY <1>2 DEF IndInv, Types, Reported, Cutoff
  <1> QED BY <1>1, <1>2, <1>6, <1>8, <1>9, CommandKept

(* revoke: the record first, and the second time only the answer. *)
LEMMA RevokeKeeps ==
    ASSUME IndInv, ~Overlaps, NEW o \in Operators, NEW d \in Devices, Revoke(o, d)
    PROVE  IndInv'
  <1>1. Sole(o) /\ job[o].at = "idle"
    BY SoleBegins DEF Revoke
  <1>2. UNCHANGED <<session, seen, after>>
    BY DEF Revoke, server
  <1>3. CASE row[d].revoked
    <2>1. reported' = reported \union {d} /\ UNCHANGED <<row, job>> /\ Cutoff(d)
      BY <1>3 DEF Revoke, Cutoff
    <2>2. Reported' /\ row' \in [Devices -> Record] /\ reported' \subseteq Devices
      BY <2>1 DEF IndInv, Types, Reported, Cutoff
    <2>3. JobInv(o)'
      BY <1>1, <2>1 DEF JobInv
    <2>4. job' \in [Operators -> Job] /\ \A q \in Operators \ {o} : job'[q] = job[q]
      BY <2>1 DEF IndInv, Types
    <2> QED BY <1>1, <1>2, <2>2, <2>3, <2>4, CommandKept
  <1>4. CASE ~row[d].revoked
    <2> DEFINE j == [op |-> "revoke", at |-> "remove", dev |-> d, to |-> d, old |-> NoRow]
               r == [row[d] EXCEPT !.revoked = TRUE]
    <2>1. j \in Job /\ j.op = "revoke" /\ j.at = "remove" /\ j.dev = d /\ j.to = d
      BY DEF Job, Ops, Ats, Record
    <2>2. row \in [Devices -> Record] /\ row[d] \in Row
      BY DEF Revoke, IndInv, Types, Record
    <2>3. r \in Row /\ r.revoked
      BY <2>2 DEF Row
    <2>4. r # NoRow
      BY <2>3, TrustAssumption DEF Row
    <2>5. /\ row' = [row EXCEPT ![d] = r] /\ job' = [job EXCEPT ![o] = j] /\ reported' = reported
          /\ job \in [Operators -> Job]
      BY <1>4 DEF Revoke, IndInv, Types
    <2> HIDE DEF j, r
    <2>6. job' \in [Operators -> Job] /\ job'[o] = j /\ \A q \in Operators \ {o} : job'[q] = job[q]
      BY <2>1, <2>5
    <2>7. row' \in [Devices -> Record] /\ row'[d] = r /\ \A e \in Devices \ {d} : row'[e] = row[e]
      BY <2>2, <2>3, <2>5 DEF Record
    <2>8. Reported' /\ reported' \subseteq Devices
      BY <2>3, <2>4, <2>5, <2>7 DEF IndInv, Types, Reported, Cutoff
    <2>9. JobInv(o)'
      BY <2>1, <2>3, <2>4, <2>6, <2>7 DEF JobInv, Cutoff
    <2> QED BY <1>1, <1>2, <2>6, <2>7, <2>8, <2>9, CommandKept
  <1> QED BY <1>3, <1>4

-----------------------------------------------------------------------------
(* The steps of a command under way. *)
LEMMA FileStepKeeps ==
    ASSUME IndInv, NEW o \in Operators, PinOpen(o) \/ PinWrite(o)
    PROVE  IndInv'
  <1>1. job[o].at \in {"open", "write"} /\ (Step(o, "write") \/ Step(o, "upsert"))
    BY DEF PinOpen, PinWrite
  <1>2. UNCHANGED <<row, session, seen, after, reported>>
    BY DEF PinOpen, PinWrite, server, told
  <1>3. Sole(o)
    BY <1>1, SoleGoesOn
  <1>4. /\ job' \in [Operators -> Job] /\ job'[o].at \in {"write", "upsert"}
        /\ job'[o].op = job[o].op /\ job'[o].dev = job[o].dev
        /\ job'[o].to = job[o].to /\ job'[o].old = job[o].old
        /\ \A q \in Operators \ {o} : job'[q] = job[q]
    <2>1. Types /\ "write" \in Ats /\ "upsert" \in Ats
      BY DEF IndInv, Ats
    <2> QED BY <1>1, <2>1, Stepped
  <1>5. JobInv(o)'
    BY <1>1, <1>2, <1>4 DEF IndInv, JobInv, Cutoff
  <1>6. Reported' /\ row' \in [Devices -> Record] /\ reported' \subseteq Devices
    BY <1>2 DEF IndInv, Types, Reported, Cutoff
  <1> QED BY <1>2, <1>3, <1>4, <1>5, <1>6, CommandKept

(* The record of the new key replaces one that was not reported. *)
LEMMA UpsertKeeps ==
    ASSUME IndInv, NEW o \in Operators, PinUpsert(o)
    PROVE  IndInv'
  <1> DEFINE r == [revoked |-> FALSE, retired |-> FALSE]
  <1>1. job[o].at = "upsert" /\ row' = [row EXCEPT ![job[o].to] = r]
    BY DEF PinUpsert
  <1>2. UNCHANGED <<session, seen, after, reported>>
    BY DEF PinUpsert, server, told
  <1>3. Sole(o)
    BY <1>1, SoleGoesOn
  <1>4. r \in Row
    BY DEF Row
  <1> HIDE DEF r
  <1>5. /\ job[o].op \in {"issue", "rotate"} /\ job[o].to \notin reported
        /\ job[o].dev \in Devices /\ job[o].to \in Devices
        /\ job[o].op = "rotate" => job[o].old \in Row /\ job[o].dev \notin reported
    BY <1>1 DEF IndInv, JobInv
  <1>6. row' \in [Devices -> Record] /\ \A e \in Devices \ {job[o].to} : row'[e] = row[e]
    BY <1>1, <1>4, <1>5 DEF IndInv, Types, Record
  <1>7. Reported' /\ reported' \subseteq Devices
    BY <1>2, <1>5, <1>6 DEF IndInv, Types, Reported, Cutoff
  <1>8. /\ job' \in [Operators -> Job] /\ job'[o].at = IF job[o].op = "issue" THEN "grant" ELSE "retire"
        /\ job'[o].op = job[o].op /\ job'[o].dev = job[o].dev
        /\ job'[o].to = job[o].to /\ job'[o].old = job[o].old
        /\ \A q \in Operators \ {o} : job'[q] = job[q]
    <2>1. Types /\ "grant" \in Ats /\ "retire" \in Ats
      BY DEF IndInv, Ats
    <2>2. CASE job[o].op = "issue"
      BY <2>1, <2>2, Stepped DEF PinUpsert
    <2>3. CASE job[o].op # "issue"
      BY <2>1, <2>3, Stepped DEF PinUpsert, First
    <2> QED BY <2>2, <2>3
  <1>9. JobInv(o)'
    BY <1>2, <1>5, <1>8 DEF JobInv
  <1> QED BY <1>2, <1>3, <1>6, <1>7, <1>8, <1>9, CommandKept

(* rotate writes the old record back, and it was not reported since it was read. *)
LEMMA RetireKeeps ==
    ASSUME IndInv, NEW o \in Operators, Retire(o)
    PROVE  IndInv'
  <1> DEFINE r == [job[o].old EXCEPT !.retired = TRUE, !.revoked = FALSE]
  <1>1. job[o].at = "retire" /\ row' = [row EXCEPT ![job[o].dev] = r] /\ Step(o, "remove")
    BY DEF Retire
  <1>2. UNCHANGED <<session, seen, after, reported>>
    BY DEF Retire, server, told
  <1>3. Sole(o)
    BY <1>1, SoleGoesOn
  <1>4. /\ job[o].op = "rotate" /\ job[o].dev \in Devices /\ job[o].to \in Devices
        /\ job[o].old \in Row /\ job[o].dev \notin reported
    BY <1>1 DEF IndInv, JobInv
  <1>5. r \in Row
    BY <1>4 DEF Row
  <1> HIDE DEF r
  <1>6. row' \in [Devices -> Record] /\ \A e \in Devices \ {job[o].dev} : row'[e] = row[e]
    BY <1>1, <1>4, <1>5 DEF IndInv, Types, Record
  <1>7. Reported' /\ reported' \subseteq Devices
    BY <1>2, <1>4, <1>6 DEF IndInv, Types, Reported, Cutoff
  <1>8. /\ job' \in [Operators -> Job] /\ job'[o].at = "remove"
        /\ job'[o].op = job[o].op /\ job'[o].dev = job[o].dev
        /\ job'[o].to = job[o].to /\ job'[o].old = job[o].old
        /\ \A q \in Operators \ {o} : job'[q] = job[q]
    <2>1. Types /\ "remove" \in Ats
      BY DEF IndInv, Ats
    <2> QED BY <1>1, <2>1, Stepped
  <1>9. JobInv(o)'
    BY <1>2, <1>4, <1>8 DEF JobInv
  <1> QED BY <1>2, <1>3, <1>6, <1>7, <1>8, <1>9, CommandKept

(* A command ends, and a revocation says so: its device is revoked. *)
LEMMA EndKeeps ==
    ASSUME IndInv, NEW o \in Operators, Grant(o) \/ Remove(o) \/ CommandDies(o)
    PROVE  IndInv'
  <1>1. job[o].at # "idle" /\ Done(o)
    BY DEF Grant, Remove, CommandDies, First
  <1>2. UNCHANGED <<row, session, seen, after>>
    BY DEF Grant, Remove, CommandDies, server, store, told
  <1>3. reported' = reported \/ (reported' = reported \union {job[o].dev} /\ job[o].op = "revoke")
    BY DEF Grant, Remove, CommandDies, told
  <1>4. Sole(o)
    BY <1>1, SoleGoesOn
  <1>5. job[o].dev \in Devices /\ (job[o].op = "revoke" => Cutoff(job[o].dev))
    BY <1>1 DEF IndInv, JobInv
  <1>6. Reported' /\ row' \in [Devices -> Record] /\ reported' \subseteq Devices
    BY <1>2, <1>3, <1>5 DEF IndInv, Types, Reported, Cutoff
  <1>7. /\ job' \in [Operators -> Job] /\ job'[o].at = "idle"
        /\ \A q \in Operators \ {o} : job'[q] = job[q]
    BY <1>1, Ended DEF IndInv
  <1>8. JobInv(o)'
    BY <1>7 DEF JobInv
  <1> QED BY <1>2, <1>4, <1>6, <1>7, <1>8, CommandKept

-----------------------------------------------------------------------------
(* The daemon and its sessions. *)

(* A session moves, and not into touch. *)
LEMMA MoveKeeps ==
    ASSUME IndInv, NEW d \in Devices, NEW to \in {"none", "resolved", "open", "frame", "busy"},
           session' = [session EXCEPT ![d] = to],
           UNCHANGED <<row, seen, job, reported, after>>
    PROVE  IndInv'
  <1>1. /\ session' \in [Devices -> {"none", "resolved", "touching", "open", "frame", "busy"}]
        /\ \A e \in Devices : session'[e] = "touching" => session[e] = "touching"
    BY DEF IndInv, Types
  <1>2. Types'
    BY <1>1 DEF IndInv, Types
  <1>3. Alone' /\ Fresh' /\ RevokedNeverServed'
    BY <1>1 DEF IndInv, Alone, Fresh, RevokedNeverServed
  <1> QED BY <1>2, <1>3, SessionKept

LEMMA AdmitKeeps ==
    ASSUME IndInv, ~Overlaps, NEW d \in Devices, Admit(d)
    PROVE  IndInv'
  <1>1. UNCHANGED <<row, job, reported, after>>
    BY DEF Admit, store, told
  <1>2. CASE Admits(d)
    <2>1. /\ MayBegin /\ session' = [session EXCEPT ![d] = "touching"]
          /\ seen' = [seen EXCEPT ![d] = row[d]]
      BY <1>2 DEF Admit
    <2>2. /\ \A o \in Operators : job[o].at = "idle"
          /\ \A e \in Devices : session[e] # "touching"
      BY <2>1, Quiet
    <2>3. /\ session' \in [Devices -> {"none", "resolved", "touching", "open", "frame", "busy"}]
          /\ seen' \in [Devices -> Record]
          /\ seen'[d] = row[d] /\ \A e \in Devices : session'[e] = "touching" => e = d
      BY <2>1, <2>2 DEF IndInv, Types
    <2>4. Types'
      BY <1>1, <2>3 DEF IndInv, Types
    <2>5. Alone' /\ Fresh' /\ RevokedNeverServed'
      BY <1>1, <2>2, <2>3 DEF IndInv, Alone, Fresh, RevokedNeverServed
    <2> QED BY <1>1, <2>4, <2>5, SessionKept
  <1>3. CASE ~Admits(d)
    BY <1>1, <1>3, MoveKeeps DEF Admit
  <1> QED BY <1>2, <1>3

(* touch writes back what is there. *)
LEMMA TouchKeeps ==
    ASSUME IndInv, NEW d \in Devices, Touch(d)
    PROVE  IndInv'
  <1>1. session[d] = "touching" /\ seen[d] = row[d] /\ row \in [Devices -> Record]
    BY DEF Touch, IndInv, Fresh, Types
  <1>2. row' = row
    BY <1>1 DEF Touch
  <1>3. /\ session' = [session EXCEPT ![d] = "open"] /\ seen' = [seen EXCEPT ![d] = NoRow]
        /\ UNCHANGED <<job, reported, after>>
    BY DEF Touch, told
  <1>4. /\ session' \in [Devices -> {"none", "resolved", "touching", "open", "frame", "busy"}]
        /\ seen' \in [Devices -> Record]
        /\ session'[d] = "open"
        /\ \A e \in Devices \ {d} : session'[e] = session[e] /\ seen'[e] = seen[e]
    BY <1>3 DEF IndInv, Types, Record
  <1>5. Types'
    BY <1>2, <1>3, <1>4 DEF IndInv, Types
  <1>6. Alone' /\ Fresh' /\ RevokedNeverServed'
    BY <1>2, <1>3, <1>4 DEF IndInv, Alone, Fresh, RevokedNeverServed
  <1> QED BY <1>2, <1>3, <1>5, <1>6, SessionKept

(* A verb that runs is not that of a reported device. *)
LEMMA VerbKeeps ==
    ASSUME IndInv, NEW d \in Devices, Verb(d) \/ Stream(d)
    PROVE  IndInv'
  <1>1. after' = after
    <2>1. CASE Passes(d)
      BY <2>1, GateHolds DEF Verb, Stream, Served
    <2>2. CASE ~Passes(d)
      BY <2>2 DEF Verb, Stream
    <2> QED BY <2>1, <2>2
  <1>2. UNCHANGED <<row, seen, job, reported>>
    BY DEF Verb, Stream, store
  <1>3. \/ session' = [session EXCEPT ![d] = "open"]
        \/ session' = [session EXCEPT ![d] = "busy"]
    BY DEF Verb, Stream
  <1> QED BY <1>1, <1>2, <1>3, MoveKeeps

LEMMA SessionStepKeeps ==
    ASSUME IndInv, ~Overlaps, NEW d \in Devices, Session(d)
    PROVE  IndInv'
  <1>1. CASE Resolve(d)
    BY <1>1, MoveKeeps DEF Resolve, store, told
  <1>2. CASE Frame(d)
    BY <1>2, MoveKeeps DEF Frame, store, told
  <1>3. CASE StreamEnds(d)
    BY <1>3, MoveKeeps DEF StreamEnds, store, told
  <1>4. CASE Tick(d)
    BY <1>4, MoveKeeps DEF Tick, store, told
  <1>5. CASE Leave(d)
    BY <1>5, MoveKeeps DEF Leave, store, told
  <1> QED BY <1>1, <1>2, <1>3, <1>4, <1>5, AdmitKeeps, TouchKeeps, VerbKeeps DEF Session

LEMMA DaemonDiesKeeps ==
    ASSUME IndInv, DaemonDies
    PROVE  IndInv'
  <1>1. UNCHANGED <<row, job, reported, after>>
    BY DEF DaemonDies, store, told
  <1>2. session' = [d \in Devices |-> "none"] /\ seen' = [d \in Devices |-> NoRow]
    BY DEF DaemonDies
  <1>3. Types'
    BY <1>1, <1>2 DEF IndInv, Types, Record
  <1>4. Alone' /\ Fresh' /\ RevokedNeverServed'
    BY <1>1, <1>2 DEF IndInv, Alone, Fresh, RevokedNeverServed
  <1> QED BY <1>1, <1>3, <1>4, SessionKept

-----------------------------------------------------------------------------
(* Every step of the commands, the daemon and its sessions keeps IndInv. *)
LEMMA NextKeeps == ASSUME ~Overlaps, FreshKeys PROVE IndInv /\ [Next]_vars => IndInv'
  <1> SUFFICES ASSUME IndInv, [Next]_vars PROVE IndInv'
    OBVIOUS
  <1>1. ASSUME NEW o \in Operators, Command(o) PROVE IndInv'
    <2>1. ASSUME NEW d \in Devices, Issue(o, d) \/ Revoke(o, d) PROVE IndInv'
      BY <2>1, IssueKeeps, RevokeKeeps
    <2>2. ASSUME NEW d \in Devices, Trust(o, d) \/ Cut(o, d) PROVE IndInv'
      BY <2>2, StoreKept DEF Trust, Cut, server, told
    <2>3. ASSUME NEW d \in Devices, NEW n \in Devices, Rotate(o, d, n) PROVE IndInv'
      BY <2>3, RotateKeeps
    <2>4. CASE PinOpen(o) \/ PinWrite(o) \/ PinUpsert(o) \/ Retire(o)
      BY <2>4, FileStepKeeps, UpsertKeeps, RetireKeeps
    <2>5. CASE Grant(o) \/ Remove(o) \/ CommandDies(o)
      BY <2>5, EndKeeps
    <2> QED BY <1>1, <2>1, <2>2, <2>3, <2>4, <2>5 DEF Command
  <1>2. ASSUME NEW d \in Devices, Session(d) PROVE IndInv'
    BY <1>2, SessionStepKeeps
  <1>3. ASSUME NEW d \in Devices, Backfill(d) PROVE IndInv'
    BY <1>3, StoreKept DEF Backfill, told
  <1>4. CASE Boot \/ Serve
    BY <1>4, StoreKept DEF Boot, Serve, store, told
  <1>5. CASE UNCHANGED vars
    BY <1>5, StoreKept DEF vars
  <1> QED BY <1>1, <1>2, <1>3, <1>4, <1>5, DaemonDiesKeeps DEF Next

(* Once an operator has been told that a device is revoked, no verb of it runs
   again (authorize, is_revoked), for every number of devices, operators,
   certificates and deaths, when the read-then-write sequences of the commands and
   of touch do not overlap and a rotation moves onto a fresh key. *)
THEOREM RevokedTheorem == ASSUME ~Overlaps, FreshKeys PROVE Spec => []RevokedNeverServed
  <1>1. Init => IndInv
    BY InitHolds
  <1>2. IndInv /\ [Next]_vars => IndInv'
    BY NextKeeps
  <1>3. IndInv => RevokedNeverServed
    BY DEF IndInv
  <1> QED BY <1>1, <1>2, <1>3, PTL DEF Spec

-----------------------------------------------------------------------------
(* A rotation leaves no moment without a key.  What a daemon has in memory comes
   and goes; a whole certificate whose record allows it always lets in. *)
Good(d) == MayConnect(row[d]) /\ file[d] = "whole"

Safe(p) ==
    \/ Good(p[1]) \/ Good(p[2]) \/ Cutoff(p[1]) \/ Cutoff(p[2])
    \/ row[p[2]] # NoRow /\ row[p[2]].retired

(* issue writes over a certificate that no begun rotation counts on, and removes
   none. *)
IssueInv(o) ==
    /\ job[o].op = "issue" /\ job[o].at \in {"open", "write", "upsert"} =>
         \A p \in begun : p[1] # job[o].to /\ p[2] # job[o].to
    /\ job[o].at = "remove" => job[o].op \in {"rotate", "revoke"}

(* rotate: until the old record is retired it is the one that was read, and the new
   key is as good as it before it goes. *)
RotateInv(o) ==
    job[o].op = "rotate" /\ job[o].at # "idle" =>
      /\ job[o].to # job[o].dev
      /\ job[o].at \in {"open", "write", "upsert"} => row[job[o].to] = NoRow
      /\ job[o].at = "open" => file[job[o].to] # "whole"
      /\ job[o].at = "upsert" => file[job[o].to] = "whole"
      /\ job[o].at = "retire" => Good(job[o].to)
      /\ job[o].at # "remove" =>
           /\ row[job[o].dev] = job[o].old /\ ~job[o].old.revoked
           /\ \A p \in begun : p[1] = job[o].dev => p[2] = job[o].to \/ ~Good(job[o].dev)
      /\ job[o].at = "remove" => row[job[o].dev] # NoRow /\ row[job[o].dev].retired

LockInv ==
    /\ file \in [Devices -> {"none", "torn", "whole"}]
    /\ begun \subseteq Devices \X Devices
    /\ \A p \in begun : Safe(p)
    /\ \A o \in Operators : IssueInv(o) /\ RotateInv(o)

(* An idle command promises nothing. *)
LEMMA OthersIdle ==
    ASSUME NEW o \in Operators, Sole(o), \A q \in Operators \ {o} : job'[q] = job[q],
           IssueInv(o)', RotateInv(o)'
    PROVE  \A q \in Operators : IssueInv(q)' /\ RotateInv(q)'
  <1> SUFFICES ASSUME NEW q \in Operators PROVE IssueInv(q)' /\ RotateInv(q)'
    OBVIOUS
  <1>1. CASE q = o
    BY <1>1
  <1>2. CASE q # o
    <2>1. job'[q].at = "idle"
      BY <1>2 DEF Sole
    <2> QED BY <2>1 DEF IssueInv, RotateInv
  <1> QED BY <1>1, <1>2

LEMMA LockSame == ASSUME LockInv, UNCHANGED <<row, file, begun, job>> PROVE LockInv'
  BY DEF LockInv, Safe, Good, Cutoff, IssueInv, RotateInv

(* The command ends, and has changed neither a record nor a certificate. *)
LEMMA LockEnds ==
    ASSUME IndInv, LockInv, NEW o \in Operators, job[o].at # "idle", Done(o),
           UNCHANGED <<row, file, begun>>
    PROVE  LockInv'
  <1>1. job'[o].at = "idle" /\ \A q \in Operators \ {o} : job'[q] = job[q]
    BY Ended DEF IndInv
  <1>2. IssueInv(o)' /\ RotateInv(o)'
    BY <1>1 DEF IssueInv, RotateInv
  <1>3. Sole(o)
    BY SoleGoesOn
  <1>4. \A q \in Operators : IssueInv(q)' /\ RotateInv(q)'
    BY <1>1, <1>2, <1>3, OthersIdle
  <1> QED BY <1>4 DEF LockInv, Safe, Good, Cutoff

LEMMA LockIssue ==
    ASSUME IndInv, LockInv, ~Overlaps, NEW o \in Operators, NEW d \in Devices, Issue(o, d)
    PROVE  LockInv'
  <1> DEFINE j == [op |-> "issue", at |-> "open", dev |-> d, to |-> d, old |-> NoRow]
  <1>1. Sole(o) /\ UNCHANGED <<row, file>> /\ job' = [job EXCEPT ![o] = j]
        /\ begun' = {p \in begun : d \notin {p[1], p[2]}}
    BY SoleBegins DEF Issue, store
  <1>2. j.op = "issue" /\ j.at = "open" /\ j.to = d
    OBVIOUS
  <1> HIDE DEF j
  <1>3. job'[o] = j /\ \A q \in Operators \ {o} : job'[q] = job[q]
    BY <1>1 DEF IndInv, Types
  <1>4. IssueInv(o)' /\ RotateInv(o)'
    BY <1>1, <1>2, <1>3 DEF IssueInv, RotateInv
  <1>5. \A q \in Operators : IssueInv(q)' /\ RotateInv(q)'
    BY <1>1, <1>3, <1>4, OthersIdle
  <1> QED BY <1>1, <1>5 DEF LockInv, Safe, Good, Cutoff

LEMMA LockRotate ==
    ASSUME IndInv, LockInv, ~Overlaps, FreshKeys, NEW o \in Operators, NEW d \in Devices,
           NEW n \in Devices, Rotate(o, d, n)
    PROVE  LockInv'
  <1> DEFINE j == [op |-> "rotate", at |-> "open", dev |-> d, to |-> n, old |-> row[d]]
  <1>1. Sole(o) /\ UNCHANGED <<row, file>> /\ job' = [job EXCEPT ![o] = j]
    BY SoleBegins DEF Rotate, store, First
  <1>2. j.op = "rotate" /\ j.at = "open" /\ j.dev = d /\ j.to = n /\ j.old = row[d]
    OBVIOUS
  <1> HIDE DEF j
  <1>3. job'[o] = j /\ \A q \in Operators \ {o} : job'[q] = job[q]
    BY <1>1 DEF IndInv, Types
  <1>4. row[d] # NoRow /\ ~row[d].revoked /\ n # d /\ row[n] = NoRow /\ file[n] = "none"
    BY DEF Rotate
  <1>5. Good(d) => Admits(d) /\ file[d] = "whole"
    BY DEF Good, Admits, Looked, Reload, MayConnect
  <1>6. /\ begun' \subseteq Devices \X Devices
        /\ \A p \in begun' : p \in begun \/ (p = <<d, n>> /\ Admits(d) /\ file[d] = "whole")
        /\ \A p \in begun' : p[1] = d => p[2] = n \/ ~Good(d)
    <2>1. CASE Admits(d) /\ file[d] = "whole"
      <3>1. begun' = {p \in begun : p[1] # d} \union {<<d, n>>}
        BY <2>1 DEF Rotate
      <3> QED BY <2>1, <3>1 DEF LockInv
    <2>2. CASE ~(Admits(d) /\ file[d] = "whole")
      <3>1. begun' = begun /\ ~Good(d)
        BY <1>5, <2>2 DEF Rotate
      <3> QED BY <3>1 DEF LockInv
    <2> QED BY <2>1, <2>2
  <1>7. \A p \in begun' : Safe(p)
    <2> SUFFICES ASSUME NEW p \in begun' PROVE Safe(p)
      OBVIOUS
    <2>1. CASE p \in begun
      BY <2>1 DEF LockInv
    <2>2. CASE p = <<d, n>> /\ Admits(d) /\ file[d] = "whole"
      <3>1. p[1] = d /\ Good(d)
        BY <2>2 DEF Good, Admits
      <3> QED BY <3>1 DEF Safe
    <2> QED BY <1>6, <2>1, <2>2
  <1>8. IssueInv(o)' /\ RotateInv(o)'
    BY <1>1, <1>2, <1>3, <1>4, <1>6 DEF IssueInv, RotateInv, Good
  <1>9. \A q \in Operators : IssueInv(q)' /\ RotateInv(q)'
    BY <1>1, <1>3, <1>8, OthersIdle
  <1> QED BY <1>1, <1>6, <1>7, <1>9 DEF LockInv, Safe, Good, Cutoff

(* A record that is now revoked: whoever counted on it is released. *)
LEMMA LockRevoke ==
    ASSUME IndInv, LockInv, ~Overlaps, NEW o \in Operators, NEW d \in Devices, Revoke(o, d)
    PROVE  LockInv'
  <1>1. CASE row[d].revoked
    BY <1>1, LockSame DEF Revoke
  <1>2. CASE ~row[d].revoked
    <2> DEFINE j == [op |-> "revoke", at |-> "remove", dev |-> d, to |-> d, old |-> NoRow]
               r == [row[d] EXCEPT !.revoked = TRUE]
    <2>1. /\ Sole(o) /\ job' = [job EXCEPT ![o] = j] /\ row' = [row EXCEPT ![d] = r]
          /\ UNCHANGED <<file, begun>>
      BY <1>2, SoleBegins DEF Revoke
    <2>2. row[d] \in Row
      BY DEF Revoke, IndInv, Types, Record
    <2>3. r \in Row /\ r.revoked
      BY <2>2 DEF Row
    <2>4. r # NoRow
      BY <2>3, TrustAssumption DEF Row
    <2>5. j.op = "revoke"
      OBVIOUS
    <2> HIDE DEF j, r
    <2>6. row'[d] = r /\ \A e \in Devices \ {d} : row'[e] = row[e]
      BY <2>1 DEF IndInv, Types
    <2>7. job'[o] = j /\ \A q \in Operators \ {o} : job'[q] = job[q]
      BY <2>1 DEF IndInv, Types
    <2>8. IssueInv(o)' /\ RotateInv(o)'
      BY <2>5, <2>7 DEF IssueInv, RotateInv
    <2>9. \A q \in Operators : IssueInv(q)' /\ RotateInv(q)'
      BY <2>1, <2>7, <2>8, OthersIdle
    <2>10. \A p \in begun' : Safe(p)'
      <3> SUFFICES ASSUME NEW p \in begun PROVE Safe(p)'
        BY <2>1
      <3>1. p[1] \in Devices /\ p[2] \in Devices /\ Safe(p)
        BY DEF LockInv
      <3>2. CASE d \in {p[1], p[2]}
        BY <2>3, <2>4, <2>6, <3>2 DEF Safe, Cutoff
      <3>3. CASE d \notin {p[1], p[2]}
        BY <2>1, <2>6, <3>1, <3>3 DEF Safe, Cutoff, Good
      <3> QED BY <3>2, <3>3
    <2> QED BY <2>1, <2>9, <2>10 DEF LockInv
  <1> QED BY <1>1, <1>2

(* A certificate is torn, or whole again: none that a begun rotation counts on. *)
LEMMA LockFile ==
    ASSUME IndInv, LockInv, NEW o \in Operators, PinOpen(o) \/ PinWrite(o)
    PROVE  LockInv'
  <1> DEFINE t == job[o].to
  <1>1. job[o].at \in {"open", "write"} /\ UNCHANGED <<row, begun>>
    BY DEF PinOpen, PinWrite, told
  <1>2. /\ \/ job[o].at = "open" /\ file' = [file EXCEPT ![t] = "torn"] /\ Step(o, "write")
           \/ job[o].at = "write" /\ file' = [file EXCEPT ![t] = "whole"] /\ Step(o, "upsert")
    BY DEF PinOpen, PinWrite
  <1>3. /\ job[o].at = "open" => job'[o].at = "write"
        /\ job[o].at = "write" => job'[o].at = "upsert"
        /\ job'[o].op = job[o].op /\ job'[o].dev = job[o].dev
        /\ job'[o].to = job[o].to /\ job'[o].old = job[o].old
        /\ \A q \in Operators \ {o} : job'[q] = job[q]
    <2>1. Types /\ "write" \in Ats /\ "upsert" \in Ats
      BY DEF IndInv, Ats
    <2>2. CASE job[o].at = "open"
      <3>1. Step(o, "write")
        BY <1>2, <2>2
      <3> QED BY <2>1, <2>2, <3>1, Stepped
    <2>3. CASE job[o].at = "write"
      <3>1. Step(o, "upsert")
        BY <1>2, <2>3
      <3> QED BY <2>1, <2>3, <3>1, Stepped
    <2> QED BY <1>1, <2>2, <2>3
  <1>4. /\ t \in Devices /\ job[o].dev \in Devices /\ job[o].op \in {"issue", "rotate"}
        /\ IssueInv(o) /\ RotateInv(o) /\ file \in [Devices -> {"none", "torn", "whole"}]
    BY <1>1 DEF IndInv, JobInv, LockInv
  <1>5. /\ file' \in [Devices -> {"none", "torn", "whole"}]
        /\ \A e \in Devices \ {t} : file'[e] = file[e]
        /\ job[o].at = "write" => file'[t] = "whole"
    BY <1>2, <1>4
  <1>6. Sole(o)
    BY <1>1, SoleGoesOn
  <1> HIDE DEF t
  <1>7. IssueInv(o)'
    BY <1>1, <1>3, <1>4 DEF IssueInv
  <1>8. RotateInv(o)'
    <2> SUFFICES ASSUME job[o].op = "rotate" PROVE RotateInv(o)'
      BY <1>3 DEF RotateInv
    <2>1. /\ t # job[o].dev /\ row[t] = NoRow /\ row[job[o].dev] = job[o].old /\ ~job[o].old.revoked
          /\ \A p \in begun : p[1] = job[o].dev => p[2] = t \/ ~Good(job[o].dev)
      BY <1>1, <1>4 DEF RotateInv, t
    <2>2. file'[job[o].dev] = file[job[o].dev]
      BY <1>4, <1>5, <2>1
    <2> QED BY <1>1, <1>3, <1>5, <2>1, <2>2 DEF RotateInv, Good, t
  <1>9. \A p \in begun' : Safe(p)'
    <2> SUFFICES ASSUME NEW p \in begun PROVE Safe(p)'
      BY <1>1
    <2>1. p[1] \in Devices /\ p[2] \in Devices /\ Safe(p)
      BY DEF LockInv
    <2>2. \A e \in {p[1], p[2]} : Good(e) => Good(e)'
      <3> SUFFICES ASSUME NEW e \in {p[1], p[2]}, Good(e) PROVE Good(e)'
        OBVIOUS
      <3>1. CASE e # t
        BY <1>1, <1>5, <2>1, <3>1 DEF Good
      <3>2. CASE e = t
        <4>1. job[o].op = "rotate"
          BY <1>1, <1>4, <3>2 DEF IssueInv, t
        <4>2. job[o].at # "open"
          BY <1>4, <3>2, <4>1 DEF RotateInv, Good, t
        <4> QED BY <1>1, <1>5, <3>2, <4>2 DEF Good
      <3> QED BY <3>1, <3>2
    <2> QED BY <1>1, <2>1, <2>2 DEF Safe, Cutoff
  <1>10. \A q \in Operators : IssueInv(q)' /\ RotateInv(q)'
    BY <1>3, <1>6, <1>7, <1>8, OthersIdle
  <1> QED BY <1>1, <1>5, <1>9, <1>10 DEF LockInv

(* The record of the new key: of an issue nobody counts on it, of a rotation there
   was none. *)
LEMMA LockUpsert ==
    ASSUME IndInv, LockInv, NEW o \in Operators, PinUpsert(o)
    PROVE  LockInv'
  <1> DEFINE t == job[o].to
             r == [revoked |-> FALSE, retired |-> FALSE]
  <1>1. /\ job[o].at = "upsert" /\ row' = [row EXCEPT ![t] = r] /\ UNCHANGED <<file, begun>>
    BY DEF PinUpsert, told
  <1>2. ~r.revoked /\ ~r.retired
    OBVIOUS
  <1> HIDE DEF r
  <1>3. /\ t \in Devices /\ job[o].dev \in Devices /\ job[o].op \in {"issue", "rotate"}
        /\ IssueInv(o) /\ RotateInv(o)
    BY <1>1 DEF IndInv, JobInv, LockInv
  <1>4. /\ job'[o].at = IF job[o].op = "issue" THEN "grant" ELSE "retire"
        /\ job'[o].op = job[o].op /\ job'[o].dev = job[o].dev
        /\ job'[o].to = job[o].to /\ job'[o].old = job[o].old
        /\ \A q \in Operators \ {o} : job'[q] = job[q]
    <2>1. Types /\ "grant" \in Ats /\ "retire" \in Ats
      BY DEF IndInv, Ats
    <2>2. CASE job[o].op = "issue"
      BY <2>1, <2>2, Stepped DEF PinUpsert
    <2>3. CASE job[o].op # "issue"
      BY <2>1, <2>3, Stepped DEF PinUpsert, First
    <2> QED BY <2>2, <2>3
  <1>5. row'[t] = r /\ \A e \in Devices \ {t} : row'[e] = row[e]
    BY <1>1, <1>3 DEF IndInv, Types
  <1>6. Sole(o)
    BY <1>1, SoleGoesOn
  <1> HIDE DEF t
  <1>7. IssueInv(o)'
    BY <1>4 DEF IssueInv
  <1>8. RotateInv(o)'
    <2> SUFFICES ASSUME job[o].op = "rotate" PROVE RotateInv(o)'
      BY <1>4 DEF RotateInv
    <2>1. /\ t # job[o].dev /\ file[t] = "whole" /\ row[job[o].dev] = job[o].old /\ ~job[o].old.revoked
          /\ \A p \in begun : p[1] = job[o].dev => p[2] = t \/ ~Good(job[o].dev)
      BY <1>1, <1>3 DEF RotateInv, t
    <2>2. row'[job[o].dev] = row[job[o].dev]
      BY <1>3, <1>5, <2>1
    <2>3. MayConnect(row'[t])
      BY <1>2, <1>5 DEF MayConnect
    <2> QED BY <1>1, <1>4, <2>1, <2>2, <2>3 DEF RotateInv, Good, t
  <1>9. \A p \in begun' : Safe(p)'
    <2> SUFFICES ASSUME NEW p \in begun PROVE Safe(p)'
      BY <1>1
    <2>1. p[1] \in Devices /\ p[2] \in Devices /\ Safe(p)
      BY DEF LockInv
    <2>2. CASE t \in {p[1], p[2]}
      <3>1. job[o].op = "rotate"
        BY <1>1, <1>3, <2>2 DEF IssueInv, t
      <3>2. file[t] = "whole"
        BY <1>1, <1>3, <3>1 DEF RotateInv, t
      <3>3. MayConnect(row'[t]) /\ file'[t] = "whole"
        BY <1>1, <1>2, <1>5, <3>2 DEF MayConnect
      <3> QED BY <2>2, <3>3 DEF Safe, Good
    <2>3. CASE t \notin {p[1], p[2]}
      BY <1>1, <1>5, <2>1, <2>3 DEF Safe, Cutoff, Good
    <2> QED BY <2>2, <2>3
  <1>10. \A q \in Operators : IssueInv(q)' /\ RotateInv(q)'
    BY <1>4, <1>6, <1>7, <1>8, OthersIdle
  <1> QED BY <1>1, <1>9, <1>10 DEF LockInv

(* The old record retires: whoever counted on it has the new key, or sees that its
   own new key has moved on. *)
LEMMA LockRetire ==
    ASSUME IndInv, LockInv, NEW o \in Operators, Retire(o)
    PROVE  LockInv'
  <1> DEFINE d == job[o].dev
             t == job[o].to
             r == [job[o].old EXCEPT !.retired = TRUE, !.revoked = FALSE]
  <1>1. /\ job[o].at = "retire" /\ row' = [row EXCEPT ![d] = r] /\ Step(o, "remove")
        /\ UNCHANGED <<file, begun>>
    BY DEF Retire, told
  <1>2. /\ job[o].op = "rotate" /\ d \in Devices /\ t \in Devices /\ job[o].old \in Row
        /\ RotateInv(o)
    BY <1>1 DEF IndInv, JobInv, LockInv
  <1>3. r \in Row /\ r.retired
    BY <1>2 DEF Row
  <1>4. r # NoRow
    BY <1>3, TrustAssumption DEF Row
  <1> HIDE DEF r
  <1>5. /\ job'[o].at = "remove"
        /\ job'[o].op = job[o].op /\ job'[o].dev = job[o].dev
        /\ job'[o].to = job[o].to /\ job'[o].old = job[o].old
        /\ \A q \in Operators \ {o} : job'[q] = job[q]
    <2>1. Types /\ "remove" \in Ats
      BY DEF IndInv, Ats
    <2> QED BY <1>1, <2>1, Stepped
  <1>6. row'[d] = r /\ \A e \in Devices \ {d} : row'[e] = row[e]
    BY <1>1, <1>2 DEF IndInv, Types
  <1>7. /\ t # d /\ Good(t) /\ row[d] = job[o].old /\ ~row[d].revoked
        /\ \A p \in begun : p[1] = d => p[2] = t \/ ~Good(d)
    BY <1>1, <1>2 DEF RotateInv
  <1>8. Sole(o)
    BY <1>1, SoleGoesOn
  <1> HIDE DEF d, t
  <1>9. IssueInv(o)' /\ RotateInv(o)'
    BY <1>2, <1>3, <1>4, <1>5, <1>6, <1>7 DEF IssueInv, RotateInv, d, t
  <1>10. \A p \in begun' : Safe(p)'
    <2> SUFFICES ASSUME NEW p \in begun PROVE Safe(p)'
      BY <1>1
    <2>1. p[1] \in Devices /\ p[2] \in Devices /\ Safe(p)
      BY DEF LockInv
    <2>2. CASE p[2] = d
      BY <1>3, <1>4, <1>6, <2>2 DEF Safe
    <2>3. CASE p[1] = d /\ p[2] = t
      BY <1>1, <1>2, <1>6, <1>7, <2>3 DEF Safe, Good
    <2>4. CASE p[1] = d /\ p[2] # t /\ p[2] # d
      <3>1. ~Good(p[1]) /\ ~Cutoff(p[1])
        BY <1>7, <2>4 DEF Cutoff
      <3> QED BY <1>1, <1>6, <2>1, <2>4, <3>1 DEF Safe, Good, Cutoff
    <2>5. CASE p[1] # d /\ p[2] # d
      BY <1>1, <1>6, <2>1, <2>5 DEF Safe, Good, Cutoff
    <2> QED BY <2>2, <2>3, <2>4, <2>5
  <1>11. \A q \in Operators : IssueInv(q)' /\ RotateInv(q)'
    BY <1>5, <1>8, <1>9, OthersIdle
  <1> QED BY <1>1, <1>10, <1>11 DEF LockInv

(* The certificate that goes is of a key that no longer lets in. *)
LEMMA LockRemove ==
    ASSUME IndInv, LockInv, NEW o \in Operators, Remove(o)
    PROVE  LockInv'
  <1> DEFINE d == job[o].dev
  <1>1. /\ job[o].at = "remove" /\ file' = [file EXCEPT ![d] = "none"] /\ Done(o)
        /\ UNCHANGED <<row, begun>>
    BY DEF Remove, First
  <1>2. d \in Devices /\ IssueInv(o) /\ RotateInv(o) /\ JobInv(o)
    BY <1>1 DEF IndInv, JobInv, LockInv
  <1>3. job'[o].at = "idle" /\ \A q \in Operators \ {o} : job'[q] = job[q]
    BY <1>1, Ended DEF IndInv
  <1>4. /\ file' \in [Devices -> {"none", "torn", "whole"}]
        /\ \A e \in Devices \ {d} : file'[e] = file[e]
    BY <1>1, <1>2 DEF LockInv
  <1>5. IssueInv(o)' /\ RotateInv(o)'
    BY <1>3 DEF IssueInv, RotateInv
  <1>6. Sole(o)
    BY <1>1, SoleGoesOn
  <1>7. \A q \in Operators : IssueInv(q)' /\ RotateInv(q)'
    BY <1>3, <1>5, <1>6, OthersIdle
  <1>8. ~Good(d)
    <2>1. CASE job[o].op = "rotate"
      <3>1. row[d] # NoRow /\ row[d].retired
        BY <1>1, <1>2, <2>1 DEF RotateInv
      <3> QED BY <3>1 DEF Good, MayConnect
    <2>2. CASE job[o].op = "revoke"
      <3>1. row[d] # NoRow /\ row[d].revoked
        BY <1>1, <1>2, <2>2 DEF JobInv, Cutoff
      <3> QED BY <3>1 DEF Good, MayConnect
    <2> QED BY <1>1, <1>2, <2>1, <2>2 DEF IssueInv
  <1> HIDE DEF d
  <1>9. \A p \in begun' : Safe(p)'
    <2> SUFFICES ASSUME NEW p \in begun PROVE Safe(p)'
      BY <1>1
    <2>1. p[1] \in Devices /\ p[2] \in Devices /\ Safe(p)
      BY DEF LockInv
    <2> QED BY <1>1, <1>4, <1>8, <2>1 DEF Safe, Good, Cutoff
  <1> QED BY <1>1, <1>4, <1>7, <1>9 DEF LockInv

(* Nothing is begun at the start. *)
LEMMA LockInit == Init => LockInv
  <1> SUFFICES ASSUME Init PROVE LockInv
    OBVIOUS
  <1>1. \A o \in Operators : job[o].at = "idle"
    BY IdleJob DEF Init
  <1>2. \A o \in Operators : IssueInv(o) /\ RotateInv(o)
    BY <1>1 DEF IssueInv, RotateInv
  <1>3. file \in [Devices -> {"none", "torn", "whole"}] /\ begun = {}
    BY DEF Init
  <1> QED BY <1>2, <1>3 DEF LockInv

(* Every step of the commands, the daemon and its sessions keeps LockInv. *)
LEMMA LockNext == ASSUME ~Overlaps, FreshKeys PROVE IndInv /\ LockInv /\ [Next]_vars => LockInv'
  <1> SUFFICES ASSUME IndInv, LockInv, [Next]_vars PROVE LockInv'
    OBVIOUS
  <1>1. ASSUME NEW o \in Operators, Command(o) PROVE LockInv'
    <2>1. ASSUME NEW d \in Devices, Issue(o, d) \/ Revoke(o, d) PROVE LockInv'
      BY <2>1, LockIssue, LockRevoke
    <2>2. ASSUME NEW d \in Devices, Trust(o, d) \/ Cut(o, d) PROVE LockInv'
      BY <2>2, LockSame DEF Trust, Cut, told
    <2>3. ASSUME NEW d \in Devices, NEW n \in Devices, Rotate(o, d, n) PROVE LockInv'
      BY <2>3, LockRotate
    <2>4. CASE PinOpen(o) \/ PinWrite(o) \/ PinUpsert(o) \/ Retire(o)
      BY <2>4, LockFile, LockUpsert, LockRetire
    <2>5. CASE Grant(o) \/ CommandDies(o)
      <3>1. job[o].at # "idle" /\ Done(o) /\ UNCHANGED <<row, file, begun>>
        BY <2>5 DEF Grant, CommandDies, store, told
      <3> QED BY <3>1, LockEnds
    <2> QED BY <1>1, <2>1, <2>2, <2>3, <2>4, <2>5, LockRemove DEF Command
  <1>2. ASSUME NEW d \in Devices, Session(d) PROVE LockInv'
    <2>1. CASE Touch(d)
      <3>1. session[d] = "touching" /\ seen[d] = row[d] /\ row \in [Devices -> Record]
        BY <2>1 DEF Touch, IndInv, Fresh, Types
      <3>2. row' = row
        BY <2>1, <3>1 DEF Touch
      <3> QED BY <2>1, <3>2, LockSame DEF Touch, told
    <2>2. CASE Resolve(d) \/ Admit(d) \/ Frame(d) \/ Verb(d)
      BY <2>2, LockSame DEF Resolve, Admit, Frame, Verb, store, told
    <2>3. CASE Stream(d) \/ StreamEnds(d) \/ Tick(d) \/ Leave(d)
      BY <2>3, LockSame DEF Stream, StreamEnds, Tick, Leave, store, told
    <2> QED BY <1>2, <2>1, <2>2, <2>3 DEF Session
  <1>3. ASSUME NEW d \in Devices, Backfill(d) PROVE LockInv'
    BY <1>3, LockSame DEF Backfill, told
  <1>4. CASE Boot \/ Serve \/ DaemonDies
    BY <1>4, LockSame DEF Boot, Serve, DaemonDies, store, told
  <1>5. CASE UNCHANGED vars
    BY <1>5, LockSame DEF vars
  <1> QED BY <1>1, <1>2, <1>3, <1>4, <1>5 DEF Next

(* A device that could connect when its rotation began can connect with one of the
   two keys at every moment (rotate pins the new key, then retires the old record,
   then removes the old file), whatever dies in between, unless it is revoked, moves
   on or is issued anew. *)
THEOREM NeverLockedOutTheorem == ASSUME ~Overlaps, FreshKeys PROVE Spec => []NeverLockedOut
  <1>1. Init => IndInv /\ LockInv
    BY InitHolds, LockInit
  <1>2. IndInv /\ LockInv /\ [Next]_vars => IndInv' /\ LockInv'
    BY NextKeeps, LockNext
  <1>3. LockInv => NeverLockedOut
    <2>1. ASSUME NEW d \in Devices, Good(d) PROVE Admits(d)
      BY <2>1 DEF Good, Admits, Looked, Reload, MayConnect
    <2>2. ASSUME NEW p \in begun, LockInv
          PROVE  /\ p[1] \in Devices /\ p[2] \in Devices /\ Safe(p)
      BY <2>2 DEF LockInv
    <2> QED BY <2>1, <2>2 DEF NeverLockedOut, Safe, Cutoff
  <1> QED BY <1>1, <1>2, <1>3, PTL DEF Spec

-----------------------------------------------------------------------------
(* The ledger is filled once, whoever else writes when. *)
OnceInv == (ran => initialized) /\ (initialized => todo = {})

(* Only a boot that finds no marker has devices to grant, and a daemon serves only
   when it has left the marker. *)
LEMMA OnceNext == OnceInv /\ [Next]_vars => OnceInv'
  <1> SUFFICES ASSUME OnceInv, [Next]_vars PROVE OnceInv'
    OBVIOUS
  <1> USE DEF OnceInv
  <1>1. ASSUME NEW o \in Operators, Command(o) PROVE OnceInv'
    <2>1. UNCHANGED <<ran, initialized, todo>>
      BY <1>1 DEF Command, Issue, Revoke, Trust, Cut, Rotate, PinOpen, PinWrite, PinUpsert, Grant,
                  Retire, Remove, CommandDies, store, server
    <2> QED BY <2>1
  <1>2. ASSUME NEW d \in Devices, Session(d) PROVE OnceInv'
    <2>1. UNCHANGED <<ran, initialized, todo>>
      BY <1>2 DEF Session, Resolve, Admit, Touch, Frame, Verb, Stream, StreamEnds, Tick, Leave, store
    <2> QED BY <2>1
  <1>3. ASSUME NEW d \in Devices, Backfill(d) PROVE OnceInv'
    BY <1>3 DEF Backfill
  <1>4. CASE Boot
    BY <1>4 DEF Boot, store
  <1>5. CASE Serve
    BY <1>5 DEF Serve, Marked
  <1>6. CASE DaemonDies
    BY <1>6 DEF DaemonDies, store
  <1>7. CASE UNCHANGED vars
    BY <1>7 DEF vars
  <1> QED BY <1>1, <1>2, <1>3, <1>4, <1>5, <1>6, <1>7 DEF Next

(* While a daemon boots, the devices left to grant change only as one is granted
   or as the daemon dies. *)
LEMMA BootStep ==
    ASSUME [Next]_vars, daemon = "boot", todo' # todo
    PROVE  (\E d \in Devices : Backfill(d)) \/ DaemonDies
  <1>1. ASSUME NEW o \in Operators, Command(o) PROVE FALSE
    BY <1>1 DEF Command, Issue, Revoke, Trust, Cut, Rotate, PinOpen, PinWrite, PinUpsert, Grant,
                Retire, Remove, CommandDies, store, server
  <1>2. ASSUME NEW d \in Devices, Session(d) PROVE FALSE
    BY <1>2 DEF Session, Resolve, Admit, Touch, Frame, Verb, Stream, StreamEnds, Tick, Leave, store
  <1>3. ~Boot /\ ~Serve /\ ~UNCHANGED vars
    BY DEF Boot, Serve, vars
  <1> QED BY <1>1, <1>2, <1>3 DEF Next

(* "It runs once, ever": a grant that was cut on a machine whose daemon has served
   is not restored by a later boot (backfill_once), also when processes
   write between each other's reads and writes and when keys come back. *)
THEOREM CutTheorem == Spec => CutStaysCut
  <1>1. Init => OnceInv
    BY DEF Init, OnceInv
  <1>2. OnceInv /\ [Next]_vars => OnceInv'
    BY OnceNext
  <1>3. OnceInv /\ [Next]_vars =>
          [\A d \in Devices :
             ran /\ daemon = "boot" /\ grant[d] = "cut" /\ todo' # todo => grant'[d] = "cut"]_vars
    <2> SUFFICES ASSUME OnceInv, [Next]_vars, NEW d \in Devices, ran, daemon = "boot",
                        grant[d] = "cut", todo' # todo
                 PROVE  grant'[d] = "cut"
      OBVIOUS
    <2>1. todo = {}
      BY DEF OnceInv
    <2>2. DaemonDies
      BY <2>1, BootStep DEF Backfill
    <2> QED BY <2>2 DEF DaemonDies, store
  <1> QED BY <1>1, <1>2, <1>3, PTL DEF Spec, CutStaysCut
-----------------------------------------------------------------------------
(***************************************************************************)
(* How a device gets its certificate: what the pairing promises, for every *)
(* number of phones, sessions, tries and faults.  The two properties are   *)
(* not inductive: what a phone stores was in slot D, what was in slot D    *)
(* was in the server's hands, and that came out of slot C.  PairInv says   *)
(* of each station what the next one relies on.                            *)
(***************************************************************************)
Flight == [try : Nat, right : BOOLEAN]
Hello  == [flight : Flight, key : Keys]
Payload == Flight \union Hello \union {"flight", None}

Phases == {"idle", "putA", "waitB", "waitC", "issue", "grant", "send",
           "waitA", "putB", "putC", "waitD", "burn", "key", "cert", "pin"}

PairCommand ==
    [at : Phases, session : Sessions \union {0}, flight : Flight \union {None},
     key : Keys \union {None}]

Stored == [key : Keys \union {None}, cert : Keys \union {None}, pin : BOOLEAN]

(* What the variables hold; a slot may hold any flight. *)
PairTypes ==
    /\ slot \in [Sessions -> [Slots -> Payload]]
    /\ command \in PairCommand
    /\ phone \in [Phones -> PairCommand]
    /\ disk \in [Phones -> Stored]
    /\ pinned \subseteq Sessions \X Keys /\ granted \subseteq Keys
    /\ typed \subseteq Sessions \X Keys
    /\ tries \in Nat

(* A tag that the session's code made comes from a phone that typed it. *)
TypedFor(s, flight, key) == flight.right => <<s, key>> \in typed

Admitted(key) == key \in granted /\ \E s \in Sessions : <<s, key>> \in pinned

(* The stations of a flight: the phone that made it, ... *)
PhoneInv(p) ==
    phone[p].at # "idle" =>
      /\ phone[p].session \in Sessions /\ phone[p].flight \in Flight /\ phone[p].key \in Keys
      /\ TypedFor(phone[p].session, phone[p].flight, phone[p].key)
      /\ phone[p].at \in {"burn", "key", "cert", "pin"} => Admitted(phone[p].key)

(* ... the slots, ... *)
SlotInv(s) ==
    /\ slot[s]["B"] # None => slot[s]["B"] \in Flight
    /\ slot[s]["C"] # None => /\ slot[s]["C"] \in Hello
                              /\ TypedFor(s, slot[s]["C"].flight, slot[s]["C"].key)
    /\ slot[s]["D"] # None => slot[s]["D"] \in Hello /\ Admitted(slot[s]["D"].key)

(* ... and the server, which pins before it grants and grants before it sends. *)
ServerInv ==
    /\ command.at # "idle" => command.session \in Sessions
    /\ command.at \in {"waitC", "issue", "grant", "send"} => command.flight \in Flight
    /\ command.at \in {"issue", "grant", "send"} =>
         command.key \in Keys /\ <<command.session, command.key>> \in typed
    /\ command.at \in {"grant", "send"} => <<command.session, command.key>> \in pinned
    /\ command.at = "send" => command.key \in granted

PairInv ==
    /\ PairTypes
    /\ \A p \in Phones : PhoneInv(p)
    /\ \A s \in Sessions : SlotInv(s)
    /\ ServerInv
    /\ OnlyTheCode
    /\ CertMeansAccess

-----------------------------------------------------------------------------
(* A command at rest, and one that moves on. *)
LEMMA AwayCommand == Away \in PairCommand /\ Away.at = "idle"
  BY DEF Away, PairCommand, Phases

LEMMA MovedCommand ==
    ASSUME NEW c \in PairCommand, NEW at \in Phases, NEW d, d = [c EXCEPT !.at = at]
    PROVE  d \in PairCommand /\ d.at = at /\ d.session = c.session /\ d.flight = c.flight /\ d.key = c.key
  BY DEF PairCommand

(* Nothing has been sent, stored or pinned at the start. *)
LEMMA PairInvInit == PairInit => PairInv
  <1> SUFFICES ASSUME PairInit PROVE PairInv
    OBVIOUS
  <1> USE DEF PairInit
  <1>1. PairTypes
    <2>1. slot \in [Sessions -> [Slots -> Payload]]
      BY DEF Payload
    <2>3. command \in PairCommand /\ phone \in [Phones -> PairCommand]
      BY AwayCommand
    <2>4. disk \in [Phones -> Stored]
      BY DEF Stored
    <2> QED BY <2>1, <2>3, <2>4 DEF PairTypes
  <1>2. \A p \in Phones : PhoneInv(p)
    BY DEF PhoneInv, Away
  <1>3. \A s \in Sessions : SlotInv(s)
    BY DEF SlotInv, Slots
  <1>4. ServerInv
    BY DEF ServerInv, Away
  <1>5. OnlyTheCode /\ CertMeansAccess
    BY DEF OnlyTheCode, CertMeansAccess
  <1> QED BY <1>1, <1>2, <1>3, <1>4, <1>5 DEF PairInv

(* A flight that is put into a slot is the only thing of the mailbox that changes. *)
LEMMA PutSlot ==
    ASSUME PairTypes, NEW s \in Sessions, NEW x \in Slots,
           NEW flight \in Payload, Put(s, x, flight)
    PROVE  /\ slot' \in [Sessions -> [Slots -> Payload]]
           /\ \A t \in Sessions, y \in Slots :
                slot'[t][y] = slot[t][y] \/ (t = s /\ y = x /\ slot'[t][y] = flight)
  BY DEF PairTypes, Put

(* What a burnt session held is gone. *)
LEMMA BurnedSlot ==
    ASSUME PairTypes, NEW s \in Sessions, Burned(s)
    PROVE  /\ slot' \in [Sessions -> [Slots -> Payload]]
           /\ \A t \in Sessions, y \in Slots : slot'[t][y] = slot[t][y] \/ slot'[t][y] = None
  <1>1. [x \in Slots |-> None] \in [Slots -> Payload]
    BY DEF Payload
  <1>2. slot' = [slot EXCEPT ![s] = [x \in Slots |-> None]]
    BY DEF Burned
  <1> QED BY <1>1, <1>2 DEF PairTypes

(* The slots stay as they should when each of them keeps its flight, loses it, or
   gets one that is as it should be, and nothing is forgotten. *)
LEMMA SlotsKept ==
    ASSUME PairInv, typed \subseteq typed', granted \subseteq granted', pinned \subseteq pinned',
           \A t \in Sessions, y \in Slots : slot'[t][y] = slot[t][y] \/ slot'[t][y] = None
    PROVE  \A s \in Sessions : SlotInv(s)'
  BY DEF PairInv, SlotInv, Slots, TypedFor, Admitted

(* So do the phones, while they stand still. *)
LEMMA PhonesKept ==
    ASSUME PairInv, typed \subseteq typed', granted \subseteq granted', pinned \subseteq pinned',
           NEW p \in Phones, phone'[p] = phone[p]
    PROVE  PhoneInv(p)'
  BY DEF PairInv, PhoneInv, TypedFor, Admitted

(* And what is stored. *)
LEMMA DiskKept ==
    ASSUME PairInv, granted \subseteq granted', pinned \subseteq pinned', disk' = disk
    PROVE  CertMeansAccess'
  BY DEF PairInv, CertMeansAccess

-----------------------------------------------------------------------------
(* The steps of the server. *)

(* begin and its first flight, and every end of the command, leave the phones, the
   authority and slots B, C and D alone, or empty them. *)
LEMMA ServerBegins ==
    ASSUME PairInv, Begin \/ PutA
    PROVE  PairInv'
  <1>1. CASE Begin
    <2>0. PICK s \in Sessions : command' = Away \/ command' = [Away EXCEPT !.at = "putA", !.session = s]
      BY <1>1 DEF Begin
    <2>a. command' \in PairCommand /\ ServerInv'
      <3>1. CASE command' = Away
        BY <3>1, AwayCommand DEF ServerInv
      <3>2. CASE command' = [Away EXCEPT !.at = "putA", !.session = s]
        BY <3>2, AwayCommand DEF ServerInv, PairCommand, Phases, Away
      <3> QED BY <2>0, <3>1, <3>2
    <2>1. PairTypes'
      BY <1>1, <2>a DEF PairInv, PairTypes, Begin, authority, history
    <2>2. ServerInv'
      BY <2>a
    <2> QED BY <1>1, <2>1, <2>2, SlotsKept, PhonesKept, DiskKept
            DEF PairInv, Begin, OnlyTheCode, authority, history
  <1>2. CASE PutA
    <2>0. command.session \in Sessions /\ command.at = "putA"
      BY <1>2 DEF PairInv, ServerInv, PutA
    <2>1. Put(command.session, "A", "flight")
      BY <1>2 DEF PutA
    <2>2. /\ slot' \in [Sessions -> [Slots -> Payload]]
          /\ \A t \in Sessions, y \in Slots : y # "A" => slot'[t][y] = slot[t][y]
      <3>1. "flight" \in Payload /\ "A" \in Slots
        BY DEF Payload, Slots
      <3> QED BY <2>0, <2>1, <3>1, PutSlot DEF PairInv
    <2>3. command' = Away \/ command' = [command EXCEPT !.at = "waitB"]
      BY <1>2 DEF PutA, At
    <2>a. command' \in PairCommand /\ (command'.at # "idle" => command'.at = "waitB" /\ command'.session \in Sessions)
      <3>1. "waitB" \in Phases /\ command \in PairCommand
        BY DEF Phases, PairInv, PairTypes
      <3> QED BY <2>0, <2>3, <3>1, AwayCommand, MovedCommand
    <2>4. PairTypes'
      BY <1>2, <2>2, <2>a DEF PairInv, PairTypes, PutA, authority
    <2>5. ServerInv'
      BY <2>a DEF ServerInv
    <2>6. \A s \in Sessions : SlotInv(s)'
      BY <1>2, <2>2 DEF PairInv, SlotInv, Slots, TypedFor, Admitted, PutA, authority
    <2> QED BY <1>2, <2>4, <2>5, <2>6, PhonesKept, DiskKept
            DEF PairInv, PutA, OnlyTheCode, authority
  <1> QED BY <1>1, <1>2

(* receive: the key that the server will pin is one whose phone typed the code,
   because the tag was made with the key that the code gives. *)
LEMMA ServerReceives ==
    ASSUME PairInv, ReceiveB \/ ReceiveC
    PROVE  PairInv'
  <1>1. CASE ReceiveB
    <2>0. command.session \in Sessions /\ command.at = "waitB"
      BY <1>1 DEF PairInv, ServerInv, ReceiveB
    <2>1. \/ command' = Away
          \/ /\ slot[command.session]["B"] # None
             /\ command' = [command EXCEPT !.at = "waitC", !.flight = slot[command.session]["B"]]
      BY <1>1 DEF ReceiveB, Got, Outcome
    <2>2. slot[command.session]["B"] # None => slot[command.session]["B"] \in Flight
      BY <2>0 DEF PairInv, SlotInv
    <2>3. command' \in PairCommand /\ ServerInv'
      <3>1. CASE command' = Away
        BY <3>1, AwayCommand DEF ServerInv
      <3>2. CASE command' = [command EXCEPT !.at = "waitC", !.flight = slot[command.session]["B"]]
                 /\ slot[command.session]["B"] # None
        <4>1. command \in PairCommand
          BY DEF PairInv, PairTypes
        <4>2. /\ command' \in PairCommand /\ command'.at = "waitC" /\ command'.session = command.session
              /\ command'.flight \in Flight
          BY <2>2, <3>2, <4>1 DEF PairCommand, Phases
        <4> QED BY <2>0, <4>2 DEF ServerInv
      <3> QED BY <2>1, <3>1, <3>2
    <2> QED BY <1>1, <2>3, SlotsKept, PhonesKept, DiskKept
            DEF PairInv, PairTypes, ReceiveB, OnlyTheCode, authority, history, mailbox
  <1>2. CASE ReceiveC
    <2> DEFINE s == command.session
    <2> DEFINE c == slot[s]["C"]
    <2>0. s \in Sessions /\ command.at = "waitC" /\ command.flight \in Flight
      BY <1>2 DEF PairInv, ServerInv, ReceiveC
    <2>1. \/ /\ c # None /\ VerifyMac(command.flight, c)
             /\ command' = [command EXCEPT !.at = "issue", !.key = c.key] /\ UNCHANGED mailbox
          \/ command' = Away /\ (Burned(s) \/ UNCHANGED mailbox)
      BY <1>2 DEF ReceiveC, Got, Outcome
    <2>2. c # None /\ VerifyMac(command.flight, c) => c.key \in Keys /\ <<s, c.key>> \in typed
      BY <2>0 DEF PairInv, SlotInv, TypedFor, VerifyMac, Hello
    <2> HIDE DEF c
    <2>3. command' \in PairCommand /\ (typed' = typed => ServerInv')
      <3>1. CASE command' = Away
        BY <3>1, AwayCommand DEF ServerInv
      <3>2. CASE /\ c # None /\ VerifyMac(command.flight, c)
                 /\ command' = [command EXCEPT !.at = "issue", !.key = c.key]
        <4>1. command \in PairCommand
          BY DEF PairInv, PairTypes
        <4>2. /\ command' \in PairCommand /\ command'.at = "issue" /\ command'.session = s
              /\ command'.flight = command.flight /\ command'.key = c.key
          BY <2>2, <3>2, <4>1 DEF PairCommand, Phases
        <4> QED BY <2>0, <2>2, <3>2, <4>2 DEF ServerInv
      <3> QED BY <2>1, <3>1, <3>2
    <2>4. /\ slot' \in [Sessions -> [Slots -> Payload]]
          /\ \A t \in Sessions, y \in Slots : slot'[t][y] = slot[t][y] \/ slot'[t][y] = None
      BY <2>0, <2>1, BurnedSlot DEF PairInv, PairTypes, mailbox
    <2> QED BY <1>2, <2>3, <2>4, SlotsKept, PhonesKept, DiskKept
            DEF PairInv, PairTypes, ReceiveC, OnlyTheCode, authority, history
  <1> QED BY <1>1, <1>2

(* issue, grant_on_this_machine and complete, in this order. *)
LEMMA ServerFinishes ==
    ASSUME PairInv, IssueCert \/ GrantKey \/ Complete
    PROVE  PairInv'
  <1>1. CASE IssueCert
    <2>0. /\ command.session \in Sessions /\ command.at = "issue" /\ command.key \in Keys
          /\ command.flight \in Flight /\ <<command.session, command.key>> \in typed
      BY <1>1 DEF PairInv, ServerInv, IssueCert
    <2>1. \/ command' = Away /\ pinned' = pinned
          \/ /\ command' = [command EXCEPT !.at = "grant"]
             /\ pinned' = pinned \union {<<command.session, command.key>>}
      BY <1>1 DEF IssueCert, At, Sequel
    <2>a. /\ command' \in PairCommand
          /\ command'.at # "idle" => /\ command'.at = "grant" /\ command'.session = command.session
                                    /\ command'.flight = command.flight /\ command'.key = command.key
                                    /\ <<command.session, command.key>> \in pinned'
      <3>1. "grant" \in Phases /\ command \in PairCommand
        BY DEF Phases, PairInv, PairTypes
      <3> QED BY <2>1, <3>1, AwayCommand, MovedCommand
    <2>2. PairTypes'
      BY <1>1, <2>0, <2>1, <2>a DEF PairInv, PairTypes, IssueCert, mailbox, history
    <2>3. ServerInv'
      BY <1>1, <2>0, <2>a DEF ServerInv, IssueCert, history
    <2>4. OnlyTheCode'
      BY <1>1, <2>0, <2>1 DEF PairInv, OnlyTheCode, IssueCert, history
    <2> QED BY <1>1, <2>1, <2>2, <2>3, <2>4, SlotsKept, PhonesKept, DiskKept
            DEF PairInv, IssueCert, mailbox, history
  <1>2. CASE GrantKey
    <2>0. /\ command.session \in Sessions /\ command.at = "grant" /\ command.key \in Keys
          /\ command.flight \in Flight /\ <<command.session, command.key>> \in typed \intersect pinned
      BY <1>2 DEF PairInv, ServerInv, GrantKey
    <2>1. /\ command' = [command EXCEPT !.at = "send"]
          /\ granted' = granted \union {command.key}
      BY <1>2 DEF GrantKey, At, Sequel
    <2>a. /\ command' \in PairCommand /\ command'.at = "send" /\ command'.session = command.session
          /\ command'.flight = command.flight /\ command'.key = command.key
      <3>1. "send" \in Phases /\ command \in PairCommand
        BY DEF Phases, PairInv, PairTypes
      <3> QED BY <2>1, <3>1, MovedCommand
    <2>2. PairTypes'
      BY <1>2, <2>0, <2>1, <2>a DEF PairInv, PairTypes, GrantKey, mailbox, history
    <2>3. ServerInv'
      BY <1>2, <2>0, <2>1, <2>a DEF ServerInv, GrantKey, history
    <2> QED BY <1>2, <2>1, <2>2, <2>3, SlotsKept, PhonesKept, DiskKept
            DEF PairInv, GrantKey, OnlyTheCode, mailbox, history
  <1>3. CASE Complete
    <2> DEFINE flight == [flight |-> command.flight, key |-> command.key]
    <2>0. /\ command.session \in Sessions /\ command.at = "send" /\ command.key \in Keys
          /\ command.flight \in Flight /\ Admitted(command.key)
      BY <1>3 DEF PairInv, ServerInv, Complete, Admitted
    <2>1. /\ command' = [command EXCEPT !.at = "idle"]
          /\ Put(command.session, "D", flight)
      BY <1>3 DEF Complete, At, Sequel
    <2>2. flight \in Hello /\ flight.key = command.key
      BY <2>0 DEF Hello
    <2> HIDE DEF flight
    <2>3. /\ slot' \in [Sessions -> [Slots -> Payload]]
          /\ \A t \in Sessions, y \in Slots :
               slot'[t][y] = slot[t][y] \/ (t = command.session /\ y = "D" /\ slot'[t][y] = flight)
      <3>1. flight \in Payload /\ "D" \in Slots
        BY <2>2 DEF Payload, Slots
      <3> QED BY <2>0, <2>1, <3>1, PutSlot DEF PairInv
    <2>a. command' \in PairCommand /\ command'.at = "idle"
      <3>1. "idle" \in Phases /\ command \in PairCommand
        BY DEF Phases, PairInv, PairTypes
      <3> QED BY <2>1, <3>1, MovedCommand
    <2>4. PairTypes'
      BY <1>3, <2>a, <2>3 DEF PairInv, PairTypes, Complete, authority, history
    <2>5. ServerInv'
      BY <2>a DEF ServerInv
    <2>6. \A s \in Sessions : SlotInv(s)'
      BY <1>3, <2>0, <2>2, <2>3
      DEF PairInv, SlotInv, Slots, TypedFor, Admitted, Complete, authority, history
    <2> QED BY <1>3, <2>4, <2>5, <2>6, PhonesKept, DiskKept
            DEF PairInv, Complete, OnlyTheCode, authority, history
  <1> QED BY <1>1, <1>2, <1>3

(* A command that fails or dies leaves what it did. *)
LEMMA ServerStops ==
    ASSUME PairInv, WriteFails \/ ServerDies
    PROVE  PairInv'
  <1>1. /\ command' = Away /\ UNCHANGED <<mailbox, phone, disk, authority, history>>
    BY DEF WriteFails, ServerDies
  <1>2. PairTypes' /\ ServerInv'
    BY <1>1, AwayCommand DEF PairInv, PairTypes, ServerInv, mailbox, authority, history
  <1> QED BY <1>1, <1>2, SlotsKept, PhonesKept, DiskKept
          DEF PairInv, OnlyTheCode, mailbox, authority, history

-----------------------------------------------------------------------------
(* The steps of a phone. *)

LEMMA Goes ==
    ASSUME PairInv, NEW p \in Phones, NEW at \in Phases, Go(p, at)
    PROVE  /\ phone' \in [Phones -> PairCommand] /\ phone'[p].at = at
           /\ phone'[p].session = phone[p].session /\ phone'[p].flight = phone[p].flight
           /\ phone'[p].key = phone[p].key
           /\ \A q \in Phones \ {p} : phone'[q] = phone[q]
  <1>1. phone \in [Phones -> PairCommand] /\ phone[p] \in PairCommand
    BY DEF PairInv, PairTypes
  <1>2. phone' = [phone EXCEPT ![p] = [phone[p] EXCEPT !.at = at]]
    BY DEF Go
  <1>3. [phone[p] EXCEPT !.at = at] \in PairCommand
    BY <1>1, MovedCommand
  <1>4. phone'[p] = [phone[p] EXCEPT !.at = at]
    BY <1>1, <1>2
  <1>5. /\ phone'[p].at = at
        /\ phone'[p].session = phone[p].session /\ phone'[p].flight = phone[p].flight
        /\ phone'[p].key = phone[p].key
    BY <1>1, <1>4, MovedCommand
  <1> QED BY <1>1, <1>2, <1>3, <1>5

LEMMA Quits ==
    ASSUME PairInv, NEW p \in Phones, Quit(p)
    PROVE  /\ phone' \in [Phones -> PairCommand] /\ phone'[p].at = "idle"
           /\ \A q \in Phones \ {p} : phone'[q] = phone[q]
  BY AwayCommand DEF PairInv, PairTypes, Quit

(* A phone that goes on keeps its session, its flight and its key; before it has a
   certificate nothing more is asked of it. *)
LEMMA PhoneGoesOn ==
    ASSUME PairInv, NEW p \in Phones, phone[p].at # "idle",
           NEW at \in {"putB", "putC", "waitD"}, Go(p, at) \/ Quit(p),
           UNCHANGED <<typed, granted, pinned>>
    PROVE  phone' \in [Phones -> PairCommand] /\ \A q \in Phones : PhoneInv(q)'
  <1>1. at \in Phases
    BY DEF Phases
  <1>2. phone' \in [Phones -> PairCommand] /\ \A q \in Phones \ {p} : phone'[q] = phone[q]
    BY <1>1, Goes, Quits
  <1>3. PhoneInv(p)'
    <2>1. CASE Quit(p)
      BY <2>1, Quits DEF PhoneInv
    <2>2. CASE Go(p, at)
      <3>1. /\ phone'[p].at = at /\ phone'[p].session = phone[p].session
            /\ phone'[p].flight = phone[p].flight /\ phone'[p].key = phone[p].key
        BY <1>1, <2>2, Goes
      <3> QED BY <3>1 DEF PairInv, PhoneInv, TypedFor
    <2> QED BY <2>1, <2>2
  <1> QED BY <1>2, <1>3, PhonesKept

(* join: the code that was typed is on record with the key of the try. *)
LEMMA PhoneJoins ==
    ASSUME MaxTries \in Nat, PairInv,
           NEW p \in Phones, NEW s \in Sessions, NEW right \in BOOLEAN, Join(p, s, right)
    PROVE  PairInv'
  <1> DEFINE key == KeyAt(p, tries + 1)
  <1> DEFINE flight == [try |-> tries + 1, right |-> right]
  <1> DEFINE new == [at |-> "waitA", session |-> s, key |-> key, flight |-> flight]
  <1>1. tries \in Nat /\ tries < MaxTries /\ tries + 1 \in 1..MaxTries
    BY DEF PairInv, PairTypes, Join
  <1>2. key \in Keys
    <2>1. disk[p].key \in Keys \union {None}
      BY DEF PairInv, PairTypes, Stored
    <2> QED BY <1>1, <2>1 DEF KeyAt, Keys
  <1>3. flight \in Flight /\ flight.right = right
    BY <1>1 DEF Flight
  <1>4. phone' = [phone EXCEPT ![p] = new] /\ tries' = tries + 1
        /\ typed' = IF right THEN typed \union {<<s, key>>} ELSE typed
    BY DEF Join
  <1> HIDE DEF key, flight
  <1>5. new \in PairCommand
    BY <1>2, <1>3 DEF PairCommand, Phases
  <1>6. phone' \in [Phones -> PairCommand] /\ phone'[p] = new
        /\ \A q \in Phones \ {p} : phone'[q] = phone[q]
    BY <1>4, <1>5 DEF PairInv, PairTypes
  <1>7. typed \subseteq typed' /\ typed' \subseteq Sessions \X Keys
    BY <1>2, <1>4 DEF PairInv, PairTypes
  <1>8. PairTypes'
    BY <1>1, <1>4, <1>6, <1>7 DEF PairInv, PairTypes, Join, mailbox, authority
  <1>9. PhoneInv(p)'
    BY <1>2, <1>3, <1>4, <1>6 DEF PhoneInv, TypedFor
  <1>10. \A q \in Phones : PhoneInv(q)'
    BY <1>6, <1>7, <1>9, PhonesKept DEF Join, authority
  <1>11. ServerInv' /\ OnlyTheCode'
    BY <1>7 DEF PairInv, ServerInv, OnlyTheCode, Join, authority
  <1> QED BY <1>7, <1>8, <1>10, <1>11, SlotsKept, DiskKept DEF PairInv, Join, mailbox, authority

(* Reading slot A. *)
LEMMA PhoneReadsA ==
    ASSUME PairInv, NEW p \in Phones, WaitA(p)
    PROVE  PairInv'
  <1>1. phone[p].at # "idle" /\ (Go(p, "putB") \/ Quit(p))
        /\ UNCHANGED <<mailbox, command, disk, authority, history>>
    BY DEF WaitA
  <1>2. phone' \in [Phones -> PairCommand] /\ \A q \in Phones : PhoneInv(q)'
    BY <1>1, PhoneGoesOn DEF authority, history
  <1>3. PairTypes' /\ ServerInv' /\ OnlyTheCode'
    BY <1>1, <1>2 DEF PairInv, PairTypes, ServerInv, OnlyTheCode, mailbox, authority, history
  <1> QED BY <1>1, <1>2, <1>3, SlotsKept, DiskKept DEF PairInv, mailbox, authority, history

(* Flights B and C: what they carry is the phone's own. *)
LEMMA PhonePublishes ==
    ASSUME PairInv, NEW p \in Phones, PutB(p) \/ PutC(p)
    PROVE  PairInv'
  <1> DEFINE hello == [flight |-> phone[p].flight, key |-> phone[p].key]
  <1>0. /\ phone[p].at # "idle" /\ phone[p].session \in Sessions /\ phone[p].flight \in Flight
        /\ phone[p].key \in Keys /\ TypedFor(phone[p].session, phone[p].flight, phone[p].key)
    BY DEF PairInv, PhoneInv, PutB, PutC, Publish
  <1>1. hello \in Hello /\ hello.flight = phone[p].flight /\ hello.key = phone[p].key
    BY <1>0 DEF Hello
  <1>2. \/ Put(phone[p].session, "B", phone[p].flight)
        \/ Put(phone[p].session, "C", hello)
    BY DEF PutB, PutC, Publish
  <1> HIDE DEF hello
  <1>3. /\ slot' \in [Sessions -> [Slots -> Payload]]
        /\ \A t \in Sessions, y \in Slots :
             \/ slot'[t][y] = slot[t][y]
             \/ t = phone[p].session /\ y = "B" /\ slot'[t][y] = phone[p].flight
             \/ t = phone[p].session /\ y = "C" /\ slot'[t][y] = hello
    <2>1. "B" \in Slots /\ "C" \in Slots /\ hello \in Payload /\ phone[p].flight \in Payload
      BY <1>0, <1>1 DEF Payload, Slots
    <2> QED BY <1>0, <1>2, <2>1, PutSlot DEF PairInv
  <1>4. UNCHANGED <<command, disk, authority, history>>
    BY DEF PutB, PutC, Publish
  <1>5. \A s \in Sessions : SlotInv(s)'
    BY <1>0, <1>1, <1>3, <1>4 DEF PairInv, SlotInv, Slots, TypedFor, Admitted, authority, history
  <1>6. Go(p, "putC") \/ Go(p, "waitD") \/ Quit(p)
    BY DEF PutB, PutC, Publish
  <1>7. phone' \in [Phones -> PairCommand] /\ \A q \in Phones : PhoneInv(q)'
    BY <1>0, <1>4, <1>6, PhoneGoesOn DEF authority, history
  <1>8. PairTypes' /\ ServerInv' /\ OnlyTheCode'
    BY <1>3, <1>4, <1>7 DEF PairInv, PairTypes, ServerInv, OnlyTheCode, authority, history
  <1> QED BY <1>4, <1>5, <1>7, <1>8, DiskKept DEF PairInv, authority, history

(* await_cert: the certificate is for this phone's key, so the key is let in. *)
LEMMA PhoneReadsD ==
    ASSUME PairInv, NEW p \in Phones, WaitD(p)
    PROVE  PairInv'
  <1>0. /\ phone[p].at # "idle" /\ phone[p].session \in Sessions
        /\ UNCHANGED <<mailbox, command, disk, authority, history>>
    BY DEF PairInv, PhoneInv, WaitD
  <1>1. Quit(p) \/ (Go(p, "burn") /\ Admitted(phone[p].key))
    <2>1. Quit(p) \/ (/\ Go(p, "burn") /\ slot[phone[p].session]["D"] # None
                      /\ slot[phone[p].session]["D"].key = phone[p].key)
      BY DEF WaitD, Got, Outcome
    <2> QED BY <1>0, <2>1 DEF PairInv, SlotInv
  <1>2. "burn" \in Phases
    BY DEF Phases
  <1>3. phone' \in [Phones -> PairCommand] /\ \A q \in Phones \ {p} : phone'[q] = phone[q]
    BY <1>1, <1>2, Goes, Quits
  <1>4. PhoneInv(p)'
    <2>1. CASE Quit(p)
      BY <2>1, Quits DEF PhoneInv
    <2>2. CASE Go(p, "burn") /\ Admitted(phone[p].key)
      <3>1. /\ phone'[p].at = "burn" /\ phone'[p].session = phone[p].session
            /\ phone'[p].flight = phone[p].flight /\ phone'[p].key = phone[p].key
        BY <1>2, <2>2, Goes
      <3> QED BY <1>0, <2>2, <3>1 DEF PairInv, PhoneInv, TypedFor, Admitted, authority, history
    <2> QED BY <1>1, <2>1, <2>2
  <1>5. \A q \in Phones : PhoneInv(q)'
    BY <1>0, <1>3, <1>4, PhonesKept DEF authority, history
  <1>6. PairTypes' /\ ServerInv' /\ OnlyTheCode'
    BY <1>0, <1>3 DEF PairInv, PairTypes, ServerInv, OnlyTheCode, mailbox, authority, history
  <1> QED BY <1>0, <1>5, <1>6, SlotsKept, DiskKept DEF PairInv, mailbox, authority, history

(* The last reader retires the session. *)
LEMMA PhoneBurns ==
    ASSUME PairInv, NEW p \in Phones, BurnRead(p)
    PROVE  PairInv'
  <1>0. /\ phone[p].at = "burn" /\ phone[p].session \in Sessions
        /\ Burned(phone[p].session) /\ Go(p, "key")
        /\ UNCHANGED <<command, disk, authority, history>>
    BY DEF PairInv, PhoneInv, BurnRead
  <1>1. /\ slot' \in [Sessions -> [Slots -> Payload]]
        /\ \A t \in Sessions, y \in Slots : slot'[t][y] = slot[t][y] \/ slot'[t][y] = None
    BY <1>0, BurnedSlot DEF PairInv
  <1>2. "key" \in Phases
    BY DEF Phases
  <1>3. /\ phone' \in [Phones -> PairCommand] /\ phone'[p].at = "key"
        /\ phone'[p].session = phone[p].session /\ phone'[p].flight = phone[p].flight
        /\ phone'[p].key = phone[p].key
        /\ \A q \in Phones \ {p} : phone'[q] = phone[q]
    BY <1>0, <1>2, Goes
  <1>4. PhoneInv(p)'
    BY <1>0, <1>3 DEF PairInv, PhoneInv, TypedFor, Admitted, authority, history
  <1>5. \A q \in Phones : PhoneInv(q)'
    BY <1>0, <1>3, <1>4, PhonesKept DEF authority, history
  <1>6. PairTypes' /\ ServerInv' /\ OnlyTheCode'
    BY <1>0, <1>1, <1>3 DEF PairInv, PairTypes, ServerInv, OnlyTheCode, authority, history
  <1> QED BY <1>0, <1>1, <1>5, <1>6, SlotsKept, DiskKept DEF PairInv, authority, history

(* What is stored is the key of a phone that has its certificate. *)
LEMMA PhoneSaves ==
    ASSUME PairInv, NEW p \in Phones, SaveKey(p) \/ SaveCert(p) \/ SavePin(p)
    PROVE  PairInv'
  <1>0. /\ phone[p].at \in {"key", "cert", "pin"} /\ phone[p].key \in Keys
        /\ Admitted(phone[p].key)
        /\ Go(p, "cert") \/ Go(p, "pin") \/ Quit(p)
        /\ UNCHANGED <<mailbox, command, authority, history>>
    BY DEF PairInv, PhoneInv, SaveKey, SaveCert, SavePin
  <1>1. "cert" \in Phases /\ "pin" \in Phases
    BY DEF Phases
  <1>2. phone' \in [Phones -> PairCommand] /\ \A q \in Phones \ {p} : phone'[q] = phone[q]
    BY <1>0, <1>1, Goes, Quits
  <1>3. PhoneInv(p)'
    <2>1. CASE Quit(p)
      BY <2>1, Quits DEF PhoneInv
    <2>2. ASSUME NEW at \in {"cert", "pin"}, Go(p, at)
          PROVE  PhoneInv(p)'
      <3>1. /\ phone'[p].at = at /\ phone'[p].session = phone[p].session
            /\ phone'[p].flight = phone[p].flight /\ phone'[p].key = phone[p].key
        BY <1>1, <2>2, Goes
      <3> QED BY <1>0, <3>1 DEF PairInv, PhoneInv, TypedFor, Admitted, authority, history
    <2> QED BY <1>0, <2>1, <2>2
  <1>4. \A q \in Phones : PhoneInv(q)'
    BY <1>0, <1>2, <1>3, PhonesKept DEF authority, history
  <1>5. /\ disk' \in [Phones -> Stored]
        /\ \A q \in Phones : /\ disk'[q].key = disk[q].key \/ disk'[q].key = phone[p].key
                             /\ disk'[q].cert = disk[q].cert \/ disk'[q].cert = phone[p].key
    <2>0. disk \in [Phones -> Stored]
      BY DEF PairInv, PairTypes
    <2>1. CASE disk' = [disk EXCEPT ![p].key = phone[p].key]
      BY <1>0, <2>0, <2>1 DEF Stored
    <2>2. CASE disk' = [disk EXCEPT ![p].cert = phone[p].key]
      BY <1>0, <2>0, <2>2 DEF Stored
    <2>3. CASE disk' = [disk EXCEPT ![p].pin = TRUE]
      BY <2>0, <2>3 DEF Stored
    <2> QED BY <2>1, <2>2, <2>3 DEF SaveKey, SaveCert, SavePin
  <1>6. CertMeansAccess'
    BY <1>0, <1>5 DEF PairInv, CertMeansAccess, Admitted, authority, history
  <1>7. PairTypes' /\ ServerInv' /\ OnlyTheCode'
    BY <1>0, <1>2, <1>5 DEF PairInv, PairTypes, ServerInv, OnlyTheCode, mailbox, authority, history
  <1> QED BY <1>0, <1>4, <1>6, <1>7, SlotsKept DEF PairInv, mailbox, authority, history

(* A phone that dies takes its key with it, unless it was stored. *)
LEMMA PhoneStops ==
    ASSUME PairInv, NEW p \in Phones, PhoneDies(p)
    PROVE  PairInv'
  <1>0. Quit(p) /\ UNCHANGED <<mailbox, command, disk, authority, history>>
    BY DEF PhoneDies
  <1>1. /\ phone' \in [Phones -> PairCommand] /\ phone'[p].at = "idle"
        /\ \A q \in Phones \ {p} : phone'[q] = phone[q]
    BY <1>0, Quits
  <1>2. PhoneInv(p)'
    BY <1>1 DEF PhoneInv
  <1>3. \A q \in Phones : PhoneInv(q)'
    BY <1>0, <1>1, <1>2, PhonesKept DEF authority, history
  <1>4. PairTypes' /\ ServerInv' /\ OnlyTheCode'
    BY <1>0, <1>1 DEF PairInv, PairTypes, ServerInv, OnlyTheCode, mailbox, authority, history
  <1> QED BY <1>0, <1>3, <1>4, SlotsKept, DiskKept DEF PairInv, mailbox, authority, history

-----------------------------------------------------------------------------
(* Time, the relay and the operator. *)

(* A session that expires, or that a restarted relay has forgotten, is empty; a
   revocation takes no pin and no grant away. *)
LEMMA OthersKeep ==
    ASSUME PairInv, (\E s \in Sessions : Expire(s)) \/ RelayRestarts \/ (\E k \in Keys : RevokeKey(k))
    PROVE  PairInv'
  <1>1. UNCHANGED <<command, phone, disk, pinned, granted, history>>
    BY DEF Expire, RelayRestarts, RevokeKey, authority
  <1>2. /\ slot' \in [Sessions -> [Slots -> Payload]]
        /\ \A t \in Sessions, y \in Slots : slot'[t][y] = slot[t][y] \/ slot'[t][y] = None
    <2>1. CASE \E s \in Sessions : Expire(s)
      BY <2>1, BurnedSlot DEF PairInv, Expire
    <2>2. CASE RelayRestarts
      BY <2>2 DEF RelayRestarts, Payload
    <2>3. CASE \E k \in Keys : RevokeKey(k)
      BY <2>3 DEF PairInv, PairTypes, RevokeKey, mailbox
    <2> QED BY <2>1, <2>2, <2>3
  <1>3. PairTypes' /\ ServerInv' /\ OnlyTheCode'
    BY <1>1, <1>2 DEF PairInv, PairTypes, ServerInv, OnlyTheCode, history
  <1> QED BY <1>1, <1>2, <1>3, SlotsKept, PhonesKept, DiskKept DEF PairInv, history

(* Nothing happens. *)
LEMMA PairStutter ==
    ASSUME PairInv, UNCHANGED pairVars
    PROVE  PairInv'
  <1>1. PairTypes' /\ ServerInv' /\ OnlyTheCode'
    BY DEF PairInv, PairTypes, ServerInv, OnlyTheCode, pairVars
  <1> QED BY <1>1, SlotsKept, PhonesKept, DiskKept DEF PairInv, pairVars

(* Every step of either command, of the relay and of the operator keeps PairInv. *)
LEMMA PairKeeps == ASSUME MaxTries \in Nat, PairInv, [PairNext]_(pairVars) PROVE PairInv'
  <1>1. CASE UNCHANGED pairVars
    BY <1>1, PairStutter
  <1>2. CASE Begin \/ ServerStep \/ WriteFails \/ ServerDies
    BY <1>2, ServerBegins, ServerReceives, ServerFinishes, ServerStops DEF ServerStep
  <1>3. ASSUME NEW p \in Phones, NEW s \in Sessions, NEW right \in BOOLEAN, Join(p, s, right)
        PROVE  PairInv'
    BY <1>3, PhoneJoins
  <1>4. ASSUME NEW p \in Phones, PhoneStep(p) \/ PhoneDies(p)
        PROVE  PairInv'
    BY <1>4, PhoneReadsA, PhonePublishes, PhoneReadsD, PhoneBurns, PhoneSaves, PhoneStops DEF PhoneStep
  <1>5. CASE (\E s \in Sessions : Expire(s)) \/ RelayRestarts \/ (\E k \in Keys : RevokeKey(k))
    BY <1>5, OthersKeep
  <1> QED BY <1>1, <1>2, <1>3, <1>4, <1>5 DEF PairNext

(* PairInv holds in every reachable state of the pairing.  (How many joins there may
   be is a number.) *)
THEOREM PairingInvariance == ASSUME MaxTries \in Nat PROVE PairSpec => []PairInv
  <1>1. PairInv /\ [PairNext]_(pairVars) => PairInv'
    BY PairKeeps
  <1> QED BY <1>1, PairInvInit, PTL DEF PairSpec

(* Only a phone that typed the session's code is pinned by it (receive, verify_mac),
   for every number of phones, sessions, tries and faults. *)
THEOREM CodeTheorem == ASSUME MaxTries \in Nat PROVE PairSpec => []OnlyTheCode
  <1>1. PairInv => OnlyTheCode
    BY DEF PairInv
  <1> QED BY <1>1, PairingInvariance, PTL

(* What a phone has stored is pinned and granted (cmd_pair_server, join_pairing),
   for every number of phones, sessions, tries and faults. *)
THEOREM AccessTheorem == ASSUME MaxTries \in Nat PROVE PairSpec => []CertMeansAccess
  <1>1. PairInv => CertMeansAccess
    BY DEF PairInv
  <1> QED BY <1>1, PairingInvariance, PTL
================================================================================
