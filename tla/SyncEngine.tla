------------------------------ MODULE SyncEngine ------------------------------
(***************************************************************************)
(* Harness config sync: one file, kept on several machines with no         *)
(* authority among them.  Each machine counts its own revisions in a       *)
(* version vector, keeps every revision in an append-only history, and     *)
(* takes a peer's payload only when the vectors say that the sender had    *)
(* seen what is on disk here; otherwise it keeps both copies.              *)
(*                                                                         *)
(* A machine has two workers that share its file and its store and no      *)
(* lock: the command line (`arreo sync push, payload, apply, revert,       *)
(* merge`), which the operator runs one at a time, and the daemon, which   *)
(* serves Message::Sync.  Every file operation and every SQL statement is  *)
(* a step of its own, and a worker may die between two of them.            *)
(*                                                                         *)
(* A document is a function from the keys it sets to the text of their     *)
(* values; a value may be a reference to a variable, spelled as the        *)
(* harness spells it (native) or in the neutral form that travels.         *)
(***************************************************************************)
EXTENDS Naturals, Sequences, FiniteSets

CONSTANTS
    Machine,     \* the machines that hold the file, by device id
    Absent,      \* no file
    Documents,   \* what an operator may type into the file
    Clean,       \* the texts that Validate lets travel
    Resolves,    \* [Machine -> the texts whose references the machine resolves]
    Neutral,     \* [text -> its neutral spelling]
    Native,      \* [text -> this harness's spelling of it]
    Siblings,    \* the machines that start with a sibling extension
    SiblingDoc,  \* the document in it
    Overlaps,    \* whether the workers of a machine may overlap: subset of BOOLEAN
    MaxCounter,  \* bound on the revisions a machine counts
    MaxEdits,    \* bound on the operators' edits, all machines together
    MaxHistory,  \* bound on the revisions in a machine's history
    MaxWire,     \* bound on the payloads ever produced
    MaxCrashes   \* bound on the workers that die

Worker == {"cli", "daemon"}

Texts == DOMAIN Native
Keys  == UNION {DOMAIN doc : doc \in Documents \cup {SiblingDoc}}
Doc   == UNION {[K -> Texts] : K \in SUBSET Keys}

ASSUME SyncAssumption ==
    /\ Native \in [Texts -> Texts] /\ Neutral \in [Texts -> Texts]
    /\ Documents \subseteq Doc /\ SiblingDoc \in Doc /\ Absent \notin Doc
    /\ Siblings \subseteq Machine
    /\ Overlaps \subseteq BOOLEAN
    /\ MaxCounter \in Nat /\ MaxEdits \in Nat /\ MaxWire \in Nat /\ MaxHistory \in Nat /\ MaxCrashes \in Nat

VARIABLES
    live,      \* the file on each machine, or Absent
    sibling,   \* the sibling extension the harness would merge, or Absent
    copies,    \* the conflict copies beside the file: [from, doc]
    vector,    \* sync_vectors: each machine's counter of every machine
    history,   \* sync_revisions, oldest first: [by, counter, reason, doc]
    job,       \* what each worker of each machine is doing
    wire,      \* every payload ever produced: a payload may arrive late, twice or never
    seen,      \* every document, in native spelling, that the file on a machine, or
               \* on a machine whose revision it took, has held (auxiliary)
    overlap,   \* whether the workers overlap in this behaviour
    edits,     \* edits so far
    crashes    \* workers that died so far

fileVars  == <<live, sibling, copies>>
storeVars == <<vector, history>>
envVars   == <<overlap, edits, crashes>>
vars == <<fileVars, storeVars, job, wire, seen, envVars>>

Idle == [pc |-> "idle"]

-----------------------------------------------------------------------------
(* Documents. *)

(* keychain::normalize and denormalize: value spans that are references are
   rewritten, everything else stays. *)
Normalize(doc)   == [k \in DOMAIN doc |-> Neutral[doc[k]]]
Denormalize(doc) == [k \in DOMAIN doc |-> Native[doc[k]]]

(* SyncEngine::validate: deny rules, absolute paths, the secret scan and
   machine-local fields. *)
Validate(doc) == \A k \in DOMAIN doc : doc[k] \in Clean

(* keychain::plan: does this machine resolve every name the file references? *)
Complete(m, doc) == \A k \in DOMAIN doc : doc[k] \in Resolves[m]

(* merge::merge_json, folded over the documents: every key of each of them.  A key
   that two of them set to different values refuses the merge. *)
Clash(docs) ==
    \E a, b \in docs : \E k \in DOMAIN a \cap DOMAIN b : a[k] # b[k]

MergeJson(docs) ==
    [k \in UNION {DOMAIN d : d \in docs} |-> (CHOOSE d \in docs : k \in DOMAIN d)[k]]

-----------------------------------------------------------------------------
(* Version vectors. *)

Dominates(a, b) == (\A n \in Machine : a[n] >= b[n]) /\ (\E n \in Machine : a[n] > b[n])

(* Faulty: newest write wins. *)
RelationNewestWins(a, b) ==
    CASE a = b -> "same"
      [] Dominates(a, b) -> "newer"
      [] OTHER -> "older"

Relation(a, b) ==
    CASE a = b -> "same"
      [] Dominates(a, b) -> "newer"
      [] Dominates(b, a) -> "older"
      [] OTHER -> "concurrent"

-----------------------------------------------------------------------------
(* The history. *)

Recorded(m) == {history[m][i].doc : i \in DOMAIN history[m]}

(* SyncEngine::newest_bytes: the last revision recorded, whoever made it. *)
Newest(m) == IF history[m] = <<>> THEN Absent ELSE history[m][Len(history[m])].doc

(* Faulty: the vector alone decides. *)
LiveIsRecordedAlways(m, current) == TRUE

(* receive: is what is on disk the newest recorded revision?  Without it an edit
   that was never pushed would be overwritten. *)
LiveIsRecorded(m, current) == current = Absent \/ current = Newest(m)

(* The claims a payload makes about the counter of the machine it arrives at. *)
Forged(m, w, pay, base) ==
    \* serve_sync builds the engine with the identity of the peer, so a payload
    \* that comes over the mesh counts as this machine's own and is not checked
    /\ w = "cli" /\ pay.machine # m
    /\ pay.vector[m] > base[m]

-----------------------------------------------------------------------------
(* Workers. *)

Set(m, w, j) == job' = [job EXCEPT ![m][w] = j]
At(m, w, pc) == job[m][w].pc = pc
Quiet        == \A m \in Machine, w \in Worker : At(m, w, "idle")

(* Commands run one at a time unless workers overlap.  (Steps of different
   machines commute: they meet only in the payloads on the wire.) *)
MayStart(m, w) ==
    At(m, w, "idle") /\ (overlap \/ Quiet) /\ Len(history[m]) < MaxHistory

Init ==
    /\ live = [m \in Machine |-> Absent]
    /\ sibling = [m \in Machine |-> IF m \in Siblings THEN SiblingDoc ELSE Absent]
    /\ copies = [m \in Machine |-> {}]
    /\ vector = [m \in Machine |-> [n \in Machine |-> 0]]
    /\ history = [m \in Machine |-> <<>>]
    /\ job = [m \in Machine |-> [w \in Worker |-> Idle]]
    /\ wire = {}
    /\ seen = [m \in Machine |-> {}]
    /\ overlap \in Overlaps
    /\ edits = 0 /\ crashes = 0

(* The operator types a document into the file. *)
Edit(m) ==
    /\ edits < MaxEdits
    /\ overlap \/ Quiet
    /\ \E doc \in Documents \ {live[m]} :
        /\ live' = [live EXCEPT ![m] = doc]
        /\ seen' = [seen EXCEPT ![m] = @ \cup {Denormalize(doc)}]
    /\ edits' = edits + 1
    /\ UNCHANGED <<sibling, copies, storeVars, job, wire, overlap, crashes>>

-----------------------------------------------------------------------------
(* push, and the first half of payload: read and validate the file, compare
   it with the newest revision, count, record. *)

PushRead(m) ==
    /\ MayStart(m, "cli")
    /\ live[m] # Absent /\ Validate(live[m])
    /\ \E op \in {"push", "payload"} :
         /\ op = "payload" => Cardinality(wire) < MaxWire
         /\ Set(m, "cli", [pc |-> "compare", op |-> op, doc |-> live[m]])
    /\ UNCHANGED <<fileVars, storeVars, wire, seen, envVars>>

(* Where push ends: `payload` goes on to read the file a second time. *)
AfterPush(j) == IF j.op = "payload" THEN [pc |-> "read", op |-> "payload"] ELSE Idle

PushUnchanged(m) ==
    /\ At(m, "cli", "compare")
    /\ job[m]["cli"].doc = Newest(m)
    /\ Set(m, "cli", AfterPush(job[m]["cli"]))
    /\ UNCHANGED <<fileVars, storeVars, wire, seen, envVars>>

PushChanged(m) ==
    /\ At(m, "cli", "compare")
    /\ job[m]["cli"].doc # Newest(m)
    /\ Set(m, "cli", [job[m]["cli"] EXCEPT !.pc = "count"])
    /\ UNCHANGED <<fileVars, storeVars, wire, seen, envVars>>

(* Vector::bump and sync_set_counter, which push, revert and merge share. *)
Count(m) ==
    /\ At(m, "cli", "count")
    /\ vector[m][m] < MaxCounter
    /\ vector' = [vector EXCEPT ![m][m] = @ + 1]
    /\ Set(m, "cli", [job[m]["cli"] EXCEPT !.pc = "record"])
    /\ UNCHANGED <<fileVars, history, wire, seen, envVars>>

AfterRecord(j) ==
    IF j.op = "merge" THEN [pc |-> "consume", op |-> "merge", used |-> j.used] ELSE AfterPush(j)

Record(m) ==
    LET j == job[m]["cli"] IN
    /\ At(m, "cli", "record")
    /\ history' = [history EXCEPT ![m] =
                     Append(@, [by |-> m, counter |-> vector[m][m], reason |-> "own", doc |-> j.doc])]
    /\ Set(m, "cli", AfterRecord(j))
    /\ UNCHANGED <<fileVars, vector, wire, seen, envVars>>

(* payload reads the file again ... *)
PayloadRead(m) ==
    /\ At(m, "cli", "read")
    /\ live[m] # Absent
    /\ Set(m, "cli", [pc |-> "stamp", op |-> "payload", doc |-> live[m], knows |-> seen[m]])
    /\ UNCHANGED <<fileVars, storeVars, wire, seen, envVars>>

(* ... and then the vector, and neutralises the references. *)
PayloadStamp(m) ==
    LET j   == job[m]["cli"]
        pay == [machine |-> m, vector |-> vector[m], doc |-> Normalize(j.doc), knows |-> j.knows]
    IN
    /\ At(m, "cli", "stamp")
    /\ wire' = wire \cup {pay}
    /\ Set(m, "cli", Idle)
    /\ UNCHANGED <<fileVars, storeVars, seen, envVars>>

-----------------------------------------------------------------------------
(* receive: the daemon for a peer's Message::Sync, the command line for
   `apply`, which also takes a payload of this machine itself. *)

ReceiveRead(m, w) ==
    /\ MayStart(m, w)
    /\ \E pay \in wire :
        LET doc == Denormalize(pay.doc) IN
        /\ w = "daemon" => pay.machine # m
        /\ Validate(doc) /\ Complete(m, doc)
        /\ Set(m, w, [pc |-> "judge", op |-> "receive", pay |-> pay, doc |-> doc, current |-> live[m]])
    /\ UNCHANGED <<fileVars, storeVars, wire, seen, envVars>>

(* The verdict, from the vector and the newest revision as they are now. *)
Verdict(m, w) ==
    LET j == job[m][w] IN
    IF Forged(m, w, j.pay, vector[m]) THEN "forged"
    ELSE IF j.current = j.doc THEN "uptodate"
    ELSE IF ~LiveIsRecorded(m, j.current) THEN "conflict"
    ELSE CASE Relation(vector[m], j.pay.vector) \in {"newer", "same"} -> "uptodate"
           [] Relation(vector[m], j.pay.vector) = "older" -> "apply"
           [] OTHER -> "conflict"

(* check_sibling refuses a write that would put two configs live at once. *)
ReceiveRefuse(m, w) ==
    /\ At(m, w, "judge")
    /\ \/ Verdict(m, w) = "forged"
       \/ Verdict(m, w) \in {"apply", "conflict"} /\ sibling[m] # Absent
    /\ Set(m, w, Idle)
    /\ UNCHANGED <<fileVars, storeVars, wire, seen, envVars>>

ReceiveUpToDate(m, w) ==
    /\ At(m, w, "judge")
    /\ Verdict(m, w) = "uptodate"
    /\ Set(m, w, [pc |-> "absorb", op |-> "receive", pay |-> job[m][w].pay, base |-> vector[m]])
    /\ UNCHANGED <<fileVars, storeVars, wire, seen, envVars>>

ReceiveDecide(m, w) ==
    /\ At(m, w, "judge")
    /\ Verdict(m, w) \in {"apply", "conflict"}
    /\ sibling[m] = Absent
    /\ Set(m, w, [pc |-> IF Verdict(m, w) = "apply" THEN "write" ELSE "copy",
                  op |-> "receive", pay |-> job[m][w].pay, doc |-> job[m][w].doc,
                  base |-> vector[m]])
    /\ UNCHANGED <<fileVars, storeVars, wire, seen, envVars>>

ReceiveWrite(m, w) ==
    LET j == job[m][w] IN
    /\ At(m, w, "write")
    /\ live' = [live EXCEPT ![m] = j.doc]
    /\ seen' = [seen EXCEPT ![m] = @ \cup j.pay.knows \cup {Denormalize(j.doc)}]
    /\ Set(m, w, [j EXCEPT !.pc = "log"])
    /\ UNCHANGED <<sibling, copies, storeVars, wire, envVars>>

(* conflict_path names a copy by the sender and the second: two conflicts with
   one sender in one second share a name, and the second replaces the first. *)
ReceiveCopy(m, w) ==
    LET j   == job[m][w]
        new == [from |-> j.pay.machine, doc |-> j.doc]
    IN
    /\ At(m, w, "copy")
    /\ \/ copies' = [copies EXCEPT ![m] = @ \cup {new}]
       \/ \E old \in copies[m] :
            /\ old.from = new.from /\ old.doc \in Recorded(m)
            /\ copies' = [copies EXCEPT ![m] = (@ \ {old}) \cup {new}]
    /\ Set(m, w, [j EXCEPT !.pc = "logcopy"])
    /\ UNCHANGED <<live, sibling, storeVars, wire, seen, envVars>>

LogOf(m, j, reason) ==
    Append(history[m], [by |-> j.pay.machine, counter |-> j.pay.vector[j.pay.machine],
                        reason |-> reason, doc |-> j.doc])

ReceiveLog(m, w) ==
    LET j == job[m][w] IN
    /\ At(m, w, "log")
    /\ history' = [history EXCEPT ![m] = LogOf(m, j, "sync")]
    /\ Set(m, w, [pc |-> "absorb", op |-> "receive", pay |-> j.pay, base |-> j.base])
    /\ UNCHANGED <<fileVars, vector, wire, seen, envVars>>

(* Keep both: the copy is recorded, and the vector stays as it is. *)
ReceiveLogCopy(m, w) ==
    /\ At(m, w, "logcopy")
    /\ history' = [history EXCEPT ![m] = LogOf(m, job[m][w], "conflict")]
    /\ Set(m, w, Idle)
    /\ UNCHANGED <<fileVars, vector, wire, seen, envVars>>

(* The counter absorb writes: the larger of the one read with the verdict and the
   sender's own. *)
Taken(base, pay) ==
    IF base[pay.machine] >= pay.vector[pay.machine]
      THEN base[pay.machine] ELSE pay.vector[pay.machine]

(* Faulty: one more than the sender has counted. *)
AbsorbedNext(m, base, pay) == [vector[m] EXCEPT ![pay.machine] = pay.vector[pay.machine] + 1]

(* absorb: only the sender's own counter moves, and only if it is news. *)
Absorbed(m, base, pay) ==
    IF Taken(base, pay) = base[pay.machine] THEN vector[m]
    ELSE [vector[m] EXCEPT ![pay.machine] = Taken(base, pay)]

ReceiveAbsorb(m, w) ==
    LET j == job[m][w] IN
    /\ At(m, w, "absorb")
    /\ vector' = [vector EXCEPT ![m] = Absorbed(m, j.base, j.pay)]
    /\ seen' = [seen EXCEPT ![m] = IF vector'[m] = vector[m] THEN @ ELSE @ \cup j.pay.knows]
    /\ Set(m, w, Idle)
    /\ UNCHANGED <<fileVars, history, wire, envVars>>

-----------------------------------------------------------------------------
(* revert: any revision by its id, or the newest that differs from the file;
   the file is written, then the revision counted and recorded. *)

RevertRead(m) ==
    /\ MayStart(m, "cli")
    /\ \E doc \in Recorded(m) :
         Set(m, "cli", [pc |-> "replace", op |-> "revert", doc |-> doc])
    /\ UNCHANGED <<fileVars, storeVars, wire, seen, envVars>>

(* The write of revert and merge. *)
Replace(m) ==
    LET j == job[m]["cli"] IN
    /\ At(m, "cli", "replace")
    /\ live' = [live EXCEPT ![m] = j.doc]
    /\ seen' = [seen EXCEPT ![m] = @ \cup {Denormalize(j.doc)}]
    /\ Set(m, "cli", [j EXCEPT !.pc = "count"])
    /\ UNCHANGED <<sibling, copies, storeVars, wire, envVars>>

(* merge: the file, every copy and the sibling folded into one document. *)
Sources(m) == {c.doc : c \in copies[m]} \cup ({sibling[m]} \ {Absent})

Merged(m) == MergeJson(Sources(m) \cup {live[m]})

MergeRead(m) ==
    /\ MayStart(m, "cli")
    /\ live[m] # Absent /\ Sources(m) # {}
    /\ ~Clash(Sources(m) \cup {live[m]})
    /\ Set(m, "cli", [pc |-> "aside", op |-> "merge", doc |-> Merged(m), used |-> copies[m]])
    /\ UNCHANGED <<fileVars, storeVars, wire, seen, envVars>>

(* The sibling is renamed, and kept, before the merged file is written. *)
MergeAside(m) ==
    /\ At(m, "cli", "aside")
    /\ sibling' = [sibling EXCEPT ![m] = Absent]
    /\ Set(m, "cli", [job[m]["cli"] EXCEPT !.pc = "replace"])
    /\ UNCHANGED <<live, copies, storeVars, wire, seen, envVars>>

MergeConsume(m) ==
    /\ At(m, "cli", "consume")
    /\ copies' = [copies EXCEPT ![m] = @ \ job[m]["cli"].used]
    /\ Set(m, "cli", Idle)
    /\ UNCHANGED <<live, sibling, storeVars, wire, seen, envVars>>

(* A worker dies between two steps. *)
Crash(m, w) ==
    /\ ~At(m, w, "idle") /\ crashes < MaxCrashes
    /\ Set(m, w, Idle)
    /\ crashes' = crashes + 1
    /\ UNCHANGED <<fileVars, storeVars, wire, seen, overlap, edits>>

-----------------------------------------------------------------------------
Push(m)        == PushRead(m) \/ PushUnchanged(m) \/ PushChanged(m) \/ Count(m) \/ Record(m)
Payload(m)     == PayloadRead(m) \/ PayloadStamp(m)
Receive(m, w)  == \/ ReceiveRead(m, w) \/ ReceiveRefuse(m, w) \/ ReceiveUpToDate(m, w)
                  \/ ReceiveDecide(m, w) \/ ReceiveWrite(m, w) \/ ReceiveCopy(m, w)
                  \/ ReceiveLog(m, w) \/ ReceiveLogCopy(m, w) \/ ReceiveAbsorb(m, w)
Reconcile(m)   == RevertRead(m) \/ MergeRead(m) \/ MergeAside(m) \/ Replace(m) \/ MergeConsume(m)

Next ==
    \E m \in Machine :
        \/ Edit(m) \/ Push(m) \/ Payload(m) \/ Reconcile(m)
        \/ \E w \in Worker : Receive(m, w) \/ Crash(m, w)

Spec == Init /\ [][Next]_vars

-----------------------------------------------------------------------------
(* Properties. *)

(* No machine, no payload and no worker ever believes a counter that its machine
   has not issued, whatever is lost, repeated, overlapped or cut short: the
   refusal ForgedVector is for a sender that is not honest. *)
HonestCounters ==
    \A n \in Machine :
        /\ \A m \in Machine : vector[m][n] <= vector[n][n]
        /\ \A pay \in wire : pay.vector[n] <= vector[n][n]
        /\ \A m \in Machine, w \in Worker :
              At(m, w, "absorb") => job[m][w].base[n] <= vector[n][n]

(* The newest revision is one that this machine made itself: push, revert, merge. *)
OwnNewest(m) == history[m] # <<>> /\ history[m][Len(history[m])].reason = "own"

(* Never a silent last writer: a receive that is about to replace what this machine
   has published replaces a document that the sender, or a machine whose revision
   the sender took, had itself on disk, also after a worker has died.  For workers
   that do not overlap. *)
ReplacesOnlySeen ==
    ~overlap =>
        \A m \in Machine, w \in Worker :
            At(m, w, "write") /\ live[m] # Absent /\ OwnNewest(m)
                => Denormalize(live[m]) \in job[m][w].pay.knows

(* The same of whatever is on disk, the revisions that came from elsewhere too. *)
NeverLastWriterWins ==
    \A m \in Machine, w \in Worker :
        At(m, w, "judge") /\ Verdict(m, w) = "apply" /\ job[m][w].current # Absent
            => Denormalize(job[m][w].current) \in job[m][w].pay.knows

(* What a document says is still there when it is in the file or in the history. *)
Kept(m, doc) ==
    \E d \in Recorded(m) \cup ({live[m]} \ {Absent}) : ~Clash({doc, d}) /\ DOMAIN doc \subseteq DOMAIN d

OnDisk(m) == {c.doc : c \in copies[m]} \cup ({live[m]} \ {Absent})

(* A receive or a merge never takes from the disk what is not kept: the edit that
   was not pushed, the copy that a merge consumes.  Only the operator, by typing
   or by revert, does.  (The sibling is renamed, not removed.) *)
NothingTakenAway ==
    [][\A m \in Machine :
         ~overlap /\ edits' = edits /\ (job[m]["cli"] # Idle => job[m]["cli"].op # "revert")
            => \A doc \in OnDisk(m) : doc \in OnDisk(m)' \/ Kept(m, doc)']_vars

=============================================================================
