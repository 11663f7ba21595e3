-------------------------------- MODULE Pairing --------------------------------
(***************************************************************************)
(* `arreo pair`: a server command and the phones that answer its invite,   *)
(* through four write-once slots of a mailbox that the relay keeps in      *)
(* memory.  Every party has a clock of its own; any of them may die, a     *)
(* reply of the mailbox may be lost after the request was applied, and     *)
(* several phones may answer one invite, with the right code or a wrong    *)
(* one.                                                                    *)
(*                                                                         *)
(* SPAKE2 is external: the two sides hold the same key when the phone      *)
(* typed the session's code and the flights are the ones each side sent.   *)
(* A flight is named by the try that made it.                              *)
(***************************************************************************)
EXTENDS Naturals

CONSTANTS
    Phones,
    None,
    MaxSessions,  \* bound on the pairings the server begins
    MaxTries,     \* bound on the joins, of all phones
    MaxFaults     \* bound on deaths, lost replies, failed writes and restarts

ASSUME PairingAssumption ==
    MaxSessions \in Nat /\ MaxTries \in Nat /\ MaxFaults \in Nat

Sessions == 1..MaxSessions
Slots    == {"A", "B", "C", "D"}
Keys     == Phones \X (1..MaxTries)   \* a device key: the phone, and the try that made it

VARIABLES
    box,      \* [Sessions -> "unopened", "live" or "over"]
    slot,     \* [Sessions -> [Slots -> a flight, or None]]
    command,  \* the server's command
    phone,    \* [Phones -> the phone's command]
    disk,     \* [Phones -> the key, the certificate and the server key it stored]
    pinned,   \* <<session, key>> the authority issued a certificate for
    granted,  \* keys the ledger of the server's machine lets in
    revoked,  \* keys an operator revoked
    invites,  \* sessions whose invite was shown
    typed,    \* <<session, key>> of the phones that typed the session's code
    tries,    \* joins so far
    faults

pairVars == <<box, slot, command, phone, disk, pinned, granted, revoked, invites, typed, tries,
              faults>>

mailbox   == <<box, slot>>
authority == <<pinned, granted, revoked>>
history   == <<invites, typed, tries>>

Away == [at |-> "idle", session |-> 0, flight |-> None, key |-> None]

PairInit ==
    /\ box = [s \in Sessions |-> "unopened"]
    /\ slot = [s \in Sessions |-> [x \in Slots |-> None]]
    /\ command = Away
    /\ phone = [p \in Phones |-> Away]
    /\ disk = [p \in Phones |-> [key |-> None, cert |-> None, pin |-> FALSE]]
    /\ pinned = {} /\ granted = {} /\ revoked = {}
    /\ invites = {} /\ typed = {} /\ tries = 0 /\ faults = 0

Fault == faults < MaxFaults /\ faults' = faults + 1

-----------------------------------------------------------------------------
(* The mailbox, and its client. *)

Writable(s, x) == box[s] = "live" /\ slot[s][x] = None

(* handle(Put): a session that is not live, or a slot that is taken, refuses. *)
Put(s, x, flight) ==
    slot' = IF Writable(s, x) THEN [slot EXCEPT ![s][x] = flight] ELSE slot

(* handle(Burn): the payloads go with the session. *)
Burned(s) ==
    /\ box' = [box EXCEPT ![s] = IF @ = "live" THEN "over" ELSE @]
    /\ slot' = [slot EXCEPT ![s] = [x \in Slots |-> None]]

(* Faulty: an error of the mailbox is retried, and the deadline is not looked at. *)
OutcomePatient(s, x) == IF slot[s][x] # None THEN "got" ELSE "wait"

(* wait_for, its last poll: the read, and only then the deadline. *)
Outcome(s, x) ==
    CASE box[s] # "live"    -> "error"
      [] slot[s][x] # None  -> "got"
      [] OTHER              -> "timeout"

(* The flight of slot x is read, or the wait ends without it. *)
Got(s, x)    == Outcome(s, x) = "got"
Failed(s, x) == Outcome(s, x) \in {"error", "timeout"}

(* A reply that does not come is an error of the request, applied or not. *)
Lost(w) == w => Fault
Kept(w) == ~w => UNCHANGED faults

(* Faulty: any tag passes. *)
VerifyMacAny(flight, hello) == TRUE

(* verify_mac, on the server: its key comes from flight B and the code. *)
VerifyMac(flight, hello) == hello.flight = flight /\ flight.right

-----------------------------------------------------------------------------
(* The server: begin, receive, issue, grant, complete. *)

At(at) == command' = [command EXCEPT !.at = at]

(* A reply to the opening that is lost leaves the session to its expiry. *)
Begin ==
    /\ command.at = "idle"
    /\ \E s \in Sessions, w \in BOOLEAN :
         /\ Lost(w) /\ Kept(w)
         /\ box[s] = "unopened" /\ \A t \in 1..(s - 1) : box[t] # "unopened"
         /\ box' = [box EXCEPT ![s] = "live"]
         /\ command' = IF w THEN Away ELSE [Away EXCEPT !.at = "putA", !.session = s]
    /\ UNCHANGED <<slot, phone, disk, authority, history>>

PutA ==
    /\ command.at = "putA"
    /\ LET s == command.session IN
       \E w \in BOOLEAN :
         /\ Lost(w) /\ Kept(w)
         /\ Put(s, "A", "flight")
         /\ IF ~w /\ Writable(s, "A")
            THEN At("waitB") /\ invites' = invites \union {s}
            ELSE command' = Away /\ UNCHANGED invites
    /\ UNCHANGED <<box, phone, disk, authority, typed, tries>>

ReceiveB ==
    /\ command.at = "waitB"
    /\ LET s == command.session IN
       \/ /\ Got(s, "B")
          /\ command' = [command EXCEPT !.at = "waitC", !.flight = slot[s]["B"]]
       \/ Failed(s, "B") /\ command' = Away
    /\ UNCHANGED <<mailbox, phone, disk, authority, history, faults>>

(* One guess: a tag that does not verify burns the session. *)
ReceiveC ==
    /\ command.at = "waitC"
    /\ LET s == command.session
           c == slot[s]["C"] IN
       \/ /\ Got(s, "C")
          /\ IF VerifyMac(command.flight, c)
             THEN command' = [command EXCEPT !.at = "issue", !.key = c.key] /\ UNCHANGED mailbox
             ELSE command' = Away /\ Burned(s)
       \/ Failed(s, "C") /\ command' = Away /\ UNCHANGED mailbox
    /\ UNCHANGED <<phone, disk, authority, history, faults>>

(* Faulty: the certificate is handed over before the access is recorded. *)
SequelSendFirst(at) ==
    CASE at = "issue" -> "send" [] at = "send" -> "grant" [] at = "grant" -> "idle"

(* "the grant is recorded before the certificate is handed over" *)
Sequel(at) ==
    CASE at = "issue" -> "grant" [] at = "grant" -> "send" [] at = "send" -> "idle"

(* issue: refused for a revoked key; a key that is pinned already is issued anew. *)
IssueCert ==
    /\ command.at = "issue"
    /\ IF command.key \notin revoked
       THEN pinned' = pinned \union {<<command.session, command.key>>} /\ At(Sequel("issue"))
       ELSE command' = Away /\ UNCHANGED pinned
    /\ UNCHANGED <<mailbox, phone, disk, granted, revoked, history, faults>>

(* grant_on_this_machine *)
GrantKey ==
    /\ command.at = "grant"
    /\ granted' = granted \union {command.key}
    /\ At(Sequel("grant"))
    /\ UNCHANGED <<mailbox, phone, disk, pinned, revoked, history, faults>>

(* pair_failed: neither door burns the session. *)
WriteFails ==
    /\ command.at \in {"issue", "grant"} /\ Fault
    /\ command' = Away
    /\ UNCHANGED <<mailbox, phone, disk, authority, history>>

(* complete: whatever becomes of the flight, the command ends here. *)
Complete ==
    /\ command.at = "send"
    /\ \E w \in BOOLEAN :
         Lost(w) /\ Kept(w) /\ Put(command.session, "D", [flight |-> command.flight, key |-> command.key])
    /\ At(Sequel("send"))
    /\ UNCHANGED <<box, phone, disk, authority, history>>

ServerDies ==
    /\ command.at # "idle" /\ Fault
    /\ command' = Away
    /\ UNCHANGED <<mailbox, phone, disk, authority, history>>

-----------------------------------------------------------------------------
(* A phone: join, await_cert, and what is stored.  A flight carries
   whether the code was the session's. *)

Go(p, at) == phone' = [phone EXCEPT ![p].at = at]
Quit(p)   == phone' = [phone EXCEPT ![p] = Away]

(* A stored key is used again; else this try makes one, in memory. *)
KeyAt(p, n) == IF disk[p].key # None THEN disk[p].key ELSE <<p, n>>

Join(p, s, right) ==
    /\ phone[p].at = "idle" /\ s \in invites /\ tries < MaxTries
    /\ phone' = [phone EXCEPT ![p] = [at |-> "waitA", session |-> s, key |-> KeyAt(p, tries + 1),
                                      flight |-> [try |-> tries + 1, right |-> right]]]
    /\ tries' = tries + 1
    /\ typed' = IF right THEN typed \union {<<s, KeyAt(p, tries + 1)>>} ELSE typed
    /\ UNCHANGED <<mailbox, command, disk, authority, invites, faults>>

WaitA(p) ==
    /\ phone[p].at = "waitA"
    /\ LET s == phone[p].session IN
       \/ Got(s, "A") /\ Go(p, "putB")
       \/ Failed(s, "A") /\ Quit(p)
    /\ UNCHANGED <<mailbox, command, disk, authority, history, faults>>

(* One flight after the other; the first that is refused ends the join. *)
Publish(p, at, x, flight, then) ==
    /\ phone[p].at = at
    /\ \E w \in BOOLEAN :
         /\ Lost(w) /\ Kept(w)
         /\ Put(phone[p].session, x, flight)
         /\ IF ~w /\ Writable(phone[p].session, x) THEN Go(p, then) ELSE Quit(p)
    /\ UNCHANGED <<box, command, disk, authority, history>>

PutB(p) == Publish(p, "putB", "B", phone[p].flight, "putC")

PutC(p) ==
    Publish(p, "putC", "C",
            [flight |-> phone[p].flight, key |-> phone[p].key], "waitD")

(* await_cert: the tag, and a certificate for this phone's own key. *)
WaitD(p) ==
    /\ phone[p].at = "waitD"
    /\ LET s == phone[p].session
           d == slot[s]["D"] IN
       \/ /\ Got(s, "D")
          /\ IF d.flight = phone[p].flight /\ d.flight.right /\ d.key = phone[p].key
             THEN Go(p, "burn") ELSE Quit(p)
       \/ Failed(s, "D") /\ Quit(p)
    /\ UNCHANGED <<mailbox, command, disk, authority, history, faults>>

BurnRead(p) ==
    /\ phone[p].at = "burn"
    /\ Burned(phone[p].session)
    /\ Go(p, "key")
    /\ UNCHANGED <<command, disk, authority, history, faults>>

(* join_pairing: the key when it is new, then the certificate, then the server's
   key. *)
SaveKey(p) ==
    /\ phone[p].at = "key"
    /\ disk' = [disk EXCEPT ![p].key = phone[p].key]
    /\ Go(p, "cert")
    /\ UNCHANGED <<mailbox, command, authority, history, faults>>

SaveCert(p) ==
    /\ phone[p].at = "cert"
    /\ disk' = [disk EXCEPT ![p].cert = phone[p].key]
    /\ Go(p, "pin")
    /\ UNCHANGED <<mailbox, command, authority, history, faults>>

SavePin(p) ==
    /\ phone[p].at = "pin"
    /\ disk' = [disk EXCEPT ![p].pin = TRUE]
    /\ Quit(p)
    /\ UNCHANGED <<mailbox, command, authority, history, faults>>

PhoneDies(p) ==
    /\ phone[p].at # "idle" /\ Fault
    /\ Quit(p)
    /\ UNCHANGED <<mailbox, command, disk, authority, history>>

-----------------------------------------------------------------------------
(* Time, the relay and the operator. *)

(* sweep: the mailbox's clock is neither the server's nor the phone's. *)
Expire(s) ==
    /\ box[s] = "live"
    /\ Burned(s)
    /\ UNCHANGED <<command, phone, disk, authority, history, faults>>

(* The mailbox is in memory: a restart forgets every session. *)
RelayRestarts ==
    /\ Fault
    /\ box' = [s \in Sessions |-> IF box[s] = "live" THEN "over" ELSE box[s]]
    /\ slot' = [s \in Sessions |-> [x \in Slots |-> None]]
    /\ UNCHANGED <<command, phone, disk, authority, history>>

RevokeKey(k) ==
    /\ \E s \in Sessions : <<s, k>> \in pinned
    /\ k \notin revoked
    /\ revoked' = revoked \union {k}
    /\ UNCHANGED <<mailbox, command, phone, disk, pinned, granted, history, faults>>

-----------------------------------------------------------------------------
ServerStep ==
    \/ PutA \/ ReceiveB \/ ReceiveC \/ IssueCert \/ GrantKey \/ Complete

PhoneStep(p) ==
    \/ WaitA(p) \/ PutB(p) \/ PutC(p) \/ WaitD(p) \/ BurnRead(p)
    \/ SaveKey(p) \/ SaveCert(p) \/ SavePin(p)

PairNext ==
    \/ Begin \/ ServerStep \/ WriteFails \/ ServerDies \/ RelayRestarts
    \/ \E p \in Phones :
         \/ \E s \in Sessions, right \in BOOLEAN : Join(p, s, right)
         \/ PhoneStep(p) \/ PhoneDies(p)
    \/ \E s \in Sessions : Expire(s)
    \/ \E k \in Keys : RevokeKey(k)

(* Both commands are loops that poll until a deadline of their own, and time passes.
   Nothing is assumed of the mailbox: a session may never expire, a peer may never
   come. *)
PairFairness == WF_pairVars(ServerStep) /\ \A p \in Phones : WF_pairVars(PhoneStep(p))

PairSpec == PairInit /\ [][PairNext]_pairVars /\ PairFairness

-----------------------------------------------------------------------------
(* Properties. *)

(* "a device told it is paired must not then be refused by this machine", and "a
   failed pairing must leave nothing behind": what a phone has stored, key or
   certificate, belongs to a key the server pinned and granted, whoever died on
   the way and however often it was tried. *)
CertMeansAccess ==
    \A p \in Phones : \A k \in {disk[p].key, disk[p].cert} \ {None} :
      k \in granted /\ \E s \in Sessions : <<s, k>> \in pinned

(* The code authenticates: what a session pinned is a key whose phone typed that
   session's code, whatever other phones put into its slots. *)
OnlyTheCode == pinned \subseteq typed

(* Neither side waits for ever: a command that was started ends, also when the
   other side never comes, dies, or typed a wrong code. *)
PairingEnds ==
    /\ (command.at # "idle") ~> (command.at = "idle")
    /\ \A p \in Phones : (phone[p].at # "idle") ~> (phone[p].at = "idle")
================================================================================
