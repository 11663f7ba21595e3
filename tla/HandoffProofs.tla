---------------------------- MODULE HandoffProofs ----------------------------
(***************************************************************************)
(* TLAPS proofs about Handoff, for any number of processes, panes and      *)
(* crashes.  IndInv is inductive for every Env; PromptInv is inductive     *)
(* relative to it when Env leaves "slow", "rerequest" and "chained" out;   *)
(* AliveInv is inductive relative to IndInv, again for every Env; with     *)
(* CopyInv, when Env leaves "midspawn" out too, every step is a step of    *)
(* DaemonService.                                                          *)
(* One lemma per action (or per group of actions that change the same      *)
(* things), one step per conjunct the action can disturb.                  *)
(***************************************************************************)
EXTENDS Handoff, TLAPS

(* Abbreviations only: tuples of variables and sets of phase names.        *)
USE DEF procVars, ownVars, xferVars, paneVars, Phases, StartPhases, IncomingPhases,
        OutPhases, Items, EarlyPhases, ServedPhases, GroupPhases

-----------------------------------------------------------------------------
(* The inductive invariant.                                                *)

(* Every process starts unborn and holds nothing. *)
LEMMA InitInv == ASSUME Init PROVE IndInv
<1>1. TypeOK
  BY HandoffAssumption DEF Init, TypeOK
<1>2. LockInv /\ AcceptInv /\ FromInv /\ OutInv /\ WireInv
  BY HandoffAssumption DEF Init, LockInv, AcceptInv, FromInv, OutInv, WireInv
<1>3. PeerInv /\ ListenerInv /\ GroupInv /\ BindInv /\ LiveInv
  BY HandoffAssumption DEF Init, PeerInv, ListenerInv, GroupInv, BindInv, LiveInv, Carrier, IsLive
<1> QED
  BY <1>1, <1>2, <1>3 DEF IndInv

(* The end of a process, whatever ended it: every descriptor closes, so the
   processes that remain hold no more than before. *)
LEMMA ExitKeeps ==
    ASSUME IndInv, NEW d \in Daemons, path' \in {path, None}, crashes' \in Nat, stopped' \in BOOLEAN, Exit(d)
    PROVE  IndInv'
<1>1. TypeOK'
  BY HandoffAssumption DEF IndInv, TypeOK, Exit
<1>2. LockInv' /\ AcceptInv'
  BY DEF IndInv, TypeOK, LockInv, AcceptInv, WireInv, Exit
<1>3. FromInv' /\ OutInv'
  BY HandoffAssumption DEF IndInv, TypeOK, FromInv, OutInv, AcceptInv, Exit
<1>4. WireInv' /\ PeerInv'
  BY HandoffAssumption DEF IndInv, TypeOK, WireInv, PeerInv, OutInv, FromInv, Exit
<1>5. ListenerInv' /\ GroupInv'
  BY HandoffAssumption DEF IndInv, TypeOK, ListenerInv, GroupInv, BindInv, Carrier,
     CarriedListener, FromInv, WireInv, OutInv, PeerInv, Exit
<1>6. BindInv' /\ LiveInv'
  BY HandoffAssumption DEF IndInv, TypeOK, BindInv, LiveInv, Carrier, IsLive, Holds,
     Alive, AcceptInv, ListenerInv, FromInv, WireInv, OutInv, Exit
<1> QED
  BY <1>1, <1>2, <1>3, <1>4, <1>5, <1>6 DEF IndInv

(* A process is started on the socket. *)
LEMMA StartKeeps ==
    ASSUME IndInv, NEW d \in Daemons, Start(d)
    PROVE  IndInv'
<1>1. TypeOK'
  BY HandoffAssumption DEF IndInv, TypeOK, Start
<1>2. LockInv' /\ AcceptInv'
  BY DEF IndInv, TypeOK, LockInv, AcceptInv, WireInv, Start
<1>3. FromInv' /\ OutInv'
  BY HandoffAssumption DEF IndInv, TypeOK, FromInv, OutInv, AcceptInv, Start
<1>4. WireInv' /\ PeerInv'
  BY HandoffAssumption DEF IndInv, TypeOK, WireInv, PeerInv, OutInv, FromInv, Start
<1>5. ListenerInv' /\ GroupInv'
  BY HandoffAssumption DEF IndInv, TypeOK, ListenerInv, GroupInv, BindInv, Carrier,
     CarriedListener, FromInv, WireInv, OutInv, PeerInv, Start
<1>6. BindInv' /\ LiveInv'
  BY HandoffAssumption DEF IndInv, TypeOK, BindInv, LiveInv, Carrier, IsLive, Holds,
     Alive, AcceptInv, ListenerInv, FromInv, WireInv, OutInv, Start
<1> QED
  BY <1>1, <1>2, <1>3, <1>4, <1>5, <1>6 DEF IndInv

(* A probe of the path that nobody answers.  For the re-probe, LiveInv of the
   process that goes on to bind is what the probe has just seen. *)
LEMMA ProbeKeeps ==
    ASSUME IndInv, NEW d \in Daemons, Probe(d), ~IsLive
    PROVE  IndInv'
<1>1. TypeOK'
  BY HandoffAssumption DEF IndInv, TypeOK, Probe
<1>2. LockInv' /\ AcceptInv'
  BY DEF IndInv, TypeOK, LockInv, AcceptInv, WireInv, Probe
<1>3. FromInv' /\ OutInv'
  BY HandoffAssumption DEF IndInv, TypeOK, FromInv, OutInv, AcceptInv, Probe
<1>4. WireInv' /\ PeerInv'
  BY HandoffAssumption DEF IndInv, TypeOK, WireInv, PeerInv, OutInv, FromInv, Probe
<1>5. ListenerInv' /\ GroupInv'
  BY HandoffAssumption DEF IndInv, TypeOK, ListenerInv, GroupInv, BindInv, Carrier,
     CarriedListener, FromInv, WireInv, OutInv, PeerInv, Probe
<1>6. BindInv' /\ LiveInv'
  BY HandoffAssumption DEF IndInv, TypeOK, BindInv, LiveInv, Carrier, IsLive, Holds,
     Alive, AcceptInv, ListenerInv, FromInv, WireInv, OutInv, Probe
<1> QED
  BY <1>1, <1>2, <1>3, <1>4, <1>5, <1>6 DEF IndInv

(* The flock is taken: by LockInv no process is past its lock, and no lock is
   in flight, so the new holder is alone. *)
LEMMA AcquireKeeps ==
    ASSUME IndInv, NEW d \in Daemons, Acquire(d), LockFree
    PROVE  IndInv'
<1>1. TypeOK'
  BY HandoffAssumption DEF IndInv, TypeOK, Acquire, LockFree
<1>2. LockInv' /\ AcceptInv'
  BY DEF IndInv, TypeOK, LockInv, AcceptInv, WireInv, Acquire, LockFree
<1>3. FromInv' /\ OutInv'
  BY HandoffAssumption DEF IndInv, TypeOK, FromInv, OutInv, AcceptInv, Acquire,
     LockFree
<1>4. WireInv' /\ PeerInv'
  BY HandoffAssumption DEF IndInv, TypeOK, WireInv, PeerInv, OutInv, FromInv, Acquire,
     LockFree
<1>5. ListenerInv' /\ GroupInv'
  BY HandoffAssumption DEF IndInv, TypeOK, ListenerInv, GroupInv, BindInv, Carrier,
     CarriedListener, FromInv, WireInv, OutInv, PeerInv, Acquire, LockFree
<1>6. BindInv' /\ LiveInv'
  BY HandoffAssumption DEF IndInv, TypeOK, BindInv, LiveInv, Carrier, IsLive, Holds,
     Alive, AcceptInv, ListenerInv, FromInv, WireInv, OutInv, LockInv, Acquire,
     LockFree
<1> QED
  BY <1>1, <1>2, <1>3, <1>4, <1>5, <1>6 DEF IndInv

(* The bind: by BindInv no other carrier exists that could disagree about the
   listener. *)
LEMMA BindKeeps ==
    ASSUME IndInv, NEW d \in Daemons, Bind(d)
    PROVE  IndInv'
<1>1. TypeOK'
  BY HandoffAssumption DEF IndInv, TypeOK, Bind
<1>2. LockInv' /\ AcceptInv'
  BY DEF IndInv, TypeOK, LockInv, AcceptInv, WireInv, Bind
<1>3. FromInv' /\ OutInv'
  BY HandoffAssumption DEF IndInv, TypeOK, FromInv, OutInv, AcceptInv, Bind
<1>4. WireInv' /\ PeerInv'
  BY HandoffAssumption DEF IndInv, TypeOK, WireInv, PeerInv, OutInv, FromInv, Bind
<1>5. ListenerInv' /\ GroupInv'
  BY HandoffAssumption DEF IndInv, TypeOK, ListenerInv, GroupInv, BindInv, Carrier,
     CarriedListener, FromInv, WireInv, OutInv, PeerInv, Bind
<1>6. BindInv' /\ LiveInv'
  BY HandoffAssumption DEF IndInv, TypeOK, BindInv, LiveInv, Carrier, IsLive, Holds,
     Alive, AcceptInv, ListenerInv, FromInv, WireInv, OutInv, Bind
<1> QED
  BY <1>1, <1>2, <1>3, <1>4, <1>5, <1>6 DEF IndInv

(* The clients' verbs touch panes only. *)
LEMMA VerbKeeps ==
    ASSUME IndInv, NEW d \in Daemons, NEW p \in Panes, Spawn(d, p) \/ Kill(d, p)
    PROVE  IndInv'
<1>1. TypeOK'
  BY HandoffAssumption DEF IndInv, TypeOK, Spawn, Kill
<1>2. LockInv' /\ AcceptInv'
  BY DEF IndInv, TypeOK, LockInv, AcceptInv, WireInv, Spawn, Kill
<1>3. FromInv' /\ OutInv'
  BY HandoffAssumption DEF IndInv, TypeOK, FromInv, OutInv, AcceptInv, Spawn, Kill
<1>4. WireInv' /\ PeerInv'
  BY HandoffAssumption DEF IndInv, TypeOK, WireInv, PeerInv, OutInv, FromInv, Spawn,
     Kill
<1>5. ListenerInv' /\ GroupInv'
  BY HandoffAssumption DEF IndInv, TypeOK, ListenerInv, GroupInv, BindInv, Carrier,
     CarriedListener, FromInv, WireInv, OutInv, PeerInv, Spawn, Kill
<1>6. BindInv' /\ LiveInv'
  BY HandoffAssumption DEF IndInv, TypeOK, BindInv, LiveInv, Carrier, IsLive, Holds,
     Alive, AcceptInv, ListenerInv, FromInv, WireInv, OutInv, Spawn, Kill
<1> QED
  BY <1>1, <1>2, <1>3, <1>4, <1>5, <1>6 DEF IndInv

(* A new process connects.  The daemon that accepted it is past its lock, so
   nobody is between lock and bind. *)
LEMMA StartIncomingKeeps ==
    ASSUME IndInv, NEW i \in Daemons, NEW o \in Daemons, StartIncoming(i, o)
    PROVE  IndInv'
<1>1. TypeOK'
  BY HandoffAssumption DEF IndInv, TypeOK, StartIncoming
<1>2. LockInv' /\ AcceptInv'
  BY DEF IndInv, TypeOK, LockInv, AcceptInv, WireInv, StartIncoming
<1>3. FromInv' /\ OutInv'
  BY HandoffAssumption DEF IndInv, TypeOK, FromInv, OutInv, AcceptInv, StartIncoming
<1>4. WireInv' /\ PeerInv'
  BY HandoffAssumption DEF IndInv, TypeOK, WireInv, PeerInv, OutInv, FromInv,
     StartIncoming
<1>5. ListenerInv' /\ GroupInv'
  BY HandoffAssumption DEF IndInv, TypeOK, ListenerInv, GroupInv, BindInv, Carrier,
     CarriedListener, FromInv, WireInv, OutInv, PeerInv, StartIncoming
<1>6. BindInv' /\ LiveInv'
  BY HandoffAssumption DEF IndInv, TypeOK, BindInv, LiveInv, Carrier, IsLive, Holds,
     Alive, AcceptInv, ListenerInv, FromInv, WireInv, OutInv, StartIncoming
<1> QED
  BY <1>1, <1>2, <1>3, <1>4, <1>5, <1>6 DEF IndInv

(* A handoff is granted under the one-handoff lock. *)
LEMMA GrantKeeps ==
    ASSUME IndInv, NEW i \in Daemons, NEW o \in Daemons, Grant(o, i)
    PROVE  IndInv'
<1>1. TypeOK'
  BY HandoffAssumption DEF IndInv, TypeOK, Grant, Alive
<1>2. LockInv' /\ AcceptInv'
  BY DEF IndInv, TypeOK, LockInv, AcceptInv, WireInv, Grant, Alive
<1>3. FromInv' /\ OutInv'
  BY HandoffAssumption DEF IndInv, TypeOK, FromInv, OutInv, AcceptInv, Grant, Alive
<1>4. WireInv' /\ PeerInv'
  BY HandoffAssumption DEF IndInv, TypeOK, WireInv, PeerInv, OutInv, FromInv, Grant,
     Alive
<1>5. ListenerInv' /\ GroupInv'
  BY HandoffAssumption DEF IndInv, TypeOK, ListenerInv, GroupInv, BindInv, Carrier,
     CarriedListener, FromInv, WireInv, OutInv, PeerInv, Grant, Alive
<1>6. BindInv' /\ LiveInv'
  BY HandoffAssumption DEF IndInv, TypeOK, BindInv, LiveInv, Carrier, IsLive, Holds,
     Alive, AcceptInv, ListenerInv, FromInv, WireInv, OutInv, Grant, Alive
<1> QED
  BY <1>1, <1>2, <1>3, <1>4, <1>5, <1>6 DEF IndInv

(* The transfer connection is made. *)
LEMMA DialKeeps ==
    ASSUME IndInv, NEW i \in Daemons, Dial(i)
    PROVE  IndInv'
<1>1. TypeOK'
  BY HandoffAssumption DEF IndInv, TypeOK, Dial, ConnOpen, Alive
<1>2. LockInv' /\ AcceptInv'
  BY DEF IndInv, TypeOK, LockInv, AcceptInv, WireInv, Dial, ConnOpen, Alive
<1>3. FromInv' /\ OutInv'
  BY HandoffAssumption DEF IndInv, TypeOK, FromInv, OutInv, AcceptInv, Dial, ConnOpen,
     Alive
<1>4. WireInv' /\ PeerInv'
  BY HandoffAssumption DEF IndInv, TypeOK, WireInv, PeerInv, OutInv, FromInv, Dial,
     ConnOpen, Alive
<1>5. ListenerInv' /\ GroupInv'
  BY HandoffAssumption DEF IndInv, TypeOK, ListenerInv, GroupInv, BindInv, Carrier,
     CarriedListener, FromInv, WireInv, OutInv, PeerInv, Dial, ConnOpen, Alive
<1>6. BindInv' /\ LiveInv'
  BY HandoffAssumption DEF IndInv, TypeOK, BindInv, LiveInv, Carrier, IsLive, Holds,
     Alive, AcceptInv, ListenerInv, FromInv, WireInv, OutInv, Dial, ConnOpen, Alive
<1> QED
  BY <1>1, <1>2, <1>3, <1>4, <1>5, <1>6 DEF IndInv

(* The listener is sent: a copy of one that was held already. *)
LEMMA SendListenerKeeps ==
    ASSUME IndInv, NEW o \in Daemons, SendListener(o)
    PROVE  IndInv'
<1>1. TypeOK'
  BY HandoffAssumption DEF IndInv, TypeOK, SendListener, Alive
<1>2. LockInv' /\ AcceptInv'
  BY DEF IndInv, TypeOK, LockInv, AcceptInv, WireInv, SendListener, Alive
<1>3. FromInv' /\ OutInv'
  BY HandoffAssumption DEF IndInv, TypeOK, FromInv, OutInv, AcceptInv, SendListener,
     Alive
<1>4. WireInv' /\ PeerInv'
  BY HandoffAssumption DEF IndInv, TypeOK, WireInv, PeerInv, OutInv, FromInv,
     SendListener, Alive
<1>5. ListenerInv' /\ GroupInv'
  BY HandoffAssumption DEF IndInv, TypeOK, ListenerInv, GroupInv, BindInv, Carrier,
     CarriedListener, FromInv, WireInv, OutInv, PeerInv, SendListener, Alive
<1>6. BindInv' /\ LiveInv'
  BY HandoffAssumption DEF IndInv, TypeOK, BindInv, LiveInv, Carrier, IsLive, Holds,
     Alive, AcceptInv, ListenerInv, FromInv, WireInv, OutInv, SendListener, Alive
<1> QED
  BY <1>1, <1>2, <1>3, <1>4, <1>5, <1>6 DEF IndInv

(* The lock is sent: its receiver becomes a carrier, with the listener its
   sender carries (ListenerInv, or the copy still in flight). *)
LEMMA SendLockKeeps ==
    ASSUME IndInv, NEW o \in Daemons, SendLock(o)
    PROVE  IndInv'
<1>1. TypeOK'
  BY HandoffAssumption DEF IndInv, TypeOK, SendLock, Alive
<1>2. LockInv' /\ AcceptInv'
  BY DEF IndInv, TypeOK, LockInv, AcceptInv, WireInv, SendLock, Alive
<1>3. FromInv' /\ OutInv'
  BY HandoffAssumption DEF IndInv, TypeOK, FromInv, OutInv, AcceptInv, SendLock, Alive
<1>4. WireInv' /\ PeerInv'
  BY HandoffAssumption DEF IndInv, TypeOK, WireInv, PeerInv, OutInv, FromInv,
     SendLock, Alive
<1>5. ListenerInv' /\ GroupInv'
  BY HandoffAssumption DEF IndInv, TypeOK, ListenerInv, GroupInv, BindInv, Carrier,
     CarriedListener, FromInv, WireInv, OutInv, PeerInv, SendLock, Alive
<1>6. BindInv' /\ LiveInv'
  BY HandoffAssumption DEF IndInv, TypeOK, BindInv, LiveInv, Carrier, IsLive, Holds,
     Alive, AcceptInv, ListenerInv, FromInv, WireInv, OutInv, SendLock, Alive
<1> QED
  BY <1>1, <1>2, <1>3, <1>4, <1>5, <1>6 DEF IndInv

(* The pumps are parked. *)
LEMMA PauseAllKeeps ==
    ASSUME IndInv, NEW o \in Daemons, PauseAll(o)
    PROVE  IndInv'
<1>1. TypeOK'
  BY HandoffAssumption DEF IndInv, TypeOK, PauseAll
<1>2. LockInv' /\ AcceptInv'
  BY DEF IndInv, TypeOK, LockInv, AcceptInv, WireInv, PauseAll
<1>3. FromInv' /\ OutInv'
  BY HandoffAssumption DEF IndInv, TypeOK, FromInv, OutInv, AcceptInv, PauseAll
<1>4. WireInv' /\ PeerInv'
  BY HandoffAssumption DEF IndInv, TypeOK, WireInv, PeerInv, OutInv, FromInv, PauseAll
<1>5. ListenerInv' /\ GroupInv'
  BY HandoffAssumption DEF IndInv, TypeOK, ListenerInv, GroupInv, BindInv, Carrier,
     CarriedListener, FromInv, WireInv, OutInv, PeerInv, PauseAll
<1>6. BindInv' /\ LiveInv'
  BY HandoffAssumption DEF IndInv, TypeOK, BindInv, LiveInv, Carrier, IsLive, Holds,
     Alive, AcceptInv, ListenerInv, FromInv, WireInv, OutInv, PauseAll
<1> QED
  BY <1>1, <1>2, <1>3, <1>4, <1>5, <1>6 DEF IndInv

(* The panes are sent. *)
LEMMA SendPanesKeeps ==
    ASSUME IndInv, NEW o \in Daemons, SendPanes(o)
    PROVE  IndInv'
<1>1. TypeOK'
  BY HandoffAssumption DEF IndInv, TypeOK, SendPanes, Alive
<1>2. LockInv' /\ AcceptInv'
  BY DEF IndInv, TypeOK, LockInv, AcceptInv, WireInv, SendPanes, Alive
<1>3. FromInv' /\ OutInv'
  BY HandoffAssumption DEF IndInv, TypeOK, FromInv, OutInv, AcceptInv, SendPanes,
     Alive
<1>4. WireInv' /\ PeerInv'
  BY HandoffAssumption DEF IndInv, TypeOK, WireInv, PeerInv, OutInv, FromInv,
     SendPanes, Alive
<1>5. ListenerInv' /\ GroupInv'
  BY HandoffAssumption DEF IndInv, TypeOK, ListenerInv, GroupInv, BindInv, Carrier,
     CarriedListener, FromInv, WireInv, OutInv, PeerInv, SendPanes, Alive
<1>6. BindInv' /\ LiveInv'
  BY HandoffAssumption DEF IndInv, TypeOK, BindInv, LiveInv, Carrier, IsLive, Holds,
     Alive, AcceptInv, ListenerInv, FromInv, WireInv, OutInv, SendPanes, Alive
<1> QED
  BY <1>1, <1>2, <1>3, <1>4, <1>5, <1>6 DEF IndInv

(* The transfer ends, committed or not. *)
LEMMA EndTransferKeeps ==
    ASSUME IndInv, NEW o \in Daemons, WaitForCommit(o) \/ Abort(o) \/ CloseTransfer(o)
    PROVE  IndInv'
<1>1. TypeOK'
  BY HandoffAssumption DEF IndInv, TypeOK, WaitForCommit, Abort, CloseTransfer
<1>2. LockInv' /\ AcceptInv'
  BY DEF IndInv, TypeOK, LockInv, AcceptInv, WireInv, WaitForCommit, Abort,
     CloseTransfer
<1>3. FromInv' /\ OutInv'
  BY HandoffAssumption DEF IndInv, TypeOK, FromInv, OutInv, AcceptInv, WaitForCommit,
     Abort, CloseTransfer
<1>4. WireInv' /\ PeerInv'
  BY HandoffAssumption DEF IndInv, TypeOK, WireInv, PeerInv, OutInv, FromInv,
     WaitForCommit, Abort, CloseTransfer
<1>5. ListenerInv' /\ GroupInv'
  BY HandoffAssumption DEF IndInv, TypeOK, ListenerInv, GroupInv, BindInv, Carrier,
     CarriedListener, FromInv, WireInv, OutInv, PeerInv, WaitForCommit, Abort,
     CloseTransfer
<1>6. BindInv' /\ LiveInv'
  BY HandoffAssumption DEF IndInv, TypeOK, BindInv, LiveInv, Carrier, IsLive, Holds,
     Alive, AcceptInv, ListenerInv, FromInv, WireInv, OutInv, WaitForCommit, Abort,
     CloseTransfer
<1> QED
  BY <1>1, <1>2, <1>3, <1>4, <1>5, <1>6 DEF IndInv

(* The accept loop ends. *)
LEMMA StopAcceptingKeeps ==
    ASSUME IndInv, NEW o \in Daemons, StopAccepting(o)
    PROVE  IndInv'
<1>1. TypeOK'
  BY HandoffAssumption DEF IndInv, TypeOK, StopAccepting
<1>2. LockInv' /\ AcceptInv'
  BY DEF IndInv, TypeOK, LockInv, AcceptInv, WireInv, StopAccepting
<1>3. FromInv' /\ OutInv'
  BY HandoffAssumption DEF IndInv, TypeOK, FromInv, OutInv, AcceptInv, StopAccepting
<1>4. WireInv' /\ PeerInv'
  BY HandoffAssumption DEF IndInv, TypeOK, WireInv, PeerInv, OutInv, FromInv,
     StopAccepting
<1>5. ListenerInv' /\ GroupInv'
  BY HandoffAssumption DEF IndInv, TypeOK, ListenerInv, GroupInv, BindInv, Carrier,
     CarriedListener, FromInv, WireInv, OutInv, PeerInv, StopAccepting
<1>6. BindInv' /\ LiveInv'
  BY HandoffAssumption DEF IndInv, TypeOK, BindInv, LiveInv, Carrier, IsLive, Holds,
     Alive, AcceptInv, ListenerInv, FromInv, WireInv, OutInv, StopAccepting
<1> QED
  BY <1>1, <1>2, <1>3, <1>4, <1>5, <1>6 DEF IndInv

(* The listener arrives: what was in flight is now held, so no path becomes
   live by it and no carrier changes its mind. *)
LEMMA RecvListenerKeeps ==
    ASSUME IndInv, NEW i \in Daemons, RecvListener(i)
    PROVE  IndInv'
<1>1. TypeOK'
  BY HandoffAssumption DEF IndInv, TypeOK, FromInv, RecvListener
<1>2. LockInv' /\ AcceptInv'
  BY DEF IndInv, TypeOK, LockInv, AcceptInv, WireInv, RecvListener
<1>3. FromInv' /\ OutInv'
  BY HandoffAssumption DEF IndInv, TypeOK, FromInv, OutInv, AcceptInv, RecvListener
<1>4. WireInv' /\ PeerInv'
  BY HandoffAssumption DEF IndInv, TypeOK, WireInv, PeerInv, OutInv, FromInv,
     RecvListener
<1>5. ListenerInv' /\ GroupInv'
  BY HandoffAssumption DEF IndInv, TypeOK, ListenerInv, GroupInv, BindInv, Carrier,
     CarriedListener, FromInv, WireInv, OutInv, PeerInv, RecvListener
<1>6. BindInv' /\ LiveInv'
  BY HandoffAssumption DEF IndInv, TypeOK, BindInv, LiveInv, Carrier, IsLive, Holds,
     Alive, AcceptInv, ListenerInv, FromInv, WireInv, OutInv, RecvListener
<1> QED
  BY <1>1, <1>2, <1>3, <1>4, <1>5, <1>6 DEF IndInv

(* The lock arrives: its receiver was a carrier already. *)
LEMMA RecvLockKeeps ==
    ASSUME IndInv, NEW i \in Daemons, RecvLock(i)
    PROVE  IndInv'
<1>1. TypeOK'
  BY HandoffAssumption DEF IndInv, TypeOK, RecvLock
<1>2. LockInv' /\ AcceptInv'
  BY DEF IndInv, TypeOK, LockInv, AcceptInv, WireInv, RecvLock
<1>3. FromInv' /\ OutInv'
  BY HandoffAssumption DEF IndInv, TypeOK, FromInv, OutInv, AcceptInv, RecvLock
<1>4. WireInv' /\ PeerInv'
  BY HandoffAssumption DEF IndInv, TypeOK, WireInv, PeerInv, OutInv, FromInv, RecvLock
<1>5. ListenerInv' /\ GroupInv'
  BY HandoffAssumption DEF IndInv, TypeOK, ListenerInv, GroupInv, BindInv, Carrier,
     CarriedListener, FromInv, WireInv, OutInv, PeerInv, RecvLock
<1>6. BindInv' /\ LiveInv'
  BY HandoffAssumption DEF IndInv, TypeOK, BindInv, LiveInv, Carrier, IsLive, Holds,
     Alive, AcceptInv, ListenerInv, FromInv, WireInv, OutInv, RecvLock
<1> QED
  BY <1>1, <1>2, <1>3, <1>4, <1>5, <1>6 DEF IndInv

(* The panes are adopted. *)
LEMMA AdoptPanesKeeps ==
    ASSUME IndInv, NEW i \in Daemons, AdoptPanes(i)
    PROVE  IndInv'
<1>1. TypeOK'
  BY HandoffAssumption DEF IndInv, TypeOK, AdoptPanes
<1>2. LockInv' /\ AcceptInv'
  BY DEF IndInv, TypeOK, LockInv, AcceptInv, WireInv, AdoptPanes
<1>3. FromInv' /\ OutInv'
  BY HandoffAssumption DEF IndInv, TypeOK, FromInv, OutInv, AcceptInv, AdoptPanes
<1>4. WireInv' /\ PeerInv'
  BY HandoffAssumption DEF IndInv, TypeOK, WireInv, PeerInv, OutInv, FromInv,
     AdoptPanes
<1>5. ListenerInv' /\ GroupInv'
  BY HandoffAssumption DEF IndInv, TypeOK, ListenerInv, GroupInv, BindInv, Carrier,
     CarriedListener, FromInv, WireInv, OutInv, PeerInv, AdoptPanes
<1>6. BindInv' /\ LiveInv'
  BY HandoffAssumption DEF IndInv, TypeOK, BindInv, LiveInv, Carrier, IsLive, Holds,
     Alive, AcceptInv, ListenerInv, FromInv, WireInv, OutInv, AdoptPanes
<1> QED
  BY <1>1, <1>2, <1>3, <1>4, <1>5, <1>6 DEF IndInv

(* The inherited accept loop starts. *)
LEMMA ServeInheritedKeeps ==
    ASSUME IndInv, NEW i \in Daemons, ServeInherited(i)
    PROVE  IndInv'
<1>1. TypeOK'
  BY HandoffAssumption DEF IndInv, TypeOK, ServeInherited
<1>2. LockInv' /\ AcceptInv'
  BY DEF IndInv, TypeOK, LockInv, AcceptInv, WireInv, ServeInherited
<1>3. FromInv' /\ OutInv'
  BY HandoffAssumption DEF IndInv, TypeOK, FromInv, OutInv, AcceptInv, ServeInherited
<1>4. WireInv' /\ PeerInv'
  BY HandoffAssumption DEF IndInv, TypeOK, WireInv, PeerInv, OutInv, FromInv,
     ServeInherited
<1>5. ListenerInv' /\ GroupInv'
  BY HandoffAssumption DEF IndInv, TypeOK, ListenerInv, GroupInv, BindInv, Carrier,
     CarriedListener, FromInv, WireInv, OutInv, PeerInv, ServeInherited
<1>6. BindInv' /\ LiveInv'
  BY HandoffAssumption DEF IndInv, TypeOK, BindInv, LiveInv, Carrier, IsLive, Holds,
     Alive, AcceptInv, ListenerInv, FromInv, WireInv, OutInv, ServeInherited
<1> QED
  BY <1>1, <1>2, <1>3, <1>4, <1>5, <1>6 DEF IndInv

(* The commit byte is sent. *)
LEMMA SendCommitKeeps ==
    ASSUME IndInv, NEW i \in Daemons, SendCommit(i)
    PROVE  IndInv'
<1>1. TypeOK'
  BY HandoffAssumption DEF IndInv, TypeOK, SendCommit
<1>2. LockInv' /\ AcceptInv'
  BY DEF IndInv, TypeOK, LockInv, AcceptInv, WireInv, SendCommit
<1>3. FromInv' /\ OutInv'
  BY HandoffAssumption DEF IndInv, TypeOK, FromInv, OutInv, AcceptInv, SendCommit
<1>4. WireInv' /\ PeerInv'
  BY HandoffAssumption DEF IndInv, TypeOK, WireInv, PeerInv, OutInv, FromInv,
     SendCommit
<1>5. ListenerInv' /\ GroupInv'
  BY HandoffAssumption DEF IndInv, TypeOK, ListenerInv, GroupInv, BindInv, Carrier,
     CarriedListener, FromInv, WireInv, OutInv, PeerInv, SendCommit
<1>6. BindInv' /\ LiveInv'
  BY HandoffAssumption DEF IndInv, TypeOK, BindInv, LiveInv, Carrier, IsLive, Holds,
     Alive, AcceptInv, ListenerInv, FromInv, WireInv, OutInv, SendCommit
<1> QED
  BY <1>1, <1>2, <1>3, <1>4, <1>5, <1>6 DEF IndInv

(* The adopted pumps start. *)
LEMMA ResumePumpsKeeps ==
    ASSUME IndInv, NEW i \in Daemons, ResumePumps(i)
    PROVE  IndInv'
<1>1. TypeOK'
  BY HandoffAssumption DEF IndInv, TypeOK, ResumePumps
<1>2. LockInv' /\ AcceptInv'
  BY DEF IndInv, TypeOK, LockInv, AcceptInv, WireInv, ResumePumps
<1>3. FromInv' /\ OutInv'
  BY HandoffAssumption DEF IndInv, TypeOK, FromInv, OutInv, AcceptInv, ResumePumps
<1>4. WireInv' /\ PeerInv'
  BY HandoffAssumption DEF IndInv, TypeOK, WireInv, PeerInv, OutInv, FromInv,
     ResumePumps
<1>5. ListenerInv' /\ GroupInv'
  BY HandoffAssumption DEF IndInv, TypeOK, ListenerInv, GroupInv, BindInv, Carrier,
     CarriedListener, FromInv, WireInv, OutInv, PeerInv, ResumePumps
<1>6. BindInv' /\ LiveInv'
  BY HandoffAssumption DEF IndInv, TypeOK, BindInv, LiveInv, Carrier, IsLive, Holds,
     Alive, AcceptInv, ListenerInv, FromInv, WireInv, OutInv, ResumePumps
<1> QED
  BY <1>1, <1>2, <1>3, <1>4, <1>5, <1>6 DEF IndInv

(* The signal arrives. *)
LEMMA TerminateKeeps ==
    ASSUME IndInv, NEW d \in Daemons, Terminate(d)
    PROVE  IndInv'
<1>1. TypeOK'
  BY HandoffAssumption DEF IndInv, TypeOK, Terminate
<1>2. LockInv' /\ AcceptInv'
  BY DEF IndInv, TypeOK, LockInv, AcceptInv, WireInv, Terminate
<1>3. FromInv' /\ OutInv'
  BY HandoffAssumption DEF IndInv, TypeOK, FromInv, OutInv, AcceptInv, Terminate
<1>4. WireInv' /\ PeerInv'
  BY HandoffAssumption DEF IndInv, TypeOK, WireInv, PeerInv, OutInv, FromInv,
     Terminate
<1>5. ListenerInv' /\ GroupInv'
  BY HandoffAssumption DEF IndInv, TypeOK, ListenerInv, GroupInv, BindInv, Carrier,
     CarriedListener, FromInv, WireInv, OutInv, PeerInv, Terminate
<1>6. BindInv' /\ LiveInv'
  BY HandoffAssumption DEF IndInv, TypeOK, BindInv, LiveInv, Carrier, IsLive, Holds,
     Alive, AcceptInv, ListenerInv, FromInv, WireInv, OutInv, Terminate
<1> QED
  BY <1>1, <1>2, <1>3, <1>4, <1>5, <1>6 DEF IndInv

(* A stuttering step changes nothing. *)
LEMMA StutterKeeps == ASSUME IndInv, UNCHANGED vars PROVE IndInv'
  BY DEF IndInv, TypeOK, LockInv, AcceptInv, FromInv, OutInv, WireInv, PeerInv,
     ListenerInv, GroupInv, BindInv, LiveInv, Carrier, CarriedListener, IsLive, Holds,
     Alive, vars

(* IndInv is inductive: one case per disjunct of Next. *)
LEMMA StepInv == ASSUME IndInv, [Next]_vars PROVE IndInv'
<1>1. CASE UNCHANGED vars
  BY <1>1, StutterKeeps
<1>2. ASSUME NEW d \in Daemons, Start(d) PROVE IndInv'
  BY <1>2, StartKeeps
<1>3. ASSUME NEW d \in Daemons, StartStep(d) PROVE IndInv'
  <2>1. CASE Probe(d) /\ ~IsLive
    BY <2>1, ProbeKeeps
  <2>2. CASE Probe(d) /\ IsLive
    BY <2>2, ExitKeeps DEF Probe, IndInv, TypeOK
  <2>3. CASE Acquire(d) /\ LockFree
    BY <2>3, AcquireKeeps
  <2>4. CASE Acquire(d) /\ ~LockFree
    BY <2>4, ExitKeeps DEF Acquire, IndInv, TypeOK
  <2>5. CASE Bind(d)
    BY <2>5, BindKeeps
  <2> QED
    BY <1>3, <2>1, <2>2, <2>3, <2>4, <2>5 DEF StartStep
<1>4. ASSUME NEW i \in Daemons, IncomingStep(i) PROVE IndInv'
  <2>1. CASE Refuse(i)
    BY <2>1, ExitKeeps DEF Refuse, IndInv, TypeOK
  <2> QED
    BY <1>4, <2>1, DialKeeps, RecvListenerKeeps, RecvLockKeeps, AdoptPanesKeeps,
       ServeInheritedKeeps, SendCommitKeeps, ResumePumpsKeeps DEF IncomingStep
<1>5. ASSUME NEW o \in Daemons, OutgoingStep(o) PROVE IndInv'
  BY <1>5, SendListenerKeeps, SendLockKeeps, PauseAllKeeps, SendPanesKeeps,
     EndTransferKeeps DEF OutgoingStep
<1>6. ASSUME NEW d \in Daemons, EndStep(d) PROVE IndInv'
  BY <1>6, StopAcceptingKeeps, ExitKeeps DEF EndStep, ExitHandedOn, FinishShutdown,
     IndInv, TypeOK
<1>7. ASSUME NEW d \in Daemons, Terminate(d) PROVE IndInv'
  BY <1>7, TerminateKeeps
<1>8. ASSUME NEW d \in Daemons, Crash(d) PROVE IndInv'
  <2>1. crashes' \in Nat
    BY <1>8 DEF Crash, IndInv, TypeOK
  <2> QED
    BY <1>8, <2>1, ExitKeeps DEF Crash, IndInv, TypeOK
<1>9. ASSUME NEW d \in Daemons, NEW p \in Panes, Spawn(d, p) \/ Kill(d, p) PROVE IndInv'
  BY <1>9, VerbKeeps
<1>10. ASSUME NEW i \in Daemons, NEW o \in Daemons, StartIncoming(i, o) \/ Grant(o, i)
       PROVE IndInv'
  BY <1>10, StartIncomingKeeps, GrantKeeps
<1> QED
  BY <1>1, <1>2, <1>3, <1>4, <1>5, <1>6, <1>7, <1>8, <1>9, <1>10 DEF Next

(* IndInv holds in every reachable state. *)
THEOREM Invariance == Spec => []IndInv
  BY InitInv, StepInv, PTL DEF Spec

(* Type correctness of the whole protocol. *)
THEOREM TypeCorrect == Spec => []TypeOK
<1>1. IndInv => TypeOK
  BY DEF IndInv
<1> QED
  BY <1>1, Invariance, PTL

(* ADR 0021 section 3: whoever accepts clients holds the flock, for any number
   of processes, any crashes and any environment. *)
THEOREM LockTheorem == Spec => []ServingHoldsLock
<1>1. IndInv => ServingHoldsLock
  BY DEF IndInv, TypeOK, LockInv, AcceptInv, ServingHoldsLock
<1> QED
  BY <1>1, Invariance, PTL

(* Two accept loops never drain two different sockets behind one path. *)
THEOREM SplitBrainTheorem == Spec => []NoSplitBrain
<1>1. IndInv => NoSplitBrain
  BY DEF IndInv, TypeOK, AcceptInv, GroupInv, Carrier, CarriedListener, NoSplitBrain
<1> QED
  BY <1>1, Invariance, PTL

(* The one-handoff lock admits one transfer at a time. *)
THEOREM OneTransferTheorem == Spec => []OneTransfer
<1>1. IndInv => OneTransfer
  BY DEF IndInv, OutInv, OneTransfer
<1> QED
  BY <1>1, Invariance, PTL

(* A fresh start never unlinks a path somebody listens behind: only Bind names
   a new listener, and LiveInv says the path is dead when Bind runs. *)
THEOREM UnlinkTheorem == Spec => NeverUnlinksLive
<1>1. ASSUME IndInv, [Next]_vars, path' \in Daemons, path' # path PROVE ~IsLive
  <2>1. \A d \in Daemons : Bind(d) => ~IsLive
    BY <1>1 DEF Bind, IndInv, LiveInv
  <2>2. ASSUME NEW d \in Daemons, StartStep(d) PROVE Bind(d)
    BY <1>1, <2>2, HandoffAssumption DEF StartStep, Probe, Acquire
  <2>3. ~\E d \in Daemons : IncomingStep(d) \/ OutgoingStep(d)
    BY <1>1 DEF IncomingStep, OutgoingStep, Dial, RecvListener, RecvLock, AdoptPanes,
       ServeInherited, SendCommit, ResumePumps, Refuse, SendListener, SendLock,
       PauseAll, SendPanes, WaitForCommit, Abort, CloseTransfer
  <2>4. ~\E d \in Daemons : Start(d) \/ EndStep(d) \/ Terminate(d) \/ Crash(d)
    BY <1>1, HandoffAssumption DEF Start, EndStep, StopAccepting, ExitHandedOn,
       FinishShutdown, Terminate, Crash
  <2>5. ~\E d \in Daemons, p \in Panes : Spawn(d, p) \/ Kill(d, p)
    BY <1>1 DEF Spawn, Kill
  <2>6. ~\E i, o \in Daemons : StartIncoming(i, o) \/ Grant(o, i)
    BY <1>1 DEF StartIncoming, Grant
  <2> QED
    BY <1>1, <2>1, <2>2, <2>3, <2>4, <2>5, <2>6 DEF Next, vars
<1>2. IndInv /\ [Next]_vars => [path' \in Daemons /\ path' # path => ~IsLive]_vars
  BY <1>1
<1> QED
  BY <1>2, Invariance, PTL DEF Spec, NeverUnlinksLive

-----------------------------------------------------------------------------
(* One owner, when the peers are prompt.                                   *)

(* Nobody claims anything at first. *)
LEMMA InitPrompt == ASSUME Init PROVE PromptInv
  BY HandoffAssumption DEF Init, PromptInv, OneClaim, CommittedInv, StoppingInv,
     OutgoingInv, GivenUpInv, Claims

(* A process that ends gives up its claim; its commit byte, once sent, stays. *)
LEMMA ExitKeepsPrompt ==
    ASSUME Prompt, IndInv, PromptInv, NEW d \in Daemons, Exit(d)
    PROVE  PromptInv'
  BY DEF PromptInv, OneClaim, CommittedInv, StoppingInv, OutgoingInv, GivenUpInv,
     Claims, IndInv, TypeOK, Exit

(* By BindInv a daemon binds only when no other one claims the socket. *)
LEMMA StartStepKeepsPrompt ==
    ASSUME Prompt, IndInv, PromptInv, NEW d \in Daemons, Start(d) \/ StartStep(d)
    PROVE  PromptInv'
  BY DEF PromptInv, OneClaim, CommittedInv, StoppingInv, OutgoingInv, GivenUpInv,
     Claims, IndInv, TypeOK, Start, StartStep, Probe, Acquire, Bind, Exit, BindInv,
     Carrier, WireInv, OutInv, FromInv

(* A verb of a client does not touch the claims. *)
LEMMA VerbKeepsPrompt ==
    ASSUME Prompt, IndInv, PromptInv, NEW d \in Daemons, NEW p \in Panes, Spawn(d, p) \/ Kill(d, p)
    PROVE  PromptInv'
  BY DEF PromptInv, OneClaim, CommittedInv, StoppingInv, OutgoingInv, GivenUpInv,
     Claims, IndInv, TypeOK, Spawn, Kill

(* Only a daemon that claims the socket, and is in no handoff, grants one. *)
LEMMA RequestKeepsPrompt ==
    ASSUME Prompt, IndInv, PromptInv, NEW i \in Daemons, NEW o \in Daemons, StartIncoming(i, o) \/ Grant(o, i)
    PROVE  PromptInv'
  BY HandoffAssumption DEF PromptInv, OneClaim, CommittedInv, StoppingInv,
     OutgoingInv, GivenUpInv, Claims, IndInv, TypeOK, StartIncoming, Grant, Prompt,
     WireInv, OutInv

(* A receiver makes no claim, and passes the panes only if they were sent. *)
LEMMA ReceiveKeepsPrompt ==
    ASSUME Prompt, IndInv, PromptInv, NEW i \in Daemons, Dial(i) \/ RecvListener(i) \/ RecvLock(i) \/ AdoptPanes(i) \/ ServeInherited(i)
    PROVE  PromptInv'
  BY DEF PromptInv, OneClaim, CommittedInv, StoppingInv, OutgoingInv, GivenUpInv,
     Claims, IndInv, TypeOK, Dial, RecvListener, RecvLock, AdoptPanes,
     ServeInherited, OutInv, PeerInv, WireInv, ConnOpen

(* The cut.  By GivenUpInv the far end is waiting, so it is the claimant, and
   the same step ends its claim and starts the new one. *)
LEMMA SendCommitKeepsPrompt ==
    ASSUME Prompt, IndInv, PromptInv, NEW i \in Daemons, SendCommit(i)
    PROVE  PromptInv'
  BY DEF PromptInv, OneClaim, CommittedInv, StoppingInv, OutgoingInv, GivenUpInv,
     Claims, IndInv, TypeOK, SendCommit, ConnOpen, OutInv

(* The new owner goes on as it was. *)
LEMMA ResumeKeepsPrompt ==
    ASSUME Prompt, IndInv, PromptInv, NEW i \in Daemons, ResumePumps(i)
    PROVE  PromptInv'
  BY DEF PromptInv, OneClaim, CommittedInv, StoppingInv, OutgoingInv, GivenUpInv,
     Claims, IndInv, TypeOK, ResumePumps

(* Until the byte is there the sender keeps its claim, and without "slow" it
   gives up the wait only on a receiver that is gone. *)
LEMMA OutgoingKeepsPrompt ==
    ASSUME Prompt, IndInv, PromptInv, NEW o \in Daemons, OutgoingStep(o)
    PROVE  PromptInv'
  BY DEF PromptInv, OneClaim, CommittedInv, StoppingInv, OutgoingInv, GivenUpInv,
     Claims, IndInv, TypeOK, OutgoingStep, SendListener, SendLock, PauseAll,
     SendPanes, WaitForCommit, Abort, CloseTransfer, OutInv, PeerInv, WireInv,
     Prompt, Alive

(* Stopping is not claiming. *)
LEMMA StopKeepsPrompt ==
    ASSUME Prompt, IndInv, PromptInv, NEW d \in Daemons, StopAccepting(d) \/ Terminate(d)
    PROVE  PromptInv'
  BY DEF PromptInv, OneClaim, CommittedInv, StoppingInv, OutgoingInv, GivenUpInv,
     Claims, IndInv, TypeOK, StopAccepting, Terminate, OutInv

(* PromptInv is inductive relative to IndInv. *)
LEMMA StepPrompt == ASSUME Prompt, IndInv, PromptInv, [Next]_vars PROVE PromptInv'
<1>1. CASE UNCHANGED vars
  BY <1>1 DEF vars, PromptInv, OneClaim, CommittedInv, StoppingInv, OutgoingInv,
     GivenUpInv, Claims
<1>2. ASSUME NEW d \in Daemons, Start(d) \/ StartStep(d) PROVE PromptInv'
  BY <1>2, StartStepKeepsPrompt
<1>3. ASSUME NEW i \in Daemons, IncomingStep(i) PROVE PromptInv'
  BY <1>3, ReceiveKeepsPrompt, SendCommitKeepsPrompt, ResumeKeepsPrompt, ExitKeepsPrompt
     DEF IncomingStep, Refuse
<1>4. ASSUME NEW o \in Daemons, OutgoingStep(o) PROVE PromptInv'
  BY <1>4, OutgoingKeepsPrompt
<1>5. ASSUME NEW d \in Daemons, EndStep(d) \/ Terminate(d) \/ Crash(d) PROVE PromptInv'
  BY <1>5, StopKeepsPrompt, ExitKeepsPrompt DEF EndStep, ExitHandedOn, FinishShutdown, Crash
<1>6. ASSUME NEW d \in Daemons, NEW p \in Panes, Spawn(d, p) \/ Kill(d, p)
      PROVE PromptInv'
  BY <1>6, VerbKeepsPrompt
<1>7. ASSUME NEW i \in Daemons, NEW o \in Daemons, StartIncoming(i, o) \/ Grant(o, i)
      PROVE PromptInv'
  BY <1>7, RequestKeepsPrompt
<1> QED
  BY <1>1, <1>2, <1>3, <1>4, <1>5, <1>6, <1>7 DEF Next

(* ADR 0021 section 3, "exactly one serving daemon", for any number of
   processes, crashes and shutdowns, as long as no incoming daemon outlives the
   outgoing one's deadline and no request meets a daemon in mid-handoff. *)
THEOREM OneOwnerTheorem == ASSUME Prompt PROVE Spec => []OneOwner
<1>1. Init => PromptInv
  BY InitPrompt
<1>2. IndInv /\ PromptInv /\ [Next]_vars => PromptInv'
  BY StepPrompt
<1>3. PromptInv => OneOwner
  BY DEF PromptInv, OneClaim, Claims, OneOwner, Owner
<1> QED
  BY <1>1, <1>2, <1>3, Invariance, PTL DEF Spec

-----------------------------------------------------------------------------
(* Somebody always accepts.  A daemon stops only for a successor that has
   committed, and a successor is younger than the daemon it asked, so the line
   of successors ends with a process that has not stopped.                 *)

Bound(d) == d \in fresh /\ listener[d] # None

(* Nobody descends from itself: every set of processes has one from which no
   other of the set has taken over.                                        *)
DescentInv == \A X \in SUBSET Daemons : X # {} => \E x \in X : \A y \in X : from[y] # x

HeirInv == \A d \in stopping : \E e \in committed : from[e] = d

FreshInv ==
    /\ \A d \in fresh : pc[d] \in StartPhases \cup {"owner", "draining", "dead"}
    /\ \A d \in Daemons : pc[d] \in StartPhases => d \in fresh
    /\ path # None => path \in fresh /\ listener[path] = path

CommitInv == \A i \in committed :
    /\ pc[i] \in {"resume", "owner", "draining", "dead"}
    /\ from[i] \in Daemons /\ listener[i] = listener[from[i]]

ServeInv == crashes = 0 /\ ~stopped =>
    \A d \in Daemons :
        /\ pc[d] # "draining"
        /\ Bound(d) \/ d \in committed \/ pc[d] = "ready" => d \in accepting \cup stopping

AliveInv == DescentInv /\ HeirInv /\ FreshInv /\ CommitInv /\ ServeInv

LEMMA InitAlive == ASSUME Init PROVE AliveInv
<1>1. DescentInv
  BY HandoffAssumption DEF Init, DescentInv
<1> QED
  BY <1>1, HandoffAssumption DEF Init, AliveInv, HeirInv, FreshInv, CommitInv, ServeInv, Bound

(* What a step that starts no handoff leaves alone. *)
LEMMA DescentKept == ASSUME DescentInv, UNCHANGED from PROVE DescentInv'
  BY DEF DescentInv

(* A process that is started has no successor yet. *)
LEMMA DescentGrows ==
    ASSUME IndInv, DescentInv, NEW i \in Daemons, NEW o \in Daemons, StartIncoming(i, o)
    PROVE  DescentInv'
<1>1. \A y \in Daemons : from[y] # i /\ o # i
  BY HandoffAssumption DEF IndInv, TypeOK, FromInv, AcceptInv, StartIncoming
<1>2. from' = [from EXCEPT ![i] = o] /\ DOMAIN from = Daemons
  BY DEF StartIncoming, IndInv, TypeOK
<1>3. \A y \in Daemons : from'[y] # i
  BY <1>1, <1>2
<1> SUFFICES ASSUME NEW X \in SUBSET Daemons, X # {}
             PROVE  \E x \in X : \A y \in X : from'[y] # x
  BY DEF DescentInv
<1>4. CASE i \in X
  BY <1>3, <1>4
<1>5. CASE i \notin X
  <2>1. PICK x \in X : \A y \in X : from[y] # x
    BY DEF DescentInv
  <2>2. \A y \in X : from'[y] = from[y]
    BY <1>2, <1>5
  <2> QED
    BY <2>1, <2>2
<1> QED
  BY <1>4, <1>5

(* The end of a process: it was stopping, or no longer counted, or is itself
   what the claim excludes. *)
LEMMA ExitKeepsAlive ==
    ASSUME IndInv, AliveInv, NEW d \in Daemons, Exit(d), path' \in {path, None},
           ~(crashes' = 0 /\ ~stopped') \/
             /\ crashes = 0 /\ ~stopped
             /\ d \in stopping \/ pc[d] \in StartPhases \cup IncomingPhases
    PROVE  AliveInv'
<1>1. DescentInv'
  BY DescentKept DEF AliveInv, Exit
<1>2. HeirInv' /\ FreshInv' /\ CommitInv'
  BY HandoffAssumption DEF AliveInv, HeirInv, FreshInv, CommitInv, IndInv, TypeOK, Exit
<1>3. ServeInv'
  <2> SUFFICES ASSUME crashes' = 0, ~stopped', NEW e \in Daemons
               PROVE  /\ pc'[e] # "draining"
                      /\ Bound(e)' \/ e \in committed' \/ pc'[e] = "ready"
                           => e \in accepting' \cup stopping'
    BY DEF ServeInv
  <2>1. crashes = 0 /\ ~stopped /\ (d \in stopping \/ pc[d] \in StartPhases \cup IncomingPhases)
    OBVIOUS
  <2>2. pc[e] # "draining" /\ (Bound(e) \/ e \in committed \/ pc[e] = "ready" => e \in accepting \cup stopping)
    BY <2>1 DEF AliveInv, ServeInv
  <2>3. CASE e = d
    <3>1. pc'[d] = "dead" /\ (Bound(d)' <=> Bound(d)) /\ committed' = committed /\ stopping' = stopping
      BY DEF Exit, Bound, IndInv, TypeOK
    <3>2. CASE d \in stopping
      BY <2>3, <3>1, <3>2
    <3>3. CASE pc[d] \in StartPhases \cup IncomingPhases
      <4>1. ~Bound(d) /\ d \notin committed
        BY <3>3 DEF Bound, AliveInv, FreshInv, CommitInv, IndInv, ListenerInv
      <4> QED
        BY <2>3, <3>1, <4>1
    <3> QED
      BY <2>1, <3>2, <3>3
  <2>4. CASE e # d
    BY <2>2, <2>4 DEF Exit, Bound, IndInv, TypeOK
  <2> QED
    BY <2>3, <2>4
<1> QED
  BY <1>1, <1>2, <1>3 DEF AliveInv

(* A fresh start; by FromInv nobody asked a process that has not bound yet. *)
LEMMA StartStepKeepsAlive ==
    ASSUME IndInv, AliveInv, NEW d \in Daemons, Start(d) \/ StartStep(d)
    PROVE  AliveInv'
<1>1. CASE Start(d)
  BY <1>1, DescentKept DEF AliveInv, HeirInv, FreshInv, CommitInv, ServeInv, Bound, IndInv, TypeOK,
     ListenerInv, Start
<1>2. CASE (Probe(d) /\ ~IsLive) \/ (Acquire(d) /\ LockFree)
  BY <1>2, DescentKept DEF AliveInv, HeirInv, FreshInv, CommitInv, ServeInv, Bound, IndInv, TypeOK,
     Probe, Acquire
<1>3. CASE (Probe(d) /\ IsLive) \/ (Acquire(d) /\ ~LockFree)
  <2>1. Exit(d) /\ UNCHANGED <<path, crashes, stopped>> /\ pc[d] \in StartPhases
    BY <1>3 DEF Probe, Acquire
  <2> QED
    BY <2>1, ExitKeepsAlive
<1>4. CASE Bind(d)
  <2>1. /\ pc[d] = "bind" /\ pc' = [pc EXCEPT ![d] = "owner"] /\ accepting' = accepting \cup {d}
        /\ listener' = [listener EXCEPT ![d] = d] /\ path' = d
        /\ UNCHANGED <<fresh, stopping, from, committed, crashes, stopped>>
    BY <1>4 DEF Bind
  <2>2. d \in fresh
    BY <2>1 DEF AliveInv, FreshInv, IndInv, TypeOK
  <2>3. HeirInv' /\ FreshInv'
    BY <2>1, <2>2, HandoffAssumption DEF AliveInv, HeirInv, FreshInv, IndInv, TypeOK
  <2>4. CommitInv'
    BY <2>1, HandoffAssumption DEF AliveInv, CommitInv, IndInv, TypeOK, FromInv
  <2>5. ServeInv'
    BY <2>1 DEF AliveInv, ServeInv, Bound, IndInv, TypeOK
  <2> QED
    BY <2>1, <2>3, <2>4, <2>5, DescentKept DEF AliveInv
<1> QED
  BY <1>1, <1>2, <1>3, <1>4 DEF StartStep

(* The incoming side up to its commit byte, and after it. *)
LEMMA IncomingKeepsAlive ==
    ASSUME IndInv, AliveInv, NEW i \in Daemons, IncomingStep(i)
    PROVE  AliveInv'
<1>1. CASE Dial(i) \/ RecvLock(i) \/ AdoptPanes(i)
  BY <1>1, DescentKept DEF AliveInv, HeirInv, FreshInv, CommitInv, ServeInv, Bound, IndInv, TypeOK,
     Dial, RecvLock, AdoptPanes
<1>2. CASE RecvListener(i)
  <2>1. /\ pc[i] = "listener" /\ pc' = [pc EXCEPT ![i] = "lock"]
        /\ listener' = [listener EXCEPT ![i] = listener[from[i]]]
        /\ UNCHANGED <<fresh, accepting, stopping, path, from, committed, crashes, stopped>>
    BY <1>2 DEF RecvListener
  <2>2. i \notin fresh /\ i \notin committed
    BY <2>1 DEF AliveInv, FreshInv, CommitInv
  <2>3. HeirInv' /\ FreshInv'
    BY <2>1, <2>2 DEF AliveInv, HeirInv, FreshInv, IndInv, TypeOK
  <2>4. CommitInv'
    BY <2>1, <2>2, HandoffAssumption DEF AliveInv, CommitInv, IndInv, TypeOK, FromInv
  <2>5. ServeInv'
    BY <2>1, <2>2 DEF AliveInv, ServeInv, Bound, IndInv, TypeOK
  <2> QED
    BY <2>1, <2>3, <2>4, <2>5, DescentKept DEF AliveInv
<1>3. CASE ServeInherited(i) \/ ResumePumps(i)
  BY <1>3, DescentKept DEF AliveInv, HeirInv, FreshInv, CommitInv, ServeInv, Bound, IndInv, TypeOK,
     ServeInherited, ResumePumps
<1>4. CASE SendCommit(i)
  BY <1>4, DescentKept DEF AliveInv, HeirInv, FreshInv, CommitInv, ServeInv, Bound, IndInv, TypeOK,
     FromInv, ListenerInv, SendCommit
<1>5. CASE Refuse(i)
  BY <1>5, ExitKeepsAlive DEF Refuse
<1> QED
  BY <1>1, <1>2, <1>3, <1>4, <1>5 DEF IncomingStep

(* The outgoing side: it stops when its peer has committed. *)
LEMMA OutgoingKeepsAlive ==
    ASSUME IndInv, AliveInv, NEW o \in Daemons, OutgoingStep(o)
    PROVE  AliveInv'
<1>1. CASE WaitForCommit(o)
  <2>1. /\ peer[o] \in committed /\ from[peer[o]] = o /\ stopping' = stopping \cup {o}
        /\ UNCHANGED <<pc, fresh, accepting, listener, path, from, committed, crashes, stopped>>
    BY <1>1 DEF WaitForCommit, IndInv, OutInv
  <2>2. HeirInv'
    BY <2>1 DEF AliveInv, HeirInv
  <2> QED
    BY <2>1, <2>2, DescentKept DEF AliveInv, FreshInv, CommitInv, ServeInv, Bound
<1>2. CASE ~WaitForCommit(o)
  <2>1. UNCHANGED <<pc, fresh, accepting, stopping, listener, path, from, committed, crashes, stopped>>
    BY <1>2 DEF OutgoingStep, SendListener, SendLock, PauseAll, SendPanes, Abort, CloseTransfer
  <2> QED
    BY <2>1, DescentKept DEF AliveInv, HeirInv, FreshInv, CommitInv, ServeInv, Bound
<1> QED
  BY <1>1, <1>2

(* The endings.  Without a crash or a signal only a process that stops for its
   successor leaves the accept loop. *)
LEMMA EndKeepsAlive ==
    ASSUME IndInv, AliveInv, NEW d \in Daemons, EndStep(d) \/ Terminate(d) \/ Crash(d)
    PROVE  AliveInv'
<1>1. CASE StopAccepting(d)
  BY <1>1, DescentKept DEF AliveInv, HeirInv, FreshInv, CommitInv, ServeInv, Bound, StopAccepting
<1>2. CASE Terminate(d)
  BY <1>2, DescentKept DEF AliveInv, HeirInv, FreshInv, CommitInv, ServeInv, Bound, IndInv, TypeOK,
     Terminate
<1>3. CASE ExitHandedOn(d)
  <2>1. Exit(d) /\ path' = path /\ crashes' = crashes /\ stopped' = stopped /\ d \in stopping
    BY <1>3 DEF ExitHandedOn
  <2> QED
    BY <2>1, ExitKeepsAlive
<1>4. CASE FinishShutdown(d)
  <2>1. Exit(d) /\ path' = None /\ crashes' = crashes /\ stopped' = stopped /\ pc[d] = "draining"
    BY <1>4 DEF FinishShutdown
  <2>2. ~(crashes' = 0 /\ ~stopped')
    BY <2>1 DEF AliveInv, ServeInv
  <2> QED
    BY <2>1, <2>2, ExitKeepsAlive
<1>5. CASE Crash(d)
  <2>1. Exit(d) /\ path' = path /\ crashes' = crashes + 1 /\ crashes \in Nat
    BY <1>5 DEF Crash, IndInv, TypeOK
  <2>2. crashes' # 0
    BY <2>1
  <2> QED
    BY <2>1, <2>2, ExitKeepsAlive
<1> QED
  BY <1>1, <1>2, <1>3, <1>4, <1>5 DEF EndStep

(* AliveInv is inductive relative to IndInv. *)
LEMMA StepAlive == ASSUME IndInv, AliveInv, [Next]_vars PROVE AliveInv'
<1>1. ASSUME UNCHANGED <<pc, fresh, accepting, stopping, listener, path, from, committed,
                         crashes, stopped>>
      PROVE  AliveInv'
  BY <1>1, DescentKept DEF AliveInv, HeirInv, FreshInv, CommitInv, ServeInv, Bound
<1>2. ASSUME NEW d \in Daemons, NEW p \in Panes, Spawn(d, p) \/ Kill(d, p) PROVE AliveInv'
  BY <1>1, <1>2 DEF Spawn, Kill
<1>3. CASE UNCHANGED vars
  BY <1>1, <1>3 DEF vars
<1>4. ASSUME NEW i \in Daemons, NEW o \in Daemons, Grant(o, i) PROVE AliveInv'
  BY <1>4, DescentKept DEF AliveInv, HeirInv, FreshInv, CommitInv, ServeInv, Bound, IndInv, TypeOK,
     Grant
<1>5. ASSUME NEW i \in Daemons, NEW o \in Daemons, StartIncoming(i, o) PROVE AliveInv'
  <2>1. /\ pc[i] = "unborn" /\ pc' = [pc EXCEPT ![i] = "request"] /\ from' = [from EXCEPT ![i] = o]
        /\ UNCHANGED <<fresh, accepting, stopping, listener, path, committed, crashes, stopped>>
    BY <1>5 DEF StartIncoming
  <2>2. i \notin fresh /\ i \notin committed
    BY <2>1 DEF AliveInv, FreshInv, CommitInv
  <2>3. HeirInv' /\ FreshInv' /\ CommitInv'
    BY <2>1, <2>2 DEF AliveInv, HeirInv, FreshInv, CommitInv, IndInv, TypeOK
  <2>4. ServeInv'
    BY <2>1, <2>2 DEF AliveInv, ServeInv, Bound, IndInv, TypeOK
  <2>5. DescentInv'
    BY <1>5, DescentGrows DEF AliveInv
  <2> QED
    BY <2>3, <2>4, <2>5 DEF AliveInv
<1> QED
  BY <1>2, <1>3, <1>4, <1>5, StartStepKeepsAlive, IncomingKeepsAlive, OutgoingKeepsAlive,
     EndKeepsAlive DEF Next

(* ADR 0021 section 2, "There is no state in which the machine has no serving
   daemon", for any number of processes and whatever the environment does: until
   a process crashes or is stopped, somebody accepts on the listener that the
   path names. *)
THEOREM NeverDeadTheorem == Spec => []SocketNeverDead
<1>1. Init => AliveInv
  BY InitAlive
<1>2. IndInv /\ AliveInv /\ [Next]_vars => AliveInv'
  BY StepAlive
<1>3. IndInv /\ AliveInv => SocketNeverDead
  <2> SUFFICES ASSUME IndInv, AliveInv, path # None, crashes = 0, ~stopped
               PROVE  \E d \in accepting : listener[d] = path
    BY DEF SocketNeverDead
  <2> DEFINE X == {d \in Daemons : listener[d] = path /\ (Bound(d) \/ d \in committed)}
  <2>1. path \in X
    BY DEF AliveInv, FreshInv, Bound, IndInv, TypeOK
  <2>2. PICK x \in X : \A y \in X : from[y] # x
    BY <2>1 DEF AliveInv, DescentInv
  <2>3. x \notin stopping
    <3> SUFFICES ASSUME x \in stopping PROVE FALSE
      OBVIOUS
    <3>1. PICK y \in committed : from[y] = x
      BY DEF AliveInv, HeirInv
    <3>2. y \in Daemons /\ listener[y] = listener[x]
      BY <3>1 DEF AliveInv, CommitInv, IndInv, TypeOK
    <3> QED
      BY <2>2, <3>1, <3>2
  <2>4. x \in accepting
    BY <2>2, <2>3 DEF AliveInv, ServeInv
  <2> QED
    BY <2>2, <2>4
<1> QED
  BY <1>1, <1>2, <1>3, Invariance, PTL DEF Spec

-----------------------------------------------------------------------------
(* The commit byte is the cut.  What the receiver holds when it commits is what
   the sender has, because nobody spawns on either side meanwhile, and a pane
   that is killed is gone from both.                                       *)

Frozen == "midspawn" \notin Env

Same(a, b) == a \ killed = b \ killed

CapturedInv == \A o \in Daemons : out[o] \in {"bound", "listener", "lock", "pause", "panes"} =>
    Same(entries[o], registry[o])

SentInv == \A o \in Daemons : out[o] = "wait" =>
    /\ "panes" \in wire[peer[o]] => Same(manifest[peer[o]], registry[o])
    /\ pc[peer[o]] \in {"serve", "ready"} => Same(registry[peer[o]], registry[o])

CopyInv == CapturedInv /\ SentInv

LEMMA InitCopy == ASSUME Init PROVE CopyInv
  BY DEF Init, CopyInv, CapturedInv, SentInv

(* A process that ends is not a sender any more, or not one that commits. *)
LEMMA ExitKeepsCopy ==
    ASSUME IndInv, CopyInv, NEW d \in Daemons, Exit(d)
    PROVE  CopyInv'
<1> USE DEF IndInv, TypeOK, Exit, Same
<1>1. CapturedInv'
  BY DEF CopyInv, CapturedInv
<1>2. SentInv'
  BY DEF CopyInv, SentInv, OutInv
<1> QED BY <1>1, <1>2 DEF CopyInv

(* Who starts is neither side of a transfer. *)
LEMMA StartStepKeepsCopy ==
    ASSUME IndInv, CopyInv, NEW d \in Daemons, Start(d) \/ StartStep(d)
    PROVE  CopyInv'
<1> USE DEF IndInv, TypeOK, Same
<1>1. CASE Start(d)
  BY <1>1 DEF Start, CopyInv, CapturedInv, SentInv, xferVars, paneVars
<1>2. CASE StartStep(d) /\ ~Bind(d) /\ ~Exit(d)
  <2>1. /\ UNCHANGED <<out, peer, entries, wire, manifest, registry, killed>>
        /\ \E phase \in {"acquire", "bind", "reprobe"} : pc' = [pc EXCEPT ![d] = phase]
    BY <1>2 DEF StartStep, Probe, Acquire, xferVars, paneVars
  <2>2. \A e \in Daemons : pc'[e] \in {"serve", "ready"} => pc[e] = pc'[e]
    BY <2>1
  <2> QED BY <2>1, <2>2 DEF CopyInv, CapturedInv, SentInv, OutInv
<1>3. CASE Bind(d)
  <2>1. \A o \in Daemons : out[o] # "idle" => o # d /\ peer[o] \in Daemons
    BY <1>3 DEF Bind, OutInv, ServedPhases
  <2>2. CapturedInv'
    BY <1>3, <2>1 DEF Bind, CopyInv, CapturedInv, xferVars
  <2>3. SentInv'
    BY <1>3, <2>1 DEF Bind, CopyInv, SentInv, xferVars
  <2> QED BY <2>2, <2>3 DEF CopyInv
<1> QED BY <1>1, <1>2, <1>3, ExitKeepsCopy

(* A spawn is outside every handoff; a kill takes the pane from both sides. *)
LEMMA VerbKeepsCopy ==
    ASSUME Frozen, IndInv, CopyInv, NEW d \in Daemons, NEW p \in Panes, Spawn(d, p) \/ Kill(d, p)
    PROVE  CopyInv'
<1> USE DEF IndInv, TypeOK, Same
<1>1. CASE Spawn(d, p)
  <2>1. pc[d] = "owner" /\ out[d] = "idle"
    BY <1>1 DEF Spawn, OutsideHandoff, Frozen
  <2>2. \A e \in Daemons \ {d} : registry'[e] = registry[e]
    BY <1>1 DEF Spawn
  <2>3. UNCHANGED <<pc, out, peer, entries, wire, manifest, killed>>
    BY <1>1 DEF Spawn, procVars, xferVars
  <2>4. CapturedInv'
    BY <2>1, <2>2, <2>3 DEF CopyInv, CapturedInv
  <2>5. SentInv'
    BY <2>1, <2>2, <2>3 DEF CopyInv, SentInv, OutInv
  <2> QED BY <2>4, <2>5 DEF CopyInv
<1>2. CASE Kill(d, p)
  <2>1. \A e \in Daemons : registry'[e] \ killed' = (registry[e] \ killed) \ {p}
    BY <1>2 DEF Kill
  <2>2. UNCHANGED <<pc, out, peer, entries, wire, manifest>> /\ killed' = killed \cup {p}
    BY <1>2 DEF Kill, procVars, xferVars
  <2>3. \A a : a \ killed' = (a \ killed) \ {p}
    BY <2>2
  <2>4. CapturedInv'
    BY <2>1, <2>2, <2>3 DEF CopyInv, CapturedInv
  <2>5. SentInv'
    BY <2>1, <2>2, <2>3 DEF CopyInv, SentInv, OutInv
  <2> QED BY <2>4, <2>5 DEF CopyInv
<1> QED BY <1>1, <1>2

(* The registry is captured as it is. *)
LEMMA RequestKeepsCopy ==
    ASSUME IndInv, CopyInv, NEW i \in Daemons, NEW o \in Daemons, StartIncoming(i, o) \/ Grant(o, i)
    PROVE  CopyInv'
<1> USE DEF IndInv, TypeOK, Same
<1>1. CASE StartIncoming(i, o)
  BY <1>1 DEF StartIncoming, CopyInv, CapturedInv, SentInv, paneVars
<1>2. CASE Grant(o, i)
  BY <1>2 DEF Grant, CopyInv, CapturedInv, SentInv, paneVars
<1> QED BY <1>1, <1>2

(* The receiver adopts what the manifest names. *)
LEMMA IncomingKeepsCopy ==
    ASSUME IndInv, CopyInv, NEW i \in Daemons, IncomingStep(i)
    PROVE  CopyInv'
<1> USE DEF IndInv, TypeOK, Same
<1>1. CASE Dial(i) \/ RecvListener(i) \/ RecvLock(i)
  BY <1>1 DEF Dial, RecvListener, RecvLock, CopyInv, CapturedInv, SentInv, paneVars, OutInv, PeerInv, ConnOpen
<1>2. CASE AdoptPanes(i)
  <2>1. out[i] = "idle"
    BY <1>2 DEF AdoptPanes, OutInv, ServedPhases
  <2>2. CapturedInv'
    BY <1>2, <2>1 DEF AdoptPanes, CopyInv, CapturedInv
  <2>3. SentInv'
    BY <1>2, <2>1 DEF AdoptPanes, CopyInv, SentInv, OutInv
  <2> QED BY <2>2, <2>3 DEF CopyInv
<1>3. CASE ServeInherited(i) \/ SendCommit(i) \/ ResumePumps(i)
  BY <1>3 DEF ServeInherited, SendCommit, ResumePumps, CopyInv, CapturedInv, SentInv, xferVars, paneVars, OutInv
<1> QED BY <1>1, <1>2, <1>3, ExitKeepsCopy DEF IncomingStep, Refuse

(* The manifest is the capture. *)
LEMMA OutgoingKeepsCopy ==
    ASSUME IndInv, CopyInv, NEW o \in Daemons, OutgoingStep(o)
    PROVE  CopyInv'
<1> USE DEF IndInv, TypeOK, Same
<1>1. CASE SendListener(o) \/ SendLock(o) \/ PauseAll(o)
  BY <1>1 DEF SendListener, SendLock, PauseAll, CopyInv, CapturedInv, SentInv, paneVars, OutInv
<1>2. CASE SendPanes(o)
  <2>1. \A e \in Daemons : out[e] # "idle" => e = o
    BY <1>2 DEF SendPanes, OutInv
  <2>2. peer[o] \in Daemons /\ pc[peer[o]] \notin {"serve", "ready"}
    BY <1>2 DEF SendPanes, OutInv, PeerInv
  <2> QED BY <1>2, <2>1, <2>2 DEF SendPanes, CopyInv, CapturedInv, SentInv, procVars, paneVars
<1>3. CASE WaitForCommit(o) \/ Abort(o) \/ CloseTransfer(o)
  BY <1>3 DEF WaitForCommit, Abort, CloseTransfer, CopyInv, CapturedInv, SentInv, procVars, paneVars
<1> QED BY <1>1, <1>2, <1>3 DEF OutgoingStep

LEMMA StepCopy == ASSUME Frozen, IndInv, CopyInv, [Next]_vars PROVE CopyInv'
<1>1. CASE UNCHANGED vars
  BY <1>1 DEF vars, procVars, xferVars, paneVars, CopyInv, CapturedInv, SentInv, Same
<1>2. ASSUME NEW d \in Daemons, StopAccepting(d) \/ Terminate(d) PROVE CopyInv'
  BY <1>2 DEF StopAccepting, Terminate, xferVars, paneVars, CopyInv, CapturedInv, SentInv, Same, IndInv,
     TypeOK, OutInv
<1>3. ASSUME NEW d \in Daemons, EndStep(d) \/ Terminate(d) \/ Crash(d) PROVE CopyInv'
  BY <1>2, <1>3, ExitKeepsCopy DEF EndStep, ExitHandedOn, FinishShutdown, Crash
<1> QED
  BY <1>1, <1>3, StartStepKeepsCopy, IncomingKeepsCopy, OutgoingKeepsCopy, VerbKeepsCopy,
     RequestKeepsCopy DEF Next

LEMMA OwnerFact ==
    ASSUME OneOwner
    PROVE  /\ \A d \in Daemons : Owner(d) => SocketOwner = d
           /\ (\A d \in Daemons : ~Owner(d)) => SocketOwner = None
           /\ SocketOwner # None => SocketOwner \in Daemons /\ Owner(SocketOwner)
<1>1. ASSUME NEW d \in Daemons, Owner(d) PROVE SocketOwner = d
  <2>1. \A e \in Daemons : Owner(e) <=> e = d
    BY <1>1 DEF OneOwner
  <2>2. (CHOOSE e \in Daemons : Owner(e)) = d
    BY <2>1
  <2> QED BY <1>1, <2>2 DEF SocketOwner
<1>2. ASSUME \A d \in Daemons : ~Owner(d) PROVE SocketOwner = None
  BY <1>2 DEF SocketOwner
<1> QED BY <1>1, <1>2

(* A process becomes the owner by its bind or by its commit byte, and another one
   stops being it in the same step only by the latter.                     *)
LEMMA CutFact ==
    ASSUME IndInv, CopyInv, [Next]_vars,
           NEW d \in Daemons, NEW e \in Daemons, Owner(d), Owner(e)', ~Owner(d)', ~Owner(e)
    PROVE  registry'[e] \ killed' = registry[d] \ killed
<1> USE DEF IndInv, TypeOK, Owner
<1>1. ASSUME NEW i \in Daemons, SendCommit(i) PROVE registry'[e] \ killed' = registry[d] \ killed
  <2>1. pc[i] = "ready" /\ UNCHANGED <<stopping, out, peer, registry, killed>>
          /\ committed' = committed \cup {i} /\ pc' = [pc EXCEPT ![i] = "resume"]
    BY <1>1 DEF SendCommit, paneVars
  <2>2. e = i
    BY <2>1
  <2>3. out[d] = "wait" /\ peer[d] = i
    BY <2>1
  <2> QED BY <2>1, <2>2, <2>3 DEF CopyInv, SentInv, Same
<1>2. ASSUME NEW i \in Daemons, Exit(i) PROVE FALSE
  BY <1>2 DEF Exit
<1>3. ASSUME NEW i \in Daemons, Start(i) \/ StartStep(i) PROVE FALSE
  <2>1. CASE Start(i)
    BY <2>1 DEF Start, xferVars
  <2>2. CASE Bind(i)
    BY <2>2 DEF Bind, xferVars
  <2>3. CASE Probe(i) \/ Acquire(i)
    BY <1>2, <2>3 DEF Probe, Acquire, xferVars
  <2> QED BY <1>3, <2>1, <2>2, <2>3 DEF StartStep
<1>4. ASSUME NEW i \in Daemons, IncomingStep(i), ~SendCommit(i) PROVE FALSE
  <2>1. CASE Dial(i)
    BY <2>1 DEF Dial
  <2>2. CASE RecvListener(i) \/ RecvLock(i) \/ AdoptPanes(i)
    BY <2>2 DEF RecvListener, RecvLock, AdoptPanes
  <2>3. CASE ServeInherited(i) \/ ResumePumps(i)
    BY <2>3 DEF ServeInherited, ResumePumps, xferVars
  <2> QED BY <1>2, <1>4, <2>1, <2>2, <2>3 DEF IncomingStep, Refuse
<1>5. ASSUME NEW o \in Daemons, OutgoingStep(o) PROVE FALSE
  <2>1. CASE SendListener(o) \/ SendLock(o) \/ PauseAll(o) \/ SendPanes(o)
    BY <2>1 DEF SendListener, SendLock, PauseAll, SendPanes, procVars
  <2>2. CASE WaitForCommit(o)
    BY <2>2 DEF WaitForCommit
  <2>3. CASE Abort(o) \/ CloseTransfer(o)
    BY <2>3 DEF Abort, CloseTransfer, procVars
  <2> QED BY <1>5, <2>1, <2>2, <2>3 DEF OutgoingStep
<1>6. ASSUME NEW i \in Daemons, EndStep(i) \/ Terminate(i) \/ Crash(i) PROVE FALSE
  <2>1. CASE StopAccepting(i) \/ Terminate(i)
    BY <2>1 DEF StopAccepting, Terminate, xferVars
  <2> QED BY <1>2, <1>6, <2>1 DEF EndStep, ExitHandedOn, FinishShutdown, Crash
<1>7. ASSUME NEW i \in Daemons, NEW p \in Panes, Spawn(i, p) \/ Kill(i, p) PROVE FALSE
  BY <1>7 DEF Spawn, Kill, procVars, xferVars
<1>8. ASSUME NEW i \in Daemons, NEW o \in Daemons, StartIncoming(i, o) \/ Grant(o, i) PROVE FALSE
  BY <1>8 DEF StartIncoming, Grant
<1>9. ASSUME UNCHANGED vars PROVE FALSE
  BY <1>9 DEF vars, procVars, xferVars
<1> QED
  BY <1>1, <1>3, <1>4, <1>5, <1>6, <1>7, <1>8, <1>9 DEF Next

ServedPanes == IF SocketOwner = None THEN {} ELSE registry[SocketOwner] \ killed

(* Every step of the protocol is a step of the service or changes nothing of it. *)
LEMMA StepService ==
    ASSUME IndInv, IndInv', PromptInv, PromptInv', CopyInv, [Next]_vars
    PROVE  [Service!Next]_<<SocketOwner, ServedPanes>>
<1>1. OneOwner /\ OneOwner'
  BY DEF PromptInv, OneClaim, Claims, OneOwner, Owner
<1>2. /\ \A d \in Daemons : Owner(d) => SocketOwner = d
      /\ (\A d \in Daemons : ~Owner(d)) => SocketOwner = None
      /\ SocketOwner # None => SocketOwner \in Daemons /\ Owner(SocketOwner)
  BY <1>1, OwnerFact
<1>3. /\ \A d \in Daemons : Owner(d)' => SocketOwner' = d
      /\ (\A d \in Daemons : ~Owner(d)') => SocketOwner' = None
  <2>1. ASSUME NEW d \in Daemons, Owner(d)' PROVE SocketOwner' = d
    <3>1. \A e \in Daemons : Owner(e)' <=> e = d
      BY <1>1, <2>1 DEF OneOwner
    <3>2. (CHOOSE e \in Daemons : Owner(e)') = d
      BY <3>1
    <3> QED BY <2>1, <3>2 DEF SocketOwner
  <2>2. ASSUME \A d \in Daemons : ~Owner(d)' PROVE SocketOwner' = None
    BY <2>2 DEF SocketOwner
  <2> QED BY <2>1, <2>2
<1>4. /\ ServedPanes = IF SocketOwner = None THEN {} ELSE registry[SocketOwner] \ killed
      /\ ServedPanes' = IF SocketOwner' = None THEN {} ELSE registry'[SocketOwner'] \ killed'
  BY DEF ServedPanes
<1>5. None \notin Daemons /\ \A d \in Daemons : registry'[d] \subseteq Panes
  BY HandoffAssumption DEF IndInv, TypeOK
<1>6. CASE \A d \in Daemons : ~Owner(d)'
  <2>1. SocketOwner' = None /\ ServedPanes' = {}
    BY <1>3, <1>4, <1>6
  <2>2. CASE SocketOwner = None
    BY <1>4, <2>1, <2>2
  <2>3. CASE SocketOwner # None
    BY <1>2, <2>1, <2>3 DEF Service!Next, Service!End, ServedPanes
  <2> QED BY <2>2, <2>3
<1>7. ASSUME NEW e \in Daemons, Owner(e)' PROVE [Service!Next]_<<SocketOwner, ServedPanes>>
  <2>1. SocketOwner' = e /\ ServedPanes' = registry'[e] \ killed' /\ ServedPanes' \in SUBSET Panes
    BY <1>3, <1>4, <1>5, <1>7
  <2>2. CASE SocketOwner = None
    BY <2>1, <2>2 DEF Service!Next, Service!Take, ServedPanes
  <2>3. CASE SocketOwner = e
    BY <2>1, <2>3 DEF Service!Next, Service!Change, ServedPanes
  <2>4. CASE SocketOwner # None /\ SocketOwner # e
    <3>1. PICK d \in Daemons : d = SocketOwner /\ Owner(d) /\ d # e
      BY <1>2, <2>4
    <3>2. ~Owner(d)' /\ ~Owner(e)
      BY <1>1, <1>7, <3>1 DEF OneOwner
    <3>3. registry'[e] \ killed' = registry[d] \ killed
      BY <1>7, <3>1, <3>2, CutFact
    <3>4. ServedPanes' = ServedPanes
      BY <1>4, <2>1, <2>4, <3>1, <3>3
    <3> QED BY <2>1, <3>1, <3>4 DEF Service!Next, Service!Cut, ServedPanes
  <2> QED BY <2>2, <2>3, <2>4
<1> QED BY <1>6, <1>7

(* The protocol implements what the daemons promise together: ownership passes on the
   commit byte and on nothing else, in one step that changes no pane, for any number of
   processes, panes, crashes and shutdowns, when peers are prompt and nobody spawns on a
   daemon that takes part in a handoff.                                    *)
THEOREM ServiceTheorem == ASSUME Prompt, Frozen PROVE Spec => ImplementsService
<1>1. Init => PromptInv /\ CopyInv
  BY InitPrompt, InitCopy
<1>2. IndInv /\ PromptInv /\ CopyInv /\ [Next]_vars => PromptInv' /\ CopyInv'
  BY StepPrompt, StepCopy
<1>3. Init => Service!Init
  BY DEF Init, Service!Init, SocketOwner, Owner
<1>4. IndInv /\ IndInv' /\ PromptInv /\ PromptInv' /\ CopyInv /\ [Next]_vars
        => [Service!Next]_<<SocketOwner, ServedPanes>>
  BY StepService
<1>5. Spec => [](IndInv /\ PromptInv /\ CopyInv)
  BY <1>1, <1>2, Invariance, PTL DEF Spec
<1> QED
  BY <1>3, <1>4, <1>5, PTL DEF Spec, ImplementsService, Service!Spec, ServedPanes
=============================================================================
