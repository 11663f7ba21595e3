------------------------------ MODULE AgentWatch -------------------------------
(***************************************************************************)
(* What the daemon knows of a pane that nobody looks at: the detection     *)
(* engine fed from the raw journal by whoever pumping it, the 1 s tick that  *)
(* puts every transition to the notification policy, the sweeper that      *)
(* feeds the engine lines of its own, and the handoff that derives the     *)
(* engine anew.                                                            *)
(*                                                                         *)
(* A chunk of output is plain, ask (its tail has a prompt's shape), fail   *)
(* (an error's shape) or ring (a bell and no text).  Time is relative: how *)
(* long the engine has heard nothing, how long ago the last notification   *)
(* went out.  Delivery is RelaySession's; the row is what counts here.     *)
(***************************************************************************)
EXTENDS Naturals, Sequences

CONSTANTS
    IdleAfter, QuestionAfter, BlockedAfter,  \* the adapter's thresholds of silence
    Window,       \* coalesce_secs
    Cap,          \* MAX_RAW_JOURNAL, in chunks
    MaxInputs,    \* bound on chunks of output, changes of the reading and handoffs together
    Loads,        \* readings: 0 below the re-arm line, 1 below warn, 2 warn, 3 critical, 4 the ceiling
    Racing,       \* whether another pump may come between the locks of a pump
    StoreOpens,   \* what opening the store may answer in a tick
    None

ASSUME WatchAssumption ==
    /\ IdleAfter \in Nat /\ QuestionAfter \in Nat /\ BlockedAfter \in Nat
    /\ Window \in Nat /\ Cap \in Nat /\ MaxInputs \in Nat
    /\ Loads \subseteq 0..4 /\ Racing \in BOOLEAN /\ StoreOpens \subseteq BOOLEAN

Pumps  == {"tick", "client"}
Kinds  == {"plain", "ask", "fail", "ring"}
Levels == 1..3   \* warn, critical, breach: level l fires at load l + 1

VARIABLES
    printed,  \* what the pane has printed
    alive,    \* not killed by the sweeper
    engine,   \* the detection engine
    fed,      \* chunks of the journal it was fed
    pumping,  \* [Pumps -> a pump under way]
    ticked,   \* whether the tick has come round in this second
    seen,     \* the state the tick saw last, or None
    observed, \* the state it read before its first pump
    news,     \* transitions it has still to decide
    decided,  \* the state of the last decision, told or withheld, or of the first look
    told,     \* the newest notify.sent row: its state and its age
    load, hit, fired,  \* the reading, memory.events:max > 0, the alert episode
    line,     \* whether an alert line was fed, kept for a handoff
    rang,     \* levels alerted since the reading was last below the re-arm line, as
              \* far as a handoff carries the episode
    twice,    \* whether one of them was alerted again
    loads, cuts

watchVars == <<printed, alive, engine, fed, pumping, ticked, seen, observed, news, decided, told,
               load, hit, fired, line, rang, twice, loads, cuts>>

pane    == <<printed, alive>>
ticker  == <<ticked, seen, observed, news, decided, told>>
sweeper == <<load, hit, fired, line, rang, twice, loads>>

Fresh == [state |-> "unknown", tail |-> "plain", error |-> FALSE, silent |-> 0, heard |-> FALSE]
Rest  == [at |-> "idle", len |-> 0, fresh |-> <<>>, events |-> <<>>]

WatchInit ==
    /\ printed = <<>> /\ alive = TRUE
    /\ engine = Fresh /\ fed = 0
    /\ pumping = [a \in Pumps |-> Rest]
    /\ ticked = FALSE /\ seen = None /\ observed = None /\ news = <<>> /\ decided = "unknown"
    /\ told = [state |-> None, age |-> 0]
    /\ load = 0 /\ hit = FALSE /\ fired = 0 /\ line = FALSE
    /\ rang = {} /\ twice = FALSE /\ loads = 0 /\ cuts = 0

AtMost(n, bound) == IF n < bound THEN n ELSE bound
LongestSilence == IF BlockedAfter > IdleAfter THEN BlockedAfter ELSE IdleAfter

-----------------------------------------------------------------------------
(* The engine. *)

More == Len(printed) + loads + cuts < MaxInputs

Has(chunks, kind) == \E i \in DOMAIN chunks : chunks[i] = kind

(* tail_lines: the last chunk with text. *)
Tail3(before, chunks) ==
    LET text == {i \in DOMAIN chunks : chunks[i] # "ring"} IN
    IF text = {} THEN before
    ELSE chunks[CHOOSE i \in text : \A j \in text : j <= i]

(* feed, with bytes: output flows, and a bell asks for attention on top of it. *)
Spoken(e, chunks) ==
    (IF e.state = "working" THEN <<>> ELSE <<"working">>)
    \o (IF ~Has(chunks, "ring") THEN <<>>
        ELSE <<IF Tail3(e.tail, chunks) = "ask" THEN "question" ELSE "blocked">>)

(* tick: question, then blocked, then idle; never before the first output. *)
Silence(e) ==
    LET to == IF e.silent >= QuestionAfter /\ e.tail = "ask" THEN "question"
              ELSE IF e.error /\ e.silent >= BlockedAfter THEN "blocked"
              ELSE IF e.silent >= IdleAfter THEN "idle" ELSE e.state
    IN IF e.heard /\ to # e.state THEN <<to>> ELSE <<>>

Events(e, chunks) == IF chunks = <<>> THEN Silence(e) ELSE Spoken(e, chunks)

StateAfter(e, events) == IF events = <<>> THEN e.state ELSE events[Len(events)]

(* feed: the error shape that was seen once is never forgotten. *)
Feed(e, chunks) ==
    LET state == StateAfter(e, Events(e, chunks)) IN
    IF chunks = <<>> THEN [e EXCEPT !.state = state]
    ELSE [state |-> state, tail |-> Tail3(e.tail, chunks), error |-> e.error \/ Has(chunks, "fail"),
          silent |-> 0, heard |-> TRUE]

(* A line of the sweeper is one of the last three: a prompt before it still shows. *)
Alerted(e) == [e EXCEPT !.state = "working", !.error = TRUE, !.silent = 0, !.heard = TRUE]

(* push: the raw journal stops growing at its cap. *)
RawJournal == SubSeq(printed, 1, AtMost(Len(printed), Cap))

-----------------------------------------------------------------------------
(* The pane, and time.  A child that exits by itself is one that prints no more. *)

PaneOutput(kind) ==
    /\ alive /\ More
    /\ printed' = Append(printed, kind)
    /\ UNCHANGED <<alive, engine, fed, pumping, ticker, sweeper, cuts>>

(* A second, in which the tick has come round; no pump takes as long as one. *)
Pass ==
    /\ ticked /\ news = <<>> /\ \A a \in Pumps : pumping[a].at = "idle"
    /\ ticked' = FALSE
    /\ engine' = [engine EXCEPT !.silent = AtMost(@ + 1, LongestSilence)]
    /\ told' = [told EXCEPT !.age = AtMost(@ + 1, Window)]
    /\ UNCHANGED <<pane, fed, pumping, seen, observed, news, decided, sweeper, cuts>>

-----------------------------------------------------------------------------
(* pump: the snapshot, then the lock of fed, then the lock of the engine. *)

Alone(a) == Racing \/ \A b \in Pumps \ {a} : pumping[b].at = "idle"

PumpRead(a) ==
    /\ pumping[a].at = "idle" /\ Alone(a)
    /\ a = "tick" => ~ticked
    /\ pumping' = [pumping EXCEPT ![a] = [Rest EXCEPT !.at = "read", !.len = Len(RawJournal)]]
    /\ observed' = IF a = "tick" /\ seen = None THEN engine.state ELSE observed
    /\ UNCHANGED <<pane, engine, fed, ticked, seen, news, decided, told, sweeper, cuts>>

(* Faulty: what was fed is not remembered. *)
FedBehind(n) == fed

(* *fed = raw.len(), whatever fed was. *)
Fed(n) == n

PumpTake(a) ==
    /\ pumping[a].at = "read"
    /\ pumping' = [pumping EXCEPT ![a] = [Rest EXCEPT !.at = "took", !.fresh = SubSeq(RawJournal, fed + 1, pumping[a].len)]]
    /\ fed' = Fed(pumping[a].len)
    /\ UNCHANGED <<pane, engine, ticker, sweeper, cuts>>

(* Every pump but the tick's drops the events. *)
PumpFeed(a) ==
    /\ pumping[a].at = "took"
    /\ engine' = Feed(engine, pumping[a].fresh)
    /\ pumping' = [pumping EXCEPT ![a] = IF a = "tick"
                                      THEN [Rest EXCEPT !.at = "fed", !.events = Events(engine, pumping[a].fresh)]
                                      ELSE Rest]
    /\ UNCHANGED <<pane, fed, ticker, sweeper, cuts>>

-----------------------------------------------------------------------------
(* The notification tick. *)

(* The transitions of a batch: each starts where the one before left off. *)
Chain(from, events) ==
    [i \in DOMAIN events |-> [from |-> IF i = 1 THEN from ELSE events[i - 1], to |-> events[i]]]

(* Faulty: only what the tick's own pump reports is news. *)
MissedNever(previous, after, events) == <<>>

(* A change that another pump consumed. *)
Missed(previous, after, events) ==
    IF events = <<>> /\ previous # after THEN <<[from |-> previous, to |-> after]>> ELSE <<>>

(* The state now is remembered first; without a store nothing is decided. *)
TickAfter ==
    /\ pumping["tick"].at = "fed"
    /\ LET after    == engine.state
           previous == IF seen = None THEN observed ELSE seen
           events   == pumping["tick"].events
       IN /\ seen' = after
          /\ \E open \in StoreOpens :
               news' = IF open THEN Missed(previous, after, events) \o Chain(previous, events) ELSE <<>>
    /\ pumping' = [pumping EXCEPT !["tick"] = Rest]
    /\ ticked' = TRUE /\ observed' = None
    /\ decided' = IF seen = None THEN observed ELSE decided
    /\ UNCHANGED <<pane, engine, fed, told, sweeper, cuts>>

(* decide: relevance, quiet hours, the coalescing window, the episode. *)
Notifies(t, quiet) ==
    /\ t.to \in {"blocked", "question"}
    /\ ~quiet
    /\ told.state # None => told.age >= Window
    /\ ~(t.from = t.to /\ told.state = t.to)

(* decide_record_and_push *)
TickDecide ==
    /\ news # <<>>
    /\ \E quiet \in BOOLEAN :
         told' = IF Notifies(Head(news), quiet) THEN [state |-> Head(news).to, age |-> 0] ELSE told
    /\ decided' = Head(news).to
    /\ news' = Tail(news)
    /\ UNCHANGED <<pane, engine, fed, pumping, ticked, seen, observed, sweeper, cuts>>

-----------------------------------------------------------------------------
(* The enforcement sweeper. *)

(* The kernel's reading; the ceiling counter never goes down. *)
Load(n) ==
    /\ More /\ n # load
    /\ load' = n /\ hit' = (hit \/ n = 4) /\ loads' = loads + 1
    /\ rang' = IF n = 0 THEN {} ELSE rang
    /\ UNCHANGED <<pane, engine, fed, pumping, ticker, fired, line, twice, cuts>>

(* Faulty: every level re-arms below warn. *)
RearmedEarly == load <= 1

Rearmed == load = 0

(* AlertState::check: the first level, going up, that has not fired. *)
Fires == {l \in Levels : load > l /\ l > fired /\ \A k \in Levels : load > k /\ k > fired => l <= k}

(* poll_breach: the alert, and then the breach, which stays. *)
Sweep(kill) ==
    /\ LET level == CHOOSE l \in Fires : TRUE IN
       IF Rearmed \/ Fires = {}
       THEN fired' = (IF Rearmed THEN 0 ELSE fired) /\ UNCHANGED <<line, rang, twice>>
       ELSE /\ fired' = level /\ line' = TRUE
            /\ twice' = (twice \/ level \in rang)
            /\ rang' = rang \union {level}
    /\ engine' = IF hit \/ (~Rearmed /\ Fires # {}) THEN Alerted(engine) ELSE engine
    /\ alive' = (alive /\ ~(hit /\ kill))
    /\ UNCHANGED <<printed, fed, pumping, ticker, load, hit, loads, cuts>>

-----------------------------------------------------------------------------
(* PaneEntry::adopted: the journal, then the last alert line; the episode is what
   check makes of the level's threshold.  The tick of the new daemon has seen
   nothing, and the log is the one memory that stays. *)

Cut ==
    /\ alive /\ More
    /\ engine' = LET e == Feed(Fresh, RawJournal) IN IF line THEN Alerted(e) ELSE e
    /\ fed' = Len(RawJournal)
    /\ pumping' = [a \in Pumps |-> Rest]
    /\ ticked' = FALSE /\ seen' = None /\ observed' = None /\ news' = <<>>
    /\ fired' = AtMost(fired, 1) /\ rang' = rang \intersect {1}
    /\ cuts' = cuts + 1
    /\ UNCHANGED <<pane, decided, told, load, hit, line, twice, loads>>

-----------------------------------------------------------------------------
TickStep == PumpRead("tick") \/ PumpTake("tick") \/ PumpFeed("tick") \/ TickAfter \/ TickDecide

ClientStep == PumpTake("client") \/ PumpFeed("client")

WatchNext ==
    \/ \E kind \in Kinds : PaneOutput(kind)
    \/ Pass \/ TickStep \/ ClientStep \/ PumpRead("client")
    \/ \E n \in Loads : Load(n)
    \/ \E kill \in BOOLEAN : Sweep(kill)
    \/ Cut

(* Time passes, the tick's task is never cancelled, and a pump that began goes on. *)
WatchFairness == SF_watchVars(Pass) /\ SF_watchVars(TickStep) /\ WF_watchVars(ClientStep)

WatchSpec == WatchInit /\ [][WatchNext]_watchVars /\ WatchFairness

-----------------------------------------------------------------------------
(* Properties. *)

(* What all of the output says, once the pane is silent. *)
Verdict ==
    IF printed = <<>> /\ ~line THEN "unknown"
    ELSE IF Tail3("plain", printed) = "ask" THEN "question"
    ELSE IF line \/ Has(printed, "fail") THEN "blocked" ELSE "idle"

(* "the classification is a function of the pane's own output and the clock": a
   pane that falls silent is in the end classified by all that it printed, however
   the output was cut into feeds, whoever pumped, and over a handoff.  A pane that
   has hit its ceiling is left out: the sweeper feeds it a line a second. *)
SettlesOnTruth == <>[](hit \/ engine.state = Verdict)

(* "A transition no client pump may consume": the state a pane comes to rest in is
   the last one the tick has decided on, or the one of its first look, also when a
   client's poll took the event. *)
NewsConverges == <>[](hit \/ decided = engine.state)

(* "each at most once per episode": a level is not alerted again before the reading
   has been below the re-arm line; over a handoff this is so of warn, and the higher
   levels start over. *)
AlertOnce == ~twice

(* "The episode is reconstructed": the incoming daemon remembers the level that was
   fired last.  (check goes up one level at a time, so it remembers warn.) *)
EpisodeSurvives == [][cuts' # cuts => fired' = fired]_watchVars

(* "blocked -> working -> blocked notifies twice": a run that ends and starts again
   is never taken for the episode that was told. *)
NewRunIsNews == [][news # <<>> /\ news' = Tail(news) => Head(news).from # Head(news).to]_watchVars
================================================================================
