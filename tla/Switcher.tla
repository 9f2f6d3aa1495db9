------------------------------ MODULE Switcher ------------------------------
(***************************************************************************)
(* internal/panel/streams.go: who has the LED panel.  Handlers and the     *)
(* scorer's observer submit jobs to a bounded queue; one worker takes the  *)
(* panel for a match and gives it back, in calls to the catcher that may   *)
(* fail or lose their answer.  A person at the catcher's own page switches *)
(* it at any moment.                                                       *)
(*                                                                         *)
(* Matches are numbered in order of creation.  A handler creates a match   *)
(* in the registry first and submits afterwards (api/matches.go, create),  *)
(* so handlers may overtake each other.                                    *)
(***************************************************************************)
EXTENDS Integers, Sequences, SequencesExt

CONSTANTS
  QueueSize,   \* capacity of `work`, 8 in the code
  MaxMatches,  \* bound: matches created
  MaxWins,     \* bound: wins in all
  MaxFailures  \* bound: calls to the catcher that fail

ASSUME SwitcherAssumption ==
  QueueSize \in Nat \ {0} /\ MaxMatches \in Nat /\ MaxWins \in Nat /\ MaxFailures \in Nat

VARIABLES
  made, demo, over, ended,  \* the matches, as in Registry
  wins,     \* bound: wins so far
  told,     \* per match: jobs its create handler has still to submit
  ending,   \* matches whose end handler has still to submit
  work,     \* the queue of jobs
  worker,   \* what the worker is at
  held, matchID, wonID,  \* the switcher's fields of those names (won)
  quiet,    \* lastSeen is longer ago than the idle timeout
  stop,     \* Close has begun
  panel,    \* external: the catcher's streams, and who chose them
  (* History, not in the code. *)
  failures, \* calls that failed
  dropped,  \* a job found the queue full
  astray    \* a start was submitted after the start of a newer match, or
            \* the panel was given back for inactivity

matchVars  == <<made, demo, over, ended, wins>>
submitVars == <<told, ending>>
heldVars   == <<held, matchID, wonID>>
pastVars   == <<failures, astray>>
vars == <<matchVars, submitVars, work, worker, heldVars, quiet, stop, panel,
          dropped, pastVars>>

Ids == 1..MaxMatches
NoMatch == 0
Job == [kind : {"start", "end", "won", "undo"}, match : Ids]
AtRest == [pc |-> "rest", match |-> NoMatch, why |-> "end"]

TypeOK ==
  /\ made \in 0..MaxMatches /\ wins \in 0..MaxWins
  /\ demo \in [Ids -> BOOLEAN] /\ over \in [Ids -> BOOLEAN] /\ ended \in [Ids -> BOOLEAN]
  /\ told \in [Ids -> Seq(Job)] /\ ending \subseteq Ids
  /\ work \in Seq(Job) /\ Len(work) <= QueueSize
  /\ worker \in [pc : {"rest", "set", "read", "back", "gone"}, match : Ids \cup {NoMatch},
                 why : {"start", "end", "won", "idle", "shutdown"}]
  /\ held \in BOOLEAN /\ matchID \in Ids \cup {NoMatch} /\ wonID \in Ids \cup {NoMatch}
  /\ held <=> matchID # NoMatch
  /\ quiet \in BOOLEAN /\ stop \in BOOLEAN
  /\ panel \in [streams : {"idle", "match"}, by : {"us"}]
             \cup [streams : {"other", "match"}, by : {"person"}]
  /\ failures \in 0..MaxFailures /\ dropped \in BOOLEAN /\ astray \in BOOLEAN

Init ==
  /\ made = 0 /\ wins = 0
  /\ demo = [i \in Ids |-> FALSE] /\ over = [i \in Ids |-> FALSE]
  /\ ended = [i \in Ids |-> FALSE]
  /\ told = [i \in Ids |-> <<>>] /\ ending = {}
  /\ work = <<>> /\ worker = AtRest
  /\ held = FALSE /\ matchID = NoMatch /\ wonID = NoMatch
  /\ quiet = FALSE /\ stop = FALSE
  /\ panel = [streams |-> "idle", by |-> "us"]
  /\ failures = 0 /\ dropped = FALSE /\ astray = FALSE

Running(i) == i \in 1..made /\ ~over[i] /\ ~ended[i]

-----------------------------------------------------------------------------
(* Submitting.                                                             *)

Submit(kind, i) ==
  IF Len(work) < QueueSize
  THEN work' = Append(work, [kind |-> kind, match |-> i]) /\ UNCHANGED dropped
  ELSE dropped' = TRUE /\ UNCHANGED work

(* A transition of match i: the inactivity clock of the holder starts anew.*)
Seen(i) == quiet' = (quiet /\ matchID # i)

(* create: the registry ends the running demos for a real match; the new   *)
(* match takes the panel before the demos let go of it.                    *)
Create(asDemo) ==
  /\ made < MaxMatches /\ ~stop
  /\ asDemo => \A i \in 1..made : demo[i] \/ ~Running(i)
  /\ LET taken == {i \in 1..made : ~asDemo /\ demo[i] /\ Running(i)}
         letGo == [j \in 1..Len(SetToSeq(taken)) |->
                     [kind |-> "end", match |-> SetToSeq(taken)[j]]]
     IN  /\ ended' = [i \in Ids |-> ended[i] \/ i \in taken]
         /\ told' = [told EXCEPT ![made + 1] =
                       <<[kind |-> "start", match |-> made + 1]>> \o letGo]
  /\ made' = made + 1
  /\ demo' = [demo EXCEPT ![made + 1] = asDemo]
  /\ UNCHANGED <<over, wins, ending, work, worker, heldVars, quiet, stop, panel,
                 dropped, pastVars>>

(* The handler that created j has submitted its start.                     *)
Started(j) == \A k \in 1..Len(told[j]) : told[j][k].kind # "start"

Tell(i) ==
  /\ told[i] # <<>>
  /\ told' = [told EXCEPT ![i] = Tail(@)]
  /\ LET job == Head(told[i]) IN
       /\ Submit(job.kind, job.match)
       /\ astray' = \/ astray
                    \/ job.kind = "start" /\ \E j \in i + 1..made : Started(j)
  /\ UNCHANGED <<matchVars, ending, worker, heldVars, quiet, stop, panel, failures>>

(* EndMatch, which may be called again on a match already ended.           *)
End(i) ==
  /\ i \in 1..made /\ ~stop /\ i \notin ending
  /\ ended' = [ended EXCEPT ![i] = TRUE]
  /\ ending' = ending \cup {i}
  /\ UNCHANGED <<made, demo, over, wins, told, work, worker, heldVars, quiet, stop,
                 panel, dropped, pastVars>>

LetGo(i) ==
  /\ i \in ending
  /\ ending' = ending \ {i}
  /\ Submit("end", i)
  /\ UNCHANGED <<matchVars, told, worker, heldVars, quiet, stop, panel, pastVars>>

(* Observe, inside the scorer's lock.  A match that was ended by hand      *)
(* still takes points by its id.                                           *)
Open(i) == i \in 1..made /\ ~over[i] /\ ~stop

Point(i) ==
  /\ Open(i)
  /\ Seen(i)
  /\ UNCHANGED <<matchVars, submitVars, work, worker, heldVars, stop, panel, dropped, pastVars>>

Win(i) ==
  /\ Open(i) /\ wins < MaxWins
  /\ over' = [over EXCEPT ![i] = TRUE]
  /\ wins' = wins + 1
  /\ Seen(i)
  /\ Submit("won", i)
  /\ UNCHANGED <<made, demo, ended, submitVars, worker, heldVars, stop, panel, pastVars>>

(* Of the winning point or of any other.                                   *)
Undo(i) ==
  /\ i \in 1..made /\ ~stop
  /\ over' = [over EXCEPT ![i] = FALSE]
  /\ Seen(i)
  /\ Submit("undo", i)
  /\ UNCHANGED <<made, demo, ended, wins, submitVars, worker, heldVars, stop, panel, pastVars>>

-----------------------------------------------------------------------------
(* The worker.                                                             *)

(* A job done; after the release of Close the worker and Close are gone.   *)
Rest == worker' = IF worker.why = "shutdown" THEN [AtRest EXCEPT !.pc = "gone"] ELSE AtRest

Forget == held' = FALSE /\ matchID' = NoMatch

(* A match that has been superseded does not give the panel back.          *)
Holder_Anyone(i) == held
Holder(i) == held /\ matchID = i

(* The panel comes back only for the match whose win gave it away, and     *)
(* only while nobody else has started (ADR-0007).                          *)
Ours(i) == wonID = i /\ ~held

Take ==
  /\ worker.pc = "rest" /\ work # <<>>
  /\ work' = Tail(work)
  /\ LET job == Head(work)
         i   == job.match
     IN  CASE job.kind = "start"
                -> /\ worker' = [pc |-> "set", match |-> i, why |-> "start"]
                   /\ wonID' = NoMatch
           [] job.kind \in {"end", "won"}
                -> /\ worker' = IF Holder(i)
                                THEN [pc |-> "read", match |-> matchID, why |-> job.kind]
                                ELSE worker
                   /\ UNCHANGED wonID
           [] job.kind = "undo"
                -> IF Ours(i)
                   THEN /\ worker' = [pc |-> "set", match |-> i, why |-> "start"]
                        /\ wonID' = NoMatch
                   ELSE UNCHANGED <<worker, wonID>>
  /\ UNCHANGED <<matchVars, submitVars, held, matchID, quiet, stop, panel, dropped, pastVars>>

(* checkIdle.                                                              *)
Idle_Off == FALSE
Idle == held /\ quiet

CheckIdle ==
  /\ worker.pc = "rest" /\ Idle
  /\ worker' = [pc |-> "read", match |-> matchID, why |-> "idle"]
  /\ astray' = TRUE
  /\ UNCHANGED <<matchVars, submitVars, work, heldVars, quiet, stop, panel, dropped, failures>>

Fail == failures < MaxFailures /\ failures' = failures + 1

Kept == <<matchVars, submitVars, work, stop, dropped, astray>>

(* acquire: setStreams succeeds, fails, or is applied without an answer.   *)
Set ==
  /\ worker.pc = "set"
  /\ Rest
  /\ \/ /\ panel' = [streams |-> "match", by |-> "us"]
        /\ held' = TRUE /\ matchID' = worker.match /\ quiet' = FALSE
        /\ UNCHANGED failures
     \/ /\ Fail
        /\ panel' \in {panel, [streams |-> "match", by |-> "us"]}
        /\ UNCHANGED <<held, matchID, quiet>>
  /\ UNCHANGED <<Kept, wonID>>

(* release: read the panel back, and leave alone what somebody else chose. *)
Unswitched(streams) == streams = "match"

Read ==
  /\ worker.pc = "read"
  /\ \/ /\ Unswitched(panel.streams)
        /\ worker' = [worker EXCEPT !.pc = "back"]
        /\ UNCHANGED <<held, matchID, failures>>
     \/ /\ ~Unswitched(panel.streams)
        /\ Rest /\ Forget
        /\ UNCHANGED failures
     \/ Fail /\ Rest /\ Forget
  /\ UNCHANGED <<Kept, wonID, quiet, panel>>

Back ==
  /\ worker.pc = "back"
  /\ Rest /\ Forget
  /\ \/ /\ panel' = [streams |-> "idle", by |-> "us"]
        /\ wonID' = IF worker.why = "won" THEN worker.match ELSE wonID
        /\ UNCHANGED failures
     \/ /\ Fail
        /\ panel' \in {panel, [streams |-> "idle", by |-> "us"]}
        /\ UNCHANGED wonID
  /\ UNCHANGED <<Kept, quiet>>

(* Close: submit refuses from here on, the worker ends after what it is at *)
(* or after jobs it still picks, and what is held then goes back.          *)
Close ==
  /\ ~stop /\ stop' = TRUE
  /\ told' = [i \in Ids |-> <<>>] /\ ending' = {}
  /\ UNCHANGED <<matchVars, work, worker, heldVars, quiet, panel, dropped, pastVars>>

Leave_Held == [AtRest EXCEPT !.pc = "gone"]
Leave == IF held THEN [pc |-> "read", match |-> matchID, why |-> "shutdown"]
         ELSE [AtRest EXCEPT !.pc = "gone"]

Stop ==
  /\ stop /\ worker.pc = "rest"
  /\ worker' = Leave
  /\ UNCHANGED <<matchVars, submitVars, work, heldVars, quiet, stop, panel, dropped, pastVars>>

-----------------------------------------------------------------------------
(* The world around it (external).                                         *)

TimePasses ==
  /\ held /\ ~quiet /\ quiet' = TRUE
  /\ UNCHANGED <<matchVars, submitVars, work, worker, heldVars, stop, panel, dropped, pastVars>>

Person ==
  /\ panel' \in [streams : {"other", "match"}, by : {"person"}]
  /\ UNCHANGED <<matchVars, submitVars, work, worker, heldVars, quiet, stop, dropped, pastVars>>

Next ==
  \/ \E asDemo \in BOOLEAN : Create(asDemo)
  \/ \E i \in Ids : Tell(i) \/ End(i) \/ LetGo(i) \/ Point(i) \/ Win(i) \/ Undo(i)
  \/ Take \/ CheckIdle \/ Set \/ Read \/ Back \/ Close \/ Stop
  \/ TimePasses \/ Person

Spec == Init /\ [][Next]_vars

(* The worker runs, handlers submit what they have to, and time passes.    *)
Fairness ==
  /\ WF_vars(Take) /\ WF_vars(CheckIdle) /\ WF_vars(Set) /\ WF_vars(Read)
  /\ WF_vars(Back) /\ WF_vars(Stop) /\ WF_vars(TimePasses)
  /\ \A i \in Ids : WF_vars(Tell(i)) /\ WF_vars(LetGo(i))

FairSpec == Spec /\ Fairness

-----------------------------------------------------------------------------
(* Properties.                                                             *)

Pending(kind, i) == [kind |-> kind, match |-> i] \in ToSet(work)

(* The panel is never taken from a match that runs by the end of another:  *)
(* it goes back while its match runs only for inactivity, at shutdown, or  *)
(* when an undo that takes it again is already queued (Release, release).  *)
KeepsItWhileRunning ==
  [][panel.by = "us" /\ panel.streams = "match" /\ panel'.streams = "idle"
       /\ panel'.by = "us" /\ Running(matchID) /\ ~dropped =>
       worker.why \in {"idle", "shutdown"} \/ Pending("undo", matchID)]_vars

Settled == /\ worker = AtRest /\ work = <<>> /\ ending = {} /\ ~stop
           /\ \A i \in Ids : told[i] = <<>>

OurScoreboard(p) == p.streams = "match" /\ p.by = "us"

Dead == OurScoreboard(panel) /\ failures = 0 /\ \A i \in Ids : ~Running(i)

(* A scoreboard nobody plays on does not stay on the panel: unless a match *)
(* that is over still sees points and undos for ever, the panel is given   *)
(* back, by the job of its end or by the failsafe, even if jobs were       *)
(* dropped or overtook each other (checkIdle).                             *)
DeadScoreboardGoes == []<>~Dead \/ []<><<~quiet'>>_quiet

(* Once nothing is left to do, the panel is where it belongs: with the     *)
(* newest match as long as that runs, won and undone included, whatever    *)
(* older matches end or reopen, provided no call failed, no job was        *)
(* dropped, nobody idled and the handlers submitted in the order of        *)
(* creation; and after Close with nobody's scoreboard, also when Close     *)
(* came while the worker was taking the panel (acquire, reopened, Close).  *)
PanelIsWhereItBelongs ==
  failures = 0 =>
    /\ Settled /\ ~dropped /\ ~astray /\ panel.by = "us" /\ Running(made) => matchID = made
    /\ worker.pc = "gone" => ~held /\ ~OurScoreboard(panel)

-----------------------------------------------------------------------------
(* What ADR-0003 says, and the code does not do.                           *)

(* "A deliberate manual override survives a match ending underneath it."   *)
OverrideSurvives ==
  [][panel = [streams |-> "other", by |-> "person"] /\ panel'.by = "us"
       => panel'.streams # "idle"]_vars

(* "A panel cannot stay stuck on a dead scoreboard": nothing is left that  *)
(* would ever give it back.                                                *)
NotStuck ==
  ~(Settled /\ OurScoreboard(panel) /\ ~held /\ \A i \in Ids : ~Running(i))
=============================================================================
