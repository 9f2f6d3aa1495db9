------------------------------ MODULE Reporter ------------------------------
(***************************************************************************)
(* internal/schmetterpause/reporter.go with the report record of           *)
(* internal/match/registry.go: how a won match reaches Schmetterpause.     *)
(*                                                                         *)
(* The observer runs inside the scorer's lock and only starts a timer or a *)
(* goroutine.  A timer that has run out, the page, a win at shutdown and   *)
(* Flush each make a call of send; the mutex `sending` lets one call       *)
(* through at a time, and r.mu makes every look at `waiting` one action.   *)
(* Around the code stand the people who score, the network and             *)
(* Schmetterpause, which may take a request late, refuse it, or have its   *)
(* answer lost.                                                            *)
(***************************************************************************)
EXTENDS Integers, Sequences, FiniteSets

CONSTANTS
  Matches, Scores, Wanted, CheckedIn,  \* as in ResultBook
  Grace,      \* whether there is a grace period at all (delay > 0)
  Callers,    \* bound: calls of send at once, stray requests included
  MaxWins,    \* bound: how often one match is won
  MaxSends    \* bound: how often the page sends

ASSUME ReporterAssumption ==
  /\ CheckedIn \subseteq Wanted /\ Wanted \subseteq Matches
  /\ Grace \in BOOLEAN
  /\ MaxWins \in Nat /\ MaxSends \in Nat

VARIABLES
  game,      \* per match: over, and the score it was last won with
  wins,      \* per match: how often it was won; also names its timers
  deciding,  \* matches inside won(), which still holds their scorer's lock
  waiting,   \* the map of that name: per match the timer of its entry, or 0
  armed,     \* timers <<m, n>> not run out and not stopped
  fired,     \* timers run out, whose goroutine is on its way to r.mu
  inflight,  \* the WaitGroup's counter
  flush,     \* where Flush is: "no", "sending", "waiting" or "done"
  toFlush,   \* the matches Flush still has to send
  server,    \* the HTTP server: "up", "draining" or "down"
  alive,     \* the process has not exited
  call,      \* per caller: the call of send it makes
  holder,    \* the caller that holds `sending`, or NoCaller
  report,    \* per match: the report record
  book,      \* per match: what Schmetterpause holds (external)
  sends,     \* bound: page sends so far
  (* History, not in the code. *)
  won, unsure,  \* as in ResultBook
  owed,      \* per match: a win no call has looked at yet, and if it waited
  timely     \* no shutdown deadline has passed

NoCaller == "none"
NoScore  == "none"
ASSUME CallersAssumption == NoCaller \notin Callers

gameVars   == <<game, wins, won>>
timerVars  == <<waiting, armed, fired>>
exitVars   == <<flush, toFlush, server, alive, timely>>
sendVars   == <<call, holder>>
vars == <<gameVars, deciding, timerVars, inflight, exitVars, sendVars,
          report, book, sends, unsure, owed>>

Idle == [pc |-> "idle", match |-> NoCaller, by |-> NoCaller, score |-> NoScore,
         wire |-> FALSE, answer |-> "none"]

Timers == Matches \X (1..MaxWins)

TypeOK ==
  /\ game \in [Matches -> [over : BOOLEAN, score : Scores \cup {NoScore}]]
  /\ wins \in [Matches -> 0..MaxWins]
  /\ deciding \subseteq Matches
  /\ waiting \in [Matches -> 0..MaxWins]
  /\ armed \subseteq Timers /\ fired \subseteq Timers
  /\ inflight \in Int
  /\ flush \in {"no", "sending", "waiting", "done"} /\ toFlush \subseteq Matches
  /\ server \in {"up", "draining", "down"} /\ alive \in BOOLEAN
  /\ call \in [Callers -> [pc : {"idle", "lock", "withhold", "post"},
                           match : Matches \cup {NoCaller},
                           by : {NoCaller, "now", "timer", "page", "flush"},
                           score : Scores \cup {NoScore}, wire : BOOLEAN,
                           answer : {"none", "accepted", "refused", "conflict"}]]
  /\ holder \in Callers \cup {NoCaller}
  /\ report \in [Matches -> [done : BOOLEAN, sent : Scores \cup {NoScore},
                             failed : BOOLEAN, due : BOOLEAN]]
  /\ book \in [Matches -> Seq(Scores)]
  /\ sends \in 0..MaxSends
  /\ won \in [Matches -> SUBSET Scores] /\ unsure \in [Matches -> BOOLEAN]
  /\ owed \in [Matches -> {"no", "won", "waiting"}]
  /\ timely \in BOOLEAN

Init ==
  /\ game = [m \in Matches |-> [over |-> FALSE, score |-> NoScore]]
  /\ wins = [m \in Matches |-> 0]
  /\ deciding = {}
  /\ waiting = [m \in Matches |-> 0] /\ armed = {} /\ fired = {}
  /\ inflight = 0
  /\ flush = "no" /\ toFlush = {} /\ server = "up" /\ alive = TRUE
  /\ call = [c \in Callers |-> Idle] /\ holder = NoCaller
  /\ report = [m \in Matches |->
                 [done |-> FALSE, sent |-> NoScore, failed |-> FALSE, due |-> FALSE]]
  /\ book = [m \in Matches |-> <<>>]
  /\ sends = 0
  /\ won = [m \in Matches |-> {}] /\ unsure = [m \in Matches |-> FALSE]
  /\ owed = [m \in Matches |-> "no"] /\ timely = TRUE

-----------------------------------------------------------------------------
(* The pieces the handlers share.                                          *)

(* The timer of m's entry in `waiting`, as a set.                          *)
EntryOf(m) == IF waiting[m] = 0 THEN {} ELSE {<<m, waiting[m]>>}

Closed_Never == FALSE
Closed == flush # "no"

(* A call of send starts: it still has to get `sending`.                   *)
Call(m, by) ==
  \E c \in Callers :
    /\ call[c] = Idle
    /\ call' = [call EXCEPT ![c] = [Idle EXCEPT !.pc = "lock", !.match = m, !.by = by]]

(* withdrawLocked: the entry goes; a timer that could still be stopped is  *)
(* counted out of inflight here, one that has run out counts itself out.   *)
Stopped(m) == Cardinality(EntryOf(m) \cap armed)

ArmedWithout(m) == armed \ EntryOf(m)

Withdraw(m) ==
  /\ waiting' = [waiting EXCEPT ![m] = 0]
  /\ armed' = ArmedWithout(m)
  /\ UNCHANGED fired

(* The end of a call: `sending` is free again, and every call but the      *)
(* page's was counted.  A request still on its way stays with the caller.  *)
Finish(c) ==
  /\ call' = [call EXCEPT ![c] =
                IF @.wire THEN [@ EXCEPT !.pc = "idle", !.by = NoCaller] ELSE Idle]
  /\ holder' = NoCaller
  /\ inflight' = IF call[c].by = "page" THEN inflight ELSE inflight - 1

-----------------------------------------------------------------------------
(* The scorer, and the observer inside its lock.                           *)

(* A point wins the match.  won() has read the report record by the time   *)
(* this step ends, and takes r.mu in the next one.                         *)
Win(m, s) ==
  /\ server # "down"
  /\ ~game[m].over /\ m \notin deciding /\ wins[m] < MaxWins
  /\ game' = [game EXCEPT ![m] = [over |-> TRUE, score |-> s]]
  /\ wins' = [wins EXCEPT ![m] = @ + 1]
  /\ won' = [won EXCEPT ![m] = @ \cup {s}]
  /\ IF m \in Wanted /\ ~report[m].done
     THEN /\ deciding' = deciding \cup {m}
          /\ owed' = [owed EXCEPT ![m] = "won"]
     ELSE UNCHANGED <<deciding, owed>>
  /\ UNCHANGED <<timerVars, inflight, exitVars, sendVars, report, book, sends, unsure>>

(* won() under r.mu: send at once, or start the grace period again.        *)
Schedule(m) ==
  /\ m \in deciding
  /\ deciding' = deciding \ {m}
  /\ IF Grace /\ ~Closed
     THEN /\ waiting' = [waiting EXCEPT ![m] = wins[m]]
          /\ armed' = ArmedWithout(m) \cup {<<m, wins[m]>>}
          /\ inflight' = inflight - Stopped(m) + 1
          /\ report' = [report EXCEPT ![m].due = TRUE]
          /\ owed' = [owed EXCEPT ![m] = "waiting"]
          /\ UNCHANGED <<fired, sendVars>>
     ELSE /\ Call(m, "now")
          /\ inflight' = inflight + 1
          /\ UNCHANGED <<timerVars, holder, report, owed>>
  /\ UNCHANGED <<gameVars, exitVars, book, sends, unsure>>

(* An undo that leaves the match unfinished; reopened() withdraws it.      *)
Undo(m) ==
  /\ server # "down" /\ m \notin deciding
  /\ game' = [game EXCEPT ![m] = [over |-> FALSE, score |-> NoScore]]
  /\ Withdraw(m)
  /\ inflight' = inflight - Stopped(m)
  /\ report' = IF waiting[m] = 0 THEN report ELSE [report EXCEPT ![m].due = FALSE]
  /\ owed' = [owed EXCEPT ![m] = "no"]
  /\ UNCHANGED <<wins, won, deciding, exitVars, sendVars, book, sends, unsure>>

-----------------------------------------------------------------------------
(* What starts a call of send.                                             *)

(* The runtime starts the goroutine of a timer that has run out.           *)
RunOut(m, n) ==
  /\ <<m, n>> \in armed
  /\ armed' = armed \ {<<m, n>>}
  /\ fired' = fired \cup {<<m, n>>}
  /\ UNCHANGED <<gameVars, deciding, waiting, inflight, exitVars, sendVars,
                 report, book, sends, unsure, owed>>

(* fire(): only the timer of the entry that is there sends.                *)
Mine_AnyEntry(m, n) == waiting[m] # 0
Mine(m, n) == waiting[m] = n

Fire(m, n) ==
  /\ <<m, n>> \in fired
  /\ fired' = fired \ {<<m, n>>}
  /\ IF Mine(m, n)
     THEN /\ waiting' = [waiting EXCEPT ![m] = 0]
          /\ Call(m, "timer")
          /\ UNCHANGED inflight
     ELSE inflight' = inflight - 1 /\ UNCHANGED <<waiting, call>>
  /\ UNCHANGED <<gameVars, deciding, armed, exitVars, holder, report, book,
                 sends, unsure, owed>>

(* Send(): somebody presses the button on the page.                        *)
PageSend(m) ==
  /\ server # "down" /\ sends < MaxSends
  /\ sends' = sends + 1
  /\ Withdraw(m)
  /\ inflight' = inflight - Stopped(m)
  /\ Call(m, "page")
  /\ UNCHANGED <<gameVars, deciding, exitVars, holder, report, book, unsure, owed>>

-----------------------------------------------------------------------------
(* send().                                                                 *)

NothingToSend_Never(m) == FALSE
NothingToSend(m) == report[m].done

Reopened_Never(m) == FALSE
Reopened(m) == ~game[m].over

(* With `sending` held: nothing to do for a match reported, nothing to     *)
(* send for one that is not over, else the request leaves.                 *)
Begin(c) ==
  LET m == call[c].match IN
  /\ call[c].pc = "lock" /\ holder = NoCaller /\ m \notin deciding
  /\ IF NothingToSend(m)
     THEN Finish(c) /\ owed' = [owed EXCEPT ![m] = "no"]
     ELSE IF Reopened(m)
     THEN /\ call' = [call EXCEPT ![c].pc = "withhold"]
          /\ holder' = c
          /\ UNCHANGED <<inflight, owed>>
     ELSE /\ call' = [call EXCEPT ![c].pc = "post", ![c].wire = TRUE,
                                  ![c].score = game[m].score]
          /\ holder' = c
          /\ owed' = [owed EXCEPT ![m] = "no"]
          /\ UNCHANGED inflight
  /\ UNCHANGED <<gameVars, deciding, timerVars, exitVars, report, book, sends, unsure>>

Withhold_KeepsSending(c) ==
  /\ call[c].pc = "withhold"
  /\ report' = [report EXCEPT ![call[c].match].due = FALSE]
  /\ call' = [call EXCEPT ![c] = Idle]
  /\ inflight' = IF call[c].by = "page" THEN inflight ELSE inflight - 1
  /\ UNCHANGED <<gameVars, deciding, timerVars, exitVars, holder, book, sends, unsure, owed>>
Withhold(c) ==
  /\ call[c].pc = "withhold"
  /\ report' = [report EXCEPT ![call[c].match].due = FALSE]
  /\ Finish(c)
  /\ UNCHANGED <<gameVars, deciding, timerVars, exitVars, book, sends, unsure, owed>>

Delivered(m, s) ==
  report' = [report EXCEPT ![m] =
               IF @.done THEN [@ EXCEPT !.due = FALSE]
               ELSE [done |-> TRUE, sent |-> s, failed |-> FALSE, due |-> FALSE]]

Failed(m) ==
  report' = [report EXCEPT ![m] =
               [@ EXCEPT !.due = FALSE, !.failed = @ \/ ~report[m].done]]

(* A conflict on a checked-in match is taken for the answer an earlier     *)
(* attempt lost.                                                           *)
Arrived(c) ==
  \/ call[c].answer = "accepted"
  \/ call[c].answer = "conflict" /\ call[c].match \in CheckedIn

(* The answer is there, and the record says what became of it.             *)
Record(c) ==
  LET m == call[c].match IN
  /\ call[c].pc = "post" /\ call[c].answer # "none"
  /\ IF Arrived(c) THEN Delivered(m, call[c].score) ELSE Failed(m)
  /\ Finish(c)
  /\ UNCHANGED <<gameVars, deciding, timerVars, exitVars, book, sends, unsure, owed>>

(* No answer in time, or none at all: the attempt counts as failed, and    *)
(* nobody here knows whether the request will still arrive.                *)
GiveUp(c) ==
  /\ call[c].pc = "post"
  /\ Failed(call[c].match)
  /\ unsure' = [unsure EXCEPT ![call[c].match] = TRUE]
  /\ Finish(c)
  /\ UNCHANGED <<gameVars, deciding, timerVars, exitVars, book, sends, owed>>

-----------------------------------------------------------------------------
(* Schmetterpause and the network (external).                              *)

Answered(c, answer) ==
  call' = [call EXCEPT ![c] =
             IF @.pc = "post" THEN [@ EXCEPT !.wire = FALSE, !.answer = answer]
             ELSE Idle]

Rest == <<gameVars, deciding, timerVars, inflight, exitVars, holder, report,
          sends, unsure, owed>>

(* A check-in carries one result; an operator may enter any number.        *)
Accept(c) ==
  LET m == call[c].match IN
  /\ call[c].wire
  /\ m \in Wanted /\ (m \in CheckedIn => book[m] = <<>>)
  /\ book' = [book EXCEPT ![m] = Append(@, call[c].score)]
  /\ Answered(c, "accepted")
  /\ UNCHANGED Rest

Conflict(c) ==
  /\ call[c].wire
  /\ call[c].match \in CheckedIn /\ book[call[c].match] # <<>>
  /\ Answered(c, "conflict")
  /\ UNCHANGED <<Rest, book>>

(* Any other refusal; a tournament place filled meanwhile is a conflict    *)
(* on a match an operator reports.                                         *)
Refuse(c) ==
  /\ call[c].wire
  /\ \/ Answered(c, "refused")
     \/ call[c].match \notin CheckedIn /\ Answered(c, "conflict")
  /\ UNCHANGED <<Rest, book>>

(* The request never arrives.                                              *)
Vanish(c) ==
  /\ call[c].wire /\ call[c].pc = "idle"
  /\ call' = [call EXCEPT ![c] = Idle]
  /\ UNCHANGED <<Rest, book>>

-----------------------------------------------------------------------------
(* Shutdown.                                                               *)

(* What Flush takes, and what of it is counted again.                      *)
Taken == {m \in Matches : waiting[m] # 0}

Recounted == {m \in Matches : EntryOf(m) \cap fired # {}}

(* SIGTERM: the server starts draining, and Flush takes all that waits.  A *)
(* timer that has run out will find itself gone, so it is counted again.   *)
FlushBegin ==
  /\ flush = "no"
  /\ flush' = "sending" /\ server' = "draining"
  /\ toFlush' = Taken
  /\ inflight' = inflight + Cardinality(Recounted)
  /\ waiting' = [m \in Matches |-> 0]
  /\ armed' = {} /\ UNCHANGED fired
  /\ UNCHANGED <<gameVars, deciding, sendVars, report, book, sends,
                 unsure, owed, alive, timely>>

Flushing == \E c \in Callers : call[c].by = "flush"

FlushNext(m) ==
  /\ flush = "sending" /\ ~Flushing
  /\ m \in toFlush
  /\ toFlush' = toFlush \ {m}
  /\ Call(m, "flush")
  /\ UNCHANGED <<gameVars, deciding, timerVars, inflight, flush, server, alive,
                 timely, holder, report, book, sends, unsure, owed>>

FlushWait ==
  /\ flush = "sending" /\ ~Flushing /\ toFlush = {}
  /\ flush' = "waiting"
  /\ UNCHANGED <<gameVars, deciding, timerVars, inflight, toFlush, server, alive,
                 timely, sendVars, report, book, sends, unsure, owed>>

(* Flush returns: nothing in flight any more, or the deadline has passed.  *)
FlushDone ==
  /\ flush = "waiting"
  /\ flush' = "done"
  /\ timely' = (timely /\ inflight = 0)
  /\ UNCHANGED <<gameVars, deciding, timerVars, inflight, toFlush, server, alive,
                 sendVars, report, book, sends, unsure, owed>>

(* The server is down: no handler runs any more, or the deadline passed.   *)
Handling == deciding # {} \/ \E c \in Callers : call[c].by = "page"

ServerDown ==
  /\ server = "draining"
  /\ server' = "down"
  /\ timely' = (timely /\ ~Handling)
  /\ UNCHANGED <<gameVars, deciding, timerVars, inflight, flush, toFlush, alive,
                 sendVars, report, book, sends, unsure, owed>>

(* main returns, and with it every goroutine is gone.                      *)
Exit ==
  /\ flush = "done" /\ server = "down"
  /\ alive' = FALSE
  /\ deciding' = {} /\ armed' = {} /\ fired' = {} /\ toFlush' = {}
  /\ waiting' = [m \in Matches |-> 0]
  /\ call' = [c \in Callers |->
                IF call[c].wire THEN [call[c] EXCEPT !.pc = "idle", !.by = NoCaller]
                ELSE Idle]
  /\ unsure' = [m \in Matches |->
                  unsure[m] \/ \E c \in Callers : call[c].pc = "post" /\ call[c].match = m]
  /\ holder' = NoCaller /\ inflight' = 0
  /\ UNCHANGED <<gameVars, flush, server, timely, report, book, sends, owed>>

-----------------------------------------------------------------------------
Process ==
  \/ \E m \in Matches : \/ \E s \in Scores : Win(m, s)
                        \/ Schedule(m)
                        \/ Undo(m)
                        \/ \E n \in 1..MaxWins : RunOut(m, n) \/ Fire(m, n)
                        \/ PageSend(m)
                        \/ FlushNext(m)
  \/ \E c \in Callers : Begin(c) \/ Withhold(c) \/ Record(c) \/ GiveUp(c)
  \/ FlushBegin \/ FlushWait \/ FlushDone \/ ServerDown \/ Exit

Remote == \E c \in Callers : Accept(c) \/ Conflict(c) \/ Refuse(c) \/ Vanish(c)

Next == (alive /\ Process) \/ Remote

Spec == Init /\ [][Next]_vars

(* What runs on its own: goroutines, timers, the client's timeout, the two *)
(* deadlines.  Go's mutex hands itself to whoever has waited longest, so a *)
(* call gets `sending` in the end.                                         *)
Fairness ==
  /\ \A m \in Matches :
       /\ WF_vars(alive /\ Schedule(m))
       /\ \A n \in 1..MaxWins : /\ WF_vars(alive /\ RunOut(m, n))
                               /\ WF_vars(alive /\ Fire(m, n))
       /\ WF_vars(alive /\ FlushNext(m))
  /\ \A c \in Callers :
       /\ SF_vars(alive /\ Begin(c))
       /\ WF_vars(alive /\ Withhold(c))
       /\ WF_vars(alive /\ (Record(c) \/ GiveUp(c)))
  /\ WF_vars(alive /\ (FlushWait \/ FlushDone))
  /\ WF_vars(alive /\ (ServerDown \/ Exit))

FairSpec == Spec /\ Fairness

-----------------------------------------------------------------------------
(* Properties.                                                             *)

(* No timer is ever forgotten: one that can still run out is the timer of  *)
(* an entry in `waiting`, and every entry has a timer that has run or will *)
(* run, so no result waits for ever (withdrawLocked, fire, Flush).         *)
TimersAccounted ==
  /\ armed \cap fired = {}
  /\ armed \subseteq UNION {EntryOf(m) : m \in Matches}
  /\ \A m \in Matches : EntryOf(m) \subseteq armed \cup fired

(* The WaitGroup counts exactly what is waiting or under way, whichever of *)
(* timer, undo, page and Flush took a match out of its grace period: the   *)
(* counter never goes negative, which would panic, and never stays up,     *)
(* which would keep Flush waiting (inflight in reporter.go).               *)
InflightExact ==
  inflight = Cardinality(armed) + Cardinality(fired) + Cardinality(toFlush)
             + Cardinality({c \in Callers : call[c].by \in {"now", "timer", "flush"}})

(* A result is sent by a timer only once the grace period of the last win  *)
(* has run out: the timer of an earlier win never sends (fire, "Compared   *)
(* by pointer").                                                           *)
GraceIsFull ==
  [][\A c \in Callers : call'[c].by = "timer" /\ call[c].by # "timer" =>
       <<call'[c].match, wins[call'[c].match]>> \in fired]_vars

(* The first success stands: once a match is recorded as delivered, the    *)
(* record never changes its mind and no further request leaves, although   *)
(* undos, wins, timers and the page go on (Reported, send).                *)
FirstSuccessStands ==
  [][\A m \in Matches : report[m].done =>
       /\ report'[m].done /\ report'[m].sent = report[m].sent
       /\ \A c \in Callers : call'[c].pc = "post" /\ call'[c].match = m =>
                            call[c].pc = "post"]_vars

(* A shutdown in time loses no result that was only waiting: by the time   *)
(* the process exits, a call has looked at it (Flush, main.go).            *)
ShutdownLosesNothing ==
  ~alive /\ timely => \A m \in Matches : owed[m] # "waiting"

(* Every win that is to be reported is looked at by a call of send in the  *)
(* end, unless an undo takes it back or the process exits first.           *)
EveryWinIsLookedAt ==
  \A m \in Matches : (owed[m] # "no") ~> (owed[m] = "no" \/ ~alive)

(* The hand-over keeps the promises of ResultBook.                         *)
Book == INSTANCE ResultBook WITH done <- [m \in Matches |-> report[m].done]
ImplementsResultBook == Book!Spec

-----------------------------------------------------------------------------
(* What comments in the code say, and the code does not do.                *)

(* registry.go, Report.Sent: "Sent is the sets as Schmetterpause got them".*)
SentIsWhatArrived ==
  \A m \in Matches : report[m].done =>
    \E i \in 1..Len(book[m]) : book[m][i] = report[m].sent

(* registry.go, Report.Due: "when the result goes out, while it waits out  *)
(* the grace period after match_won".                                      *)
DueWhileWaiting == \A m \in Matches : waiting[m] # 0 => report[m].due
=============================================================================
