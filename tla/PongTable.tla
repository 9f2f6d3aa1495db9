----------------------------- MODULE PongTable -----------------------------
(***************************************************************************)
(* internal/pong's Server: who gets the table.  Every start goes through   *)
(* one lock (server.go): a demo that runs yields, the table is looked at   *)
(* on /live/stream, the match is created and a goroutine plays the game.   *)
(* Attract mode (attract.go), league mode (league.go), a series            *)
(* (series.go) and requests start games; the game watches the stream while *)
(* it plays (game.go); Close ends everything (server.go, main.go).         *)
(*                                                                         *)
(* A reader of the stream has the events it has not read yet in pending; a *)
(* reader that connects first reads what the table shows.                  *)
(***************************************************************************)
EXTENDS Integers, Sequences, SequencesExt, FiniteSetsExt

CONSTANTS
  Modes,        \* what main configures: attract and league mode exclude each other
  SeriesGames,  \* the games of a series
  MaxMatches,   \* bound: matches created
  MaxRequests,  \* bound: games asked for, a series among them
  AskedIn,      \* bound: the modes in which games are asked for
  MaxHolds,     \* bound: times the lobby stops the league
  MaxUndos,     \* bound: last points taken back, by their own game or at the page
  UndoneIn,     \* bound: the modes in which they are
  MaxFaults     \* bound: calls without an answer, streams that break, waits that run out

ASSUME PongTableAssumption ==
  /\ Modes \subseteq {"quiet", "attract", "league"} /\ AskedIn \subseteq Modes /\ UndoneIn \subseteq Modes
  /\ SeriesGames \in Nat \ {0} /\ MaxMatches \in Nat /\ MaxRequests \in Nat
  /\ MaxHolds \in Nat /\ MaxUndos \in Nat /\ MaxFaults \in Nat

VARIABLES
  kinds,    \* zaehlwerk: each match's kind, in order of creation
  live,     \* zaehlwerk: the matches that run
  won,      \* zaehlwerk: those won and not ended by hand, which an undo lets run again
  pending,  \* /live/stream: what each reader has not read yet
  mode,     \* what the service does by itself
  games,    \* the games the service has launched
  running,  \* s.running: a game's number, 0 for none, NewGame while it is launched
  start,    \* the start under way, which holds s.starting
  attract,  \* the table watch
  league,   \* league mode and its goroutine
  series,   \* the last series and its goroutine
  service,  \* "up", "draining", "closing" or, out of time, "late"; "closed", or "gone"
  (* History, not in the code. *)
  requests, holds, undos, faults,
  left,     \* matches whose creation or end the service had no answer for
  reopened  \* matches somebody let run again when their game was over

matchVars  == <<kinds, live, won>>
tableVars  == <<matchVars, pending>>
boundVars  == <<requests, holds, undos, faults, left, reopened>>
loopVars   == <<attract, league, series>>
vars == <<tableVars, mode, games, running, start, loopVars, service, boundVars>>

Callers == {"attract", "screensaver", "asked", "series", "league"}
Demos   == {"attract", "screensaver"}  \* GameConfig.demo
(* Why a game is over: somebody told it (errYielded, errHeld, errStopped,  *)
(* the service's end), the table is no longer its own to see or to play at *)
(* (errDisplaced, errTableLost), or its match was ended (errMatchEnded).   *)
Causes  == {"", "told", "lost", "matchEnded"}
NewGame == -1
None    == [kind |-> "none", match |-> 0]
NoStart == [pc |-> "free", for |-> "asked", match |-> 0]
Launch  == 0
Table   == -1
Readers == {Launch, Table} \cup 1..MaxMatches  \* the launch, attract mode, each game

Matches == 1..Len(kinds)
Games   == 1..Len(games)
Playing(g) == games[g].pc \in {"play", "won", "wrong"}
Owned   == {games[g].match : g \in Games}

TypeOK ==
  /\ kinds \in Seq({"demo", "real"}) /\ Len(kinds) <= MaxMatches
  /\ live \subseteq Matches /\ won \subseteq Matches
  /\ pending \in [Readers -> Seq([kind : {"none", "snapshot", "ended", "won"}, match : 0..Len(kinds)])]
  /\ mode \in Modes
  /\ \A g \in Games : games[g] \in
       [for : Callers, match : Matches, pc : {"play", "won", "wrong", "done", "gone"},
        cause : Causes, status : {"playing", "won", "ended"}, saw : {"", "ended", "won"}]
  /\ running \in Games \cup {0, NewGame}
  /\ running = NewGame <=> start.pc \in {"look", "skip", "create"}
  /\ start \in [pc : {"free", "yield", "yielding", "follow", "look", "skip", "create"},
                for : Callers, match : 0..Len(kinds)]
  /\ attract \in [pc : {"blind", "sees", "start", "starting"}, armed : BOOLEAN,
                  current : 0..Len(kinds), told : 0..Len(kinds)]
  /\ league \in [pc : {"look", "drowsy", "asleep", "start", "starting", "started", "plays"}, held : BOOLEAN,
                 game : Games \cup {0}, now : Games \cup {0}, wake : BOOLEAN, resuming : BOOLEAN]
  /\ series \in [pc : {"none", "start", "starting", "plays", "over"}, status : {"none", "playing", "done", "ended"},
                 game : Games \cup {0}, played : 0..SeriesGames]
  /\ service \in {"up", "draining", "closing", "late", "closed", "gone"}
  /\ requests \in 0..MaxRequests /\ holds \in 0..MaxHolds /\ undos \in 0..MaxUndos /\ faults \in 0..MaxFaults
  /\ left \subseteq Matches /\ reopened \subseteq Matches

Init ==
  /\ kinds = <<>> /\ live = {} /\ won = {} /\ pending = [r \in Readers |-> <<>>]
  /\ mode \in Modes /\ games = <<>> /\ running = 0 /\ start = NoStart
  /\ attract = [pc |-> "blind", armed |-> FALSE, current |-> 0, told |-> 0]
  /\ league = [pc |-> "look", held |-> FALSE, game |-> 0, now |-> 0, wake |-> FALSE, resuming |-> FALSE]
  /\ series = [pc |-> "none", status |-> "none", game |-> 0, played |-> 0]
  /\ service = "up" /\ requests = 0 /\ holds = 0 /\ undos = 0 /\ faults = 0 /\ left = {} /\ reopened = {}

(* The process runs; its context is not cancelled yet.                     *)
Alive == service \in {"up", "draining", "closing", "late"}
Going == service \in {"up", "draining"}

(* The network fails, or a wait runs out.                                  *)
Fails == faults < MaxFaults /\ faults' = faults + 1
Works == UNCHANGED faults

(* A last point is taken back.                                             *)
TakesBack == mode \in UndoneIn /\ undos < MaxUndos /\ undos' = undos + 1

-----------------------------------------------------------------------------
(* zaehlwerk and its table stream.                                         *)

Current(l) == IF l = {} THEN 0 ELSE Max(l)
Shows(l)   == IF l = {} THEN None ELSE [kind |-> "snapshot", match |-> Max(l)]

(* Still listening: the launch looks, the watch has neither seen its match *)
(* won nor ended the game.                                                 *)
Connected(r) ==
  CASE r = Launch -> start.pc \in {"look", "skip", "create"}
    [] r = Table  -> attract.pc # "blind"
    [] OTHER         -> r \in Games /\ Playing(r) /\ games[r].cause = "" /\ games[r].saw # "won"

Published(es) == [r \in Readers |-> IF Connected(r) THEN pending[r] \o es ELSE <<>>]
Read(r) == [pending EXCEPT ![r] = Tail(@)]

(* A match stops running: the stream says so if it is the one it follows,  *)
(* and then what is current.                                               *)
Stops(m, how) ==
  /\ live' = live \ {m} /\ won' = IF how = "won" THEN won \cup {m} ELSE won
  /\ pending' = IF Current(live) = m THEN Published(<<[kind |-> how, match |-> m], Shows(live')>>) ELSE pending
  /\ UNCHANGED kinds

(* POST /matches/{id}/end, which is idempotent; a won match stays won.     *)
Ends(m) ==
  IF m \in live THEN Stops(m, "ended")
  ELSE won' = won \ {m} /\ UNCHANGED <<kinds, live, pending>>

(* POST /matches/{id}/undo of the last point: a match that was won runs    *)
(* again, and the stream shows it if it is current.                        *)
Undoes(m) ==
  IF m \in won
  THEN /\ live' = live \cup {m} /\ won' = won \ {m}
       /\ pending' = IF Current(live') = m THEN Published(<<[kind |-> "snapshot", match |-> m]>>) ELSE pending
       /\ UNCHANGED kinds
  ELSE UNCHANGED tableVars

Refused(kind) == kind = "demo" /\ \E m \in live : kinds[m] = "real"

(* POST /matches: a real match ends the demos that run.                    *)
Displaces(kind) == IF kind = "real" THEN {m \in live : kinds[m] = "demo"} ELSE {}
Adds(kind) ==
  /\ Len(kinds) < MaxMatches /\ kinds' = Append(kinds, kind) /\ UNCHANGED won
  /\ live' = (live \ Displaces(kind)) \cup {Len(kinds')}
AddsEvents(kind) ==
  (IF Current(live) \in Displaces(kind) THEN <<[kind |-> "ended", match |-> Current(live)]>> ELSE <<>>)
    \o <<[kind |-> "snapshot", match |-> Len(kinds) + 1]>>

(* Somebody else: at the page, a button, another instance; bound: while    *)
(* the process runs.                                                       *)
OthersMatch(kind) ==
  /\ Alive /\ ~Refused(kind)
  /\ Adds(kind) /\ pending' = Published(AddsEvents(kind))
  /\ UNCHANGED <<mode, games, running, start, loopVars, service, boundVars>>

(* Won at the buttons, or ended by hand, also when it is won already.      *)
(* Bound: a win in a match of others that no undo takes back reads like    *)
(* any end, and is left out.                                               *)
OthersEnd(m, how) ==
  /\ Alive
  /\ \/ how = "won" /\ m \in live /\ (m \in Owned \/ mode \in UndoneIn) /\ Stops(m, how)
     \/ how = "ended" /\ m \in live \cup won /\ Ends(m)
  /\ UNCHANGED <<mode, games, running, start, loopVars, service, boundVars>>

(* The page's undo.  A game that is over does not come back for its match. *)
OthersUndo(m) ==
  /\ Alive /\ m \in won /\ Undoes(m) /\ TakesBack
  /\ reopened' = IF \E g \in Games : games[g].match = m /\ ~Playing(g) THEN reopened \cup {m} ELSE reopened
  /\ UNCHANGED <<mode, games, running, start, loopVars, service, requests, holds, faults, left>>

-----------------------------------------------------------------------------
(* Server.start and launch, under the starting lock.  Whoever asked waits  *)
(* for the answer: Started or NotStarted.                                  *)

Begins(for) ==
  /\ start.pc = "free"
  /\ start' = [NoStart EXCEPT !.pc = IF for = "attract" THEN "follow" ELSE "yield", !.for = for]

Step(pc) == start' = [start EXCEPT !.pc = pc]

(* The wait begins again, since no event may come to begin it.             *)
WaitsAgain_NotAtAll == [attract EXCEPT !.pc = "sees"]
WaitsAgain == [attract EXCEPT !.pc = "sees", !.armed = TRUE]

(* What the caller makes of the answer; a handler only passes it on.       *)
NotStarted ==
  /\ start' = NoStart
  /\ attract' = IF start.for = "attract" THEN WaitsAgain ELSE attract
  /\ league' = IF start.for = "league" THEN [league EXCEPT !.pc = "look"] ELSE league
  /\ series' = IF start.for = "series" THEN [series EXCEPT !.pc = "over", !.status = "ended"] ELSE series

(* g.stop: who stops a game gives the reason, also over what it has seen.  *)
Stopped(g) == [games EXCEPT ![g].cause = "told"]

(* yield: a running demo ends, but a screensaver's not for a screensaver.  *)
Yields(g) == games[g].for \in Demos /\ ~(start.for = "screensaver" /\ games[g].for = "screensaver")

Yield ==
  /\ Alive /\ start.pc = "yield"
  /\ IF running # 0 /\ Yields(running)
     THEN Step("yielding") /\ games' = Stopped(running)
     ELSE Step("follow") /\ UNCHANGED games
  /\ UNCHANGED <<tableVars, mode, running, loopVars, service, boundVars>>

LetsGo_WithoutWaiting(g) == TRUE
LetsGo(g) == games[g].pc \in {"done", "gone"}

(* The game's goroutine lets go of it too, in either order.                *)
Yielded ==
  /\ Alive /\ start.pc = "yielding" /\ Step("follow")
  /\ \/ running # 0 /\ LetsGo(running) /\ running' = 0 /\ Works
     \/ running = 0 /\ Works /\ UNCHANGED running
     \/ Fails /\ UNCHANGED running   \* not in ten seconds
  /\ UNCHANGED <<tableVars, mode, games, loopVars, service, requests, holds, undos, left, reopened>>

Free == running = 0

(* One game at a time: busy, or the game is the service's from here on.    *)
Follow ==
  /\ Alive /\ start.pc = "follow"
  /\ IF ~Free
     THEN NotStarted /\ Works /\ UNCHANGED <<running, pending>>
     ELSE \/ /\ Going /\ running' = NewGame /\ Works
             /\ Step("look") /\ pending' = [pending EXCEPT ![Launch] = <<Shows(live)>>]
             /\ UNCHANGED loopVars
          \/ Fails /\ NotStarted /\ UNCHANGED <<running, pending>>
          \/ ~Going /\ NotStarted /\ Works /\ UNCHANGED <<running, pending>>
  /\ UNCHANGED <<matchVars, mode, games, service, requests, holds, undos, left, reopened>>

(* The launch failed: nothing runs, and its stream is closed.              *)
GivesUp == NotStarted /\ running' = 0
Hangs   == pending' = [pending EXCEPT ![Launch] = <<>>]

EndsForeign(e) ==
  /\ e.kind = "snapshot" /\ kinds[e.match] = "demo"
  /\ start.for \notin Demos /\ e.match \notin Owned

(* The first event: the table is free, a foreign demo has it, or somebody. *)
Look ==
  /\ Alive /\ start.pc = "look"
  /\ LET e == Head(pending[Launch]) IN
     IF e.kind = "none"
     THEN Step("create") /\ pending' = Read(Launch) /\ Works /\ UNCHANGED <<matchVars, running, loopVars>>
     ELSE \/ /\ Going /\ EndsForeign(e) /\ Works /\ Ends(e.match)
             /\ start' = [start EXCEPT !.pc = "skip", !.match = e.match]
             /\ UNCHANGED <<running, loopVars>>
          \/ /\ IF EndsForeign(e) /\ Going THEN Fails ELSE Works
             /\ GivesUp /\ Hangs /\ UNCHANGED matchVars
  /\ UNCHANGED <<mode, games, service, requests, holds, undos, left, reopened>>

(* What the stream says of the demo just ended is passed over.             *)
Skip ==
  /\ Alive /\ start.pc = "skip"
  /\ \/ /\ pending[Launch] # <<>> /\ Works
        /\ LET e == Head(pending[Launch]) IN
           IF e.kind = "none" \/ e.match = start.match
           THEN /\ pending' = Read(Launch)
                /\ Step(IF e.kind = "none" THEN "create" ELSE "skip") /\ UNCHANGED <<running, loopVars>>
           ELSE GivesUp /\ Hangs
     \/ /\ IF Going THEN Fails ELSE Works  \* the stream closed, or said nothing for five seconds
        /\ GivesUp /\ Hangs
  /\ UNCHANGED <<matchVars, mode, games, service, requests, holds, undos, left, reopened>>

KindOf(for) == IF for = "league" THEN "real" ELSE "demo"

Launched == [for |-> start.for, match |-> Len(kinds'), pc |-> "play", cause |-> "", status |-> "playing", saw |-> ""]

(* The caller has its game.                                                *)
Started ==
  /\ start' = NoStart
  /\ attract' = IF start.for = "attract" THEN [attract EXCEPT !.pc = "sees"] ELSE attract
  /\ league' = IF start.for = "league" THEN [league EXCEPT !.pc = "started", !.game = Len(games')] ELSE league
  /\ series' = IF start.for = "series" THEN [series EXCEPT !.pc = "plays", !.game = Len(games')] ELSE series

(* POST /matches, sent once.  Its answer may be lost: the match then runs  *)
(* and no game plays it.  The game goes on reading where the launch was.   *)
Create ==
  /\ Alive /\ start.pc = "create"
  /\ LET kind   == KindOf(start.for)
         heard  == Published(AddsEvents(kind))
         closed == [heard EXCEPT ![Launch] = <<>>]
     IN  IF Refused(kind) THEN GivesUp /\ Works /\ UNCHANGED <<matchVars, games, left>> /\ Hangs
         ELSE \/ /\ Going /\ Adds(kind) /\ Works
                 /\ games' = Append(games, Launched) /\ running' = Len(games') /\ Started
                 /\ pending' = [closed EXCEPT ![Len(games')] = heard[Launch]]
                 /\ UNCHANGED left
              \/ /\ Adds(kind) /\ pending' = closed /\ left' = left \cup {Len(kinds')}
                 /\ IF Going THEN Fails ELSE Works
                 /\ GivesUp /\ UNCHANGED games
              \/ /\ IF Going THEN Fails ELSE Works
                 /\ GivesUp /\ UNCHANGED <<matchVars, games, left>> /\ Hangs
  /\ UNCHANGED <<mode, service, requests, holds, undos, reopened>>

Request == service = "up" /\ mode \in AskedIn /\ requests < MaxRequests /\ requests' = requests + 1

Asks(for) ==
  /\ Request /\ Begins(for)
  /\ UNCHANGED <<tableVars, mode, games, running, loopVars, service, holds, undos, faults, left, reopened>>

StartGame        == Asks("asked")        \* POST /games, and the lobby's form and demo button
StartScreensaver == Asks("screensaver")  \* the page that asks again and again

-----------------------------------------------------------------------------
(* Game.run: play, watch and the end.                                      *)

(* The last point.  Pressed for the wrong half on purpose, it is taken     *)
(* back; no demo and no league match has such faults.                      *)
MayErr(g) == games[g].for \in {"asked", "series"}

Win(g) ==
  /\ games[g].pc = "play" /\ games[g].cause = "" /\ games[g].match \in live
  /\ Stops(games[g].match, "won")
  /\ \/ games' = [games EXCEPT ![g].pc = "won"] /\ UNCHANGED undos
     \/ MayErr(g) /\ games' = [games EXCEPT ![g].pc = "wrong"] /\ TakesBack
  /\ UNCHANGED <<mode, running, start, loopVars, service, requests, holds, faults, left, reopened>>

Finished(g, status) ==
  [games EXCEPT ![g].pc = "done", ![g].status = status, ![g].cause = "", ![g].saw = ""]

(* An answer that is lost is asked for again: refused, as the match is     *)
(* over, or, let run again meanwhile, the answer to a repeat.  Lost every  *)
(* time, the game gives up, as for any report.                             *)
AnswerLost(g) ==
  IF games[g].match \in live THEN [games EXCEPT ![g].pc = "play"] ELSE Finished(g, "ended")

(* Play's answer to its last point.                                        *)
Answer(g) ==
  /\ Alive /\ games[g].pc = "won"
  /\ \/ /\ games' = Finished(g, "won") /\ Works
        /\ reopened' = IF games[g].match \in live THEN reopened \cup {games[g].match} ELSE reopened
     \/ games' \in {AnswerLost(g), Stopped(g)} /\ Fails /\ UNCHANGED reopened
  /\ UNCHANGED <<tableVars, mode, running, start, loopVars, service, requests, holds, undos, left>>

(* The press for the wrong half has its answer and is undone, which is not *)
(* sent twice; or an answer is lost.                                       *)
Correct(g) ==
  /\ Alive /\ games[g].pc = "wrong"
  /\ \/ Undoes(games[g].match) /\ games' = [games EXCEPT ![g].pc = "play"] /\ Works
     \/ Undoes(games[g].match) /\ games' = Stopped(g) /\ Fails
     \/ UNCHANGED tableVars /\ games' \in {Stopped(g), AnswerLost(g)} /\ Fails
  /\ UNCHANGED <<mode, running, start, loopVars, service, requests, holds, undos, left, reopened>>

(* A report to a match that is over.                                       *)
Refuse(g) ==
  /\ Alive /\ games[g].pc = "play" /\ games[g].cause = "" /\ games[g].match \notin live
  /\ games' = Finished(g, "ended")
  /\ UNCHANGED <<tableVars, mode, running, start, loopVars, service, boundVars>>

(* Ended by its own page, nobody presses, somebody counts into a demo, or  *)
(* its reports fail.                                                       *)
Abandon(g) ==
  /\ Alive /\ games[g].pc = "play" /\ games[g].cause = ""
  /\ games' = Stopped(g)
  /\ UNCHANGED <<tableVars, mode, running, start, loopVars, service, boundVars>>

(* What one event of the table means to the game.                          *)
Means_OnlyItsOwn(g, e) ==
  CASE e.kind = "none" -> "matchEnded" [] OTHER -> ""
Means(g, e) ==
  CASE e.kind = "none" -> "matchEnded"
    [] e.kind = "snapshot" /\ e.match # games[g].match -> "lost"
    [] OTHER -> ""

Saw(g, e) == IF e.kind \in {"ended", "won"} /\ e.match = games[g].match THEN e.kind ELSE games[g].saw

(* Until the match is won or the game is over for another reason.          *)
Watches(g) == Alive /\ Playing(g) /\ games[g].cause = "" /\ games[g].saw # "won"

Watch(g) ==
  /\ Watches(g) /\ pending[g] # <<>>
  /\ LET e == Head(pending[g]) IN
       games' = [games EXCEPT ![g].cause = Means(g, e), ![g].saw = Saw(g, e)]
  /\ pending' = IF Means(g, Head(pending[g])) = "" THEN Read(g) ELSE [pending EXCEPT ![g] = <<>>]
  /\ UNCHANGED <<matchVars, mode, running, start, loopVars, service, boundVars>>

StreamBreaks(g) ==
  /\ Watches(g) /\ Fails
  /\ games' = [games EXCEPT ![g].cause = IF games[g].saw = "ended" THEN "matchEnded" ELSE "lost"]
  /\ pending' = [pending EXCEPT ![g] = <<>>]
  /\ UNCHANGED <<matchVars, mode, running, start, loopVars, service, requests, holds, undos, left, reopened>>

(* The match is ended unless zaehlwerk has ended it; an end that is not    *)
(* answered in five seconds is not tried again.                            *)
EndMatch_OnlyIfStopped(g) == games[g].cause = "told"
EndMatch(g) == games[g].cause # "matchEnded"

Over(g) ==
  /\ Alive /\ Playing(g) /\ games[g].cause # ""
  /\ games' = Finished(g, "ended")
  /\ IF EndMatch(g)
     THEN \/ Ends(games[g].match) /\ Works /\ UNCHANGED left
          \/ Fails /\ left' = left \cup {games[g].match} /\ UNCHANGED tableVars
     ELSE Works /\ UNCHANGED <<tableVars, left>>
  /\ UNCHANGED <<mode, running, start, loopVars, service, requests, holds, undos, reopened>>

(* The goroutine: only if it is still this game that runs.                 *)
LetGo(g) ==
  /\ Alive /\ games[g].pc = "done"
  /\ games' = [games EXCEPT ![g].pc = "gone"]
  /\ running' = IF running = g THEN 0 ELSE running
  /\ UNCHANGED <<tableVars, mode, start, loopVars, service, boundVars>>

-----------------------------------------------------------------------------
(* Attract mode: followTable.                                              *)

WatchTable ==
  /\ Going /\ mode = "attract" /\ attract.pc = "blind"
  /\ attract' = [pc |-> "sees", armed |-> FALSE, current |-> 0, told |-> 0]
  /\ pending' = [pending EXCEPT ![Table] = <<Shows(live)>>]
  /\ UNCHANGED <<matchVars, mode, games, running, start, league, series, service, boundVars>>

Blinded ==
  /\ Going /\ attract.pc = "sees" /\ Fails
  /\ attract' = [attract EXCEPT !.pc = "blind"] /\ pending' = [pending EXCEPT ![Table] = <<>>]
  /\ UNCHANGED <<matchVars, mode, games, running, start, league, series, service, requests, holds, undos, left, reopened>>

(* The wait starts at no_match and at nothing else; any match stops it.    *)
Sees(e) ==
  IF e.kind = "none"
  THEN [attract EXCEPT !.current = 0, !.armed = TRUE]
  ELSE [attract EXCEPT !.current = e.match, !.armed = FALSE]

TableEvent ==
  /\ Going /\ attract.pc = "sees" /\ pending[Table] # <<>>
  /\ attract' = Sees(Head(pending[Table])) /\ pending' = Read(Table)
  /\ UNCHANGED <<matchVars, mode, games, running, start, league, series, service, boundVars>>

WaitOver ==
  /\ Going /\ attract.pc = "sees" /\ attract.armed
  /\ attract' = [attract EXCEPT !.pc = "start", !.armed = FALSE]
  /\ UNCHANGED <<tableVars, mode, games, running, start, league, series, service, boundVars>>

StartDemo ==
  /\ Alive /\ attract.pc = "start" /\ start.pc = "free" /\ Begins("attract")
  /\ attract' = [attract EXCEPT !.pc = "starting"]
  /\ UNCHANGED <<tableVars, mode, games, running, league, series, service, boundVars>>

(* A quiet match: a demo nobody here plays is ended, a real one is named   *)
(* once and left alone.                                                    *)
MayEnd(m) == kinds[m] = "demo"

Quiet ==
  /\ Going /\ attract.pc = "sees" /\ attract.current \notin Owned \cup {0, attract.told}
  /\ IF MayEnd(attract.current)
     THEN \/ Ends(attract.current) /\ Works
          \/ Fails /\ UNCHANGED tableVars
     ELSE Works /\ UNCHANGED tableVars
  /\ attract' = IF MayEnd(attract.current) THEN attract ELSE [attract EXCEPT !.told = attract.current]
  /\ UNCHANGED <<mode, games, running, start, league, series, service, requests, holds, undos, left, reopened>>

-----------------------------------------------------------------------------
(* League mode: runLeague and the lobby's card.  At "look" it sleeps the   *)
(* pause, except before its first match, and asks whether it is held.      *)

WaitLeague ==
  /\ Going /\ mode = "league" /\ league.pc = "look"
  /\ league' = [league EXCEPT !.pc = IF league.held THEN "drowsy" ELSE "start"]
  /\ UNCHANGED <<tableVars, mode, games, running, start, attract, series, service, boundVars>>

(* The flag is read under the lock, the wake waited for without it.        *)
FallAsleep ==
  /\ Going /\ league.pc = "drowsy"
  /\ league' = [league EXCEPT !.pc = "asleep"]
  /\ UNCHANGED <<tableVars, mode, games, running, start, attract, series, service, boundVars>>

Woken ==
  /\ Going /\ league.pc = "asleep" /\ league.wake
  /\ league' = [league EXCEPT !.pc = IF league.held THEN "drowsy" ELSE "start", !.wake = FALSE]
  /\ UNCHANGED <<tableVars, mode, games, running, start, attract, series, service, boundVars>>

(* The players, the operator and the open places are read first.           *)
StartLeagueMatch ==
  /\ Going /\ league.pc = "start"
  /\ \/ Begins("league") /\ league' = [league EXCEPT !.pc = "starting"] /\ Works
     \/ Fails /\ league' = [league EXCEPT !.pc = "look"] /\ UNCHANGED start
  /\ UNCHANGED <<tableVars, mode, games, running, attract, series, service, requests, holds, undos, left, reopened>>

(* Held between the start and here: the match goes at once.                *)
HeldMeanwhile == league.held

LeagueNow ==
  /\ Going /\ league.pc = "started"
  /\ league' = [league EXCEPT !.pc = "plays", !.now = league.game]
  /\ games' = IF HeldMeanwhile /\ Playing(league.game) THEN Stopped(league.game) ELSE games
  /\ UNCHANGED <<tableVars, mode, running, start, attract, series, service, boundVars>>

LeagueMatchOver ==
  /\ Going /\ league.pc = "plays" /\ LetsGo(league.game)
  /\ league' = [league EXCEPT !.pc = "look", !.now = 0]
  /\ UNCHANGED <<tableVars, mode, games, running, start, attract, series, service, boundVars>>

HoldLeague ==
  /\ service = "up" /\ mode = "league" /\ holds < MaxHolds /\ holds' = holds + 1
  /\ league' = [league EXCEPT !.held = TRUE]
  /\ games' = IF league.now # 0 /\ Playing(league.now) THEN Stopped(league.now) ELSE games
  /\ UNCHANGED <<tableVars, mode, running, start, attract, series, service, requests, undos, faults, left, reopened>>

(* The flag under the lock, then the wake, of which one may wait.          *)
ResumeLeague ==
  /\ service = "up" /\ league.held /\ ~league.resuming
  /\ league' = [league EXCEPT !.held = FALSE, !.resuming = TRUE]
  /\ UNCHANGED <<tableVars, mode, games, running, start, attract, series, service, boundVars>>

Wake == [league EXCEPT !.wake = TRUE, !.resuming = FALSE]

WakeLeague ==
  /\ Alive /\ league.resuming /\ league' = Wake
  /\ UNCHANGED <<tableVars, mode, games, running, start, attract, series, service, boundVars>>

-----------------------------------------------------------------------------
(* A series.                                                               *)

AskSeries ==
  /\ Request /\ series.status # "playing"
  /\ series' = [pc |-> "start", status |-> "playing", game |-> 0, played |-> 0]
  /\ UNCHANGED <<tableVars, mode, games, running, start, attract, league, service, holds, undos, faults, left, reopened>>

StartSeriesGame ==
  /\ Alive /\ series.pc = "start" /\ Begins("series")
  /\ series' = [series EXCEPT !.pc = "starting"]
  /\ UNCHANGED <<tableVars, mode, games, running, attract, league, service, boundVars>>

SeriesGameOver ==
  /\ Going /\ series.pc = "plays" /\ LetsGo(series.game)
  /\ series' = IF games[series.game].status # "won" THEN [series EXCEPT !.pc = "over", !.status = "ended"]
               ELSE IF series.played + 1 = SeriesGames
               THEN [series EXCEPT !.pc = "over", !.status = "done", !.played = @ + 1]
               ELSE [series EXCEPT !.pc = "start", !.played = @ + 1]
  /\ UNCHANGED <<tableVars, mode, games, running, start, attract, league, service, boundVars>>

-----------------------------------------------------------------------------
(* The process ends: the listener first, which waits for its requests and  *)
(* for the streams of open pages, then Close.                              *)

Handled ==
  /\ start.pc = "free" \/ start.for \in {"attract", "league"} \/ (start.for = "series" /\ series.played > 0)
  /\ ~(series.pc = "start" /\ series.played = 0) /\ ~league.resuming

Shutdown ==
  /\ service = "up" /\ service' = "draining"
  /\ UNCHANGED <<tableVars, mode, games, running, start, loopVars, boundVars>>

Cancelled_NoGame == games
Cancelled == [g \in Games |-> [games[g] EXCEPT !.cause = IF Playing(g) /\ @ = "" THEN "told" ELSE @]]

(* A page's stream ends only with the service's own context, so Shutdown   *)
(* then takes all the time there is.                                       *)
Close(late) ==
  /\ service = "draining" /\ (~late => Handled)
  /\ service' = IF late THEN "late" ELSE "closing"
  /\ games' = Cancelled
  /\ UNCHANGED <<tableVars, mode, running, start, loopVars, boundVars>>

(* s.wg: the loops and a series after its first game, which see the end of *)
(* the service unless they are in a start or about to begin one, and one   *)
(* goroutine for each game.  A handler's start is not counted.             *)
AllDone ==
  /\ attract.pc \notin {"start", "starting"} /\ league.pc # "starting"
  /\ series.played > 0 => series.pc \notin {"start", "starting"}
  /\ \A g \in Games : games[g].pc = "gone"

Closed ==
  /\ service \in {"closing", "late"} /\ AllDone /\ service' = "closed"
  /\ UNCHANGED <<tableVars, mode, games, running, start, loopVars, boundVars>>

OutOfTime ==
  /\ \/ service = "late" /\ Works
     \/ service = "closing" /\ Fails
  /\ service' = "gone"
  /\ UNCHANGED <<tableVars, mode, games, running, start, loopVars, requests, holds, undos, left, reopened>>

-----------------------------------------------------------------------------
Starting == Yield \/ Yielded \/ Follow \/ Look \/ Skip \/ Create
Plays(g) == Answer(g) \/ Correct(g) \/ Watch(g) \/ Over(g) \/ LetGo(g)
Attracts == WatchTable \/ TableEvent \/ WaitOver \/ StartDemo \/ Quiet
Leagues  == WaitLeague \/ FallAsleep \/ Woken \/ StartLeagueMatch \/ LeagueNow \/ LeagueMatchOver \/ WakeLeague
Serial   == StartSeriesGame \/ SeriesGameOver

Next ==
  \/ \E kind \in {"demo", "real"} : OthersMatch(kind)
  \/ \E m \in Matches : OthersUndo(m) \/ \E how \in {"ended", "won"} : OthersEnd(m, how)
  \/ StartGame \/ StartScreensaver
  \/ Starting
  \/ \E g \in Games : Plays(g) \/ Win(g) \/ Refuse(g) \/ Abandon(g) \/ StreamBreaks(g)
  \/ Attracts \/ Blinded
  \/ Leagues \/ HoldLeague \/ ResumeLeague
  \/ AskSeries \/ Serial
  \/ Shutdown \/ \E late \in BOOLEAN : Close(late)
  \/ Closed \/ OutOfTime

Spec == Init /\ [][Next]_vars

(* Every goroutine goes on and its timers fire; select takes a waiting     *)
(* event in the end, and the lock a waiting start.  Bots play on and find  *)
(* a match that is over; a person in a browser need not.  Nothing makes    *)
(* anybody start, win, lose, end or ask for anything.                      *)
BotsFindOut(g) == games[g].for # "asked" /\ Refuse(g)
Fairness ==
  /\ WF_vars(Starting)
  /\ \A n \in 1..MaxMatches :
       WF_vars(n \in Games /\ (Answer(n) \/ Correct(n) \/ BotsFindOut(n) \/ Over(n) \/ LetGo(n))) /\ WF_vars(n \in Games /\ Watch(n))
  /\ WF_vars(WatchTable) /\ SF_vars(TableEvent) /\ WF_vars(WaitOver) /\ SF_vars(StartDemo) /\ SF_vars(Quiet)
  /\ WF_vars(WaitLeague \/ FallAsleep \/ Woken \/ LeagueNow \/ LeagueMatchOver) /\ SF_vars(StartLeagueMatch)
  /\ WF_vars(WakeLeague)
  /\ SF_vars(StartSeriesGame) /\ WF_vars(SeriesGameOver) /\ WF_vars(Closed)

FairSpec == Spec /\ Fairness

-----------------------------------------------------------------------------
(* One game plays at a time: a yielded demo is over before the next game   *)
(* begins (server.go, start; attract.go, yield).                           *)
OneGameAtATime == \A g, h \in Games : Playing(g) /\ Playing(h) => g = h

(* A game's match does not sit in the registry with nobody scoring it: it  *)
(* runs only while its game plays, also when the game takes its own last   *)
(* point back.  But no game comes back for a match whose end got no answer *)
(* or which somebody else's undo reopened (game.go, run, press).           *)
NoMatchLeftBehind ==
  \A g \in Games : games[g].match \in live => Playing(g) \/ games[g].match \in left \cup reopened

(* A game whose match is ended, or that another match has displaced, stops *)
(* without anybody pressing: it may be one in a browser.  Only a game that *)
(* has seen its match won looks no more, also when the last point is then  *)
(* taken back (game.go, watch).                                            *)
Unread(g, e) == \E i \in 1..Len(pending[g]) : pending[g][i] = e
Taken(g) ==
  LET m == games[g].match IN
  /\ games[g].saw # "won" /\ ~Unread(g, [kind |-> "won", match |-> m])
  /\ \/ games[g].saw = "ended" \/ Unread(g, [kind |-> "ended", match |-> m])
     \/ \E n \in m + 1..Len(kinds) : Unread(g, [kind |-> "snapshot", match |-> n])
TakenGames == {g \in Games : Playing(g) /\ Taken(g)}
GamesGiveWay == \A n \in 1..MaxMatches : n \in TakenGames ~> (n \notin TakenGames \/ ~Alive)

(* With attract mode on, a table on which nobody plays gets a demo, also   *)
(* when a pod that is gone has left its demo there (attract.go).           *)
NobodyPlays ==
  /\ mode = "attract" /\ Going /\ Len(kinds) < MaxMatches
  /\ \A m \in live : kinds[m] = "demo" /\ m \notin Owned /\ m \notin left
FreeTableGetsADemo == NobodyPlays ~> ~NobodyPlays

(* Nobody waits for everybody: with the table's answers, what Close waits  *)
(* for is over in the end, whatever was being started, and Close returns   *)
(* (server.go, Close).                                                     *)
CloseReturnsInTheEnd == service = "closing" ~> service \in {"closed", "gone"}

(* Not so: a stopped service leaves no match of its own running, with a    *)
(* page still open (main.go, run).                                         *)
StoppedServiceLeavesNoMatch ==
  service \in {"closed", "gone"} => \A g \in Games : games[g].match \notin live
====
