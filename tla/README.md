# zaehlwerk: a verification project

zaehlwerk keeps the score of table tennis matches at one table. Buttons,
a piezo strip and a web page send events; a service counts them, shows the
score on live streams, mirrors it to an LED panel, and reports the result of a
finished match to a second service, Schmetterpause, which also knows the players
behind the fobs they check in with. A demo player, pong, can play the table
while nobody else does.

These TLA+ modules describe that service as its code has it: the sequential
rules of a match, and the concurrent parts around them, where handlers, timers,
workers and people act in an order nobody chose. TLC checks them on small
instances; TLAPS proves the safety of most of them, and one refinement, for every
value of the constants.

## Inventory

| part | state | operations | hard because |
|---|---|---|---|
| scorer `internal/scorer/scorer.go` | one match: points, sets, phase, serve, ends; undo stack; per source a watermark and a time | `Apply`, `UndoEvent`, `Undo`, reads | points, corrections, undos, retries and restarted counters mix in any order |
| registry `internal/match/registry.go` | the matches in order of creation, each with scorer, end time and report record | `CreateFor`, `End`, `Current`, `Occupied`, eviction, the report record | "running" also depends on the scorer, which changes without the registry's lock |
| reporter `internal/schmetterpause/reporter.go` | results waiting out a grace period, sends in flight, closed flag | `Observe`, `fire`, `Send`, `Flush`, `send` | timers against undo, a page's send, shutdown and a remote service whose answer may be lost |
| check-in desk `internal/checkin/` | who stands at which half, per source the last event and its answer | `CheckIn`, `CheckInPhone`, `Drop`, expiry | the fob is looked up outside the lock; taps race each other, the page and the clock |
| switcher `internal/panel/streams.go` | whether the panel is held and for which match | `Observe`, `Start`, `Release`, `Close`, a worker | two remote calls per hand-back, a person at the panel between them, a bounded work queue |
| sink `internal/panel/sink.go` | bounded queue of transitions, counters of drops and failures | `Observe`, worker, `Close` | a non-blocking enqueue races a closing worker |
| hub `internal/live/hub.go` | bounded subscriptions per match and for the table | `Observe`, `Announce`, `Subscribe`, `cancel` | the slowest reader loses the oldest event |
| API `internal/api/` | none of its own | create, start, end, undo, send, ingest, streams | each handler is a sequence of steps on the parts above, under several locks |
| page and screens `internal/ui/` | since when each result is held and the table free | score, end, create, follow the table | a page shows one moment and acts on the next; two polls and a stream move one screen |
| pong's games `internal/pong/game.go`, `check.go`, `driver.go`, `remote.go` | the truth a game keeps, its faults, a button check's plan, presses under way, the relay's newest messages | play, check, press, relay | a second program that knows the match only from answers that may be lost or late |
| pong's server `internal/pong/server.go`, `attract.go`, `league.go`, `series.go` | the running game, loops, a series, the league's hold | start, yield, wait, end, `Close` | every start races the others and matches that are not pong's |
| chain mocks `tools/chain-mock/` | buttons, radio and hub with their settings; a piezo board with its control | press, resend, ask, correct, pause | every stage repeats what went unanswered |
| wiring `cmd/` | none | start and shutdown | what stops first decides what is lost |

How they meet. An ingest or page event reaches `Scorer.Apply` under the scorer's
lock, and the scorer calls its observers inside that lock: hub, sink, switcher
and reporter. They must not block there, so each only queues or starts a timer
and does its work elsewhere. `CreateFor` and `End` change the registry; the
handler then tells the switcher, the hub and the desk, step by step and without
a lock around the whole. The desk starts a match itself when both halves are
claimed, with its own lock held. Reporter and desk call Schmetterpause; sink and
switcher call the panel; each of those calls may fail, or succeed and lose its
answer.

What makes each part correct:

* scorer: only legal scores end a set; an undo takes back one event and never
  reopens a closed set; retries count once; serve and ends follow the laws.
* registry: at most one real match is meant to run, and no demo beside it;
  a running match is not evicted; the page's match is the newest running one.
* reporter: a result is handed over at most once, only while the match stands
  as won, and every result still owed at shutdown is tried.
* desk: a retried tap does nothing twice and gets its first answer; a claim
  reflects the last tap of that half; a match starts only with two players
  and never over an occupied table.
* switcher and sink: the panel is given back, and not over a person's choice;
  every transition is delivered or counted as dropped.
* hub and streams: a reader that stays connected ends up at the newest state.
* pages and screens: a result stays up as long as it should, and every screen
  finds the next match.
* pong: what a game reports is an error of the scorer's and not of its own; one
  game at a time, none beside a real match, and none left at the table.
* the mocks: what is sent twice counts once, and what is asked is answered.

The hazards, each at its line and with the properties that watch it, are in
`PROJECT.json`.

## Plan

The table lists the modules in the order they were written, and where the
theorems about them are proved.

| module | models | abstract specification, composition | proved in |
|---|---|---|---|
| `Rules`, `Scorer` | the scorer | `Scorer` extends `Rules` | `ScoringProofs` |
| `ResultBook`, `Reporter` | report record, reporter, shutdown | `Reporter` implements `ResultBook` | `ReporterProofs`, the refinement too |
| `Registry` | creating, evicting, looking up, requests | | `RegistryProofs` |
| `Switcher` | who has the panel | | `SwitcherProofs` |
| `Desk` | check-in of fobs and phones | | `DeskProofs` |
| `Live` | hub and streams | | `ObserverProofs` |
| `Sink` | transitions queued for the panel | over `Rules` | `ObserverProofs` |
| `ButtonCheck`, `Browser`, `Games` | one game of the demo player, by what decides it | `Games` composes both with `PongGame` | `GamesProofs` |
| `PongTable` | who gets the table | pong against the matches at zaehlwerk | `PongTableProofs` |
| `PongGame` | a game between bots | plays against `Rules` | `GamesProofs` |
| `Zaehlwerk`, `Buttons`, `Board`, `Screens`, `Chain` | the table's chain from the button to the screen | `Chain` composes all | `ScoringProofs` |

Not planned any more: a module of the lock orders (its argument is one of reading
the code, not of interleavings), and join codes, a counter and a clock under one
mutex.

## Conventions

A definition keeps the name of the code it models where TLA+ allows. A
definition `X_Fault` in front of a definition `X` is `X` with a plausible bug
(a dropped guard, a missing reset). No action uses it; `PROJECT.json` pairs it
with the property that notices it, so that no property is there for decoration.

A bound is a constant named `Max...` (or `Callers`, `Clients`, `Requests`,
`Posts`), or a variable or record commented "bound". A variable under "History"
records the past for a property and guards nothing. Parts of the world outside
the repository, such as Schmetterpause, the network, the LED catcher and people,
are actions marked external, as wide as the code's own handling of them
suggests: a request may be answered late, refused, lost, or take effect while
its answer is lost.

Every module has a type invariant, `TypeOK`. That of `Scorer`, `Registry`,
`Reporter`, `Desk`, `Sink` and `Switcher` is a theorem; the scorer's is in a run
as well. The others hold when added to their run; the proofs about these modules
use the part of it they need (`LiveType`, `TableType`, `CheckType`, ...), without
the bounds that count with a sum or a cardinality. Operators that another module
of the same proofs has too carry a prefix: `LiveInit`, `CheckInit`,
`ChainNext`; and so do a few constants and variables (`Senders`, `hubSeen`).

## Modules

**`Rules`** is the struct `match` of `scorer.go` and its pure functions: phase,
ends, serve, stake, what a point, a press or the serve rally makes of a match.
There is no bound in it and no recursion. Its assumptions are what `New`
refuses.

**`Scorer`** turns them into actions. Each exported call runs under the scorer's
mutex and is one action: `Apply` (with the observers' result as `result`),
`UndoEvent`, `Undo`, and `Tick` for the clock that the restart rule reads. A
source's time of last event is modelled as its silence in ticks, counted up to
the quiet period. A call on a match that is over returns before deduplication,
as the code does. `floor` and `taken` are history.

**`Reporter`** splits the reporter where its locks split it. `Win` is the point
with `won` up to its read of the report record, `Schedule` the rest under
`r.mu`; `RunOut` is the runtime starting a timer's goroutine, `Fire` that
goroutine; a call of `send` is `Call` (wait for `sending`), `Begin`, then
`Withhold`, or `Record`/`GiveUp` after the remote side's `Accept`, `Conflict`,
`Refuse` or nothing. `PageSend` is the button. `FlushBegin`, `FlushNext`,
`FlushWait`, `FlushDone`, `ServerDown` and `Exit` are the shutdown of `main.go`.
A timer is named by the win that armed it, which is the identity the code's
pointer comparison relies on. A request that was given up stays on the wire and
may still be entered, as HTTP allows.

**`ResultBook`** is what the hand-over promises: what is entered was won, a
second entry for a match needs a lost answer and an operator's result, and
"delivered" means it is there. `Reporter!ImplementsResultBook` is the
refinement; only `done` needs a mapping.

**`Registry`** models `CreateFor` as a scan: the registry's lock is held
throughout (`creating`), but each match is looked at in a step of its own,
because points, undos and ends take only the match's and scorer's locks.
`Current` copies the order and then scans without the lock. A request is three
steps: find the match, check it, act. The report record is `Reporter`'s.

**`Switcher`** has the bounded queue with its drops, the one worker with the
steps between two remote calls (`Take`, then `Set`, or `Read` and `Back`), the
inactivity failsafe, `Close`, and the handlers that submit: `Create` changes
the registry at once and leaves in `told` what that handler has still to submit,
so handlers overtake each other as they do in the code. The demos a real match
ends are ended in one step here; `Registry` has the finer one.

**`Desk`** has a request for each attempt at a tap. The desk's lock is let go of
while Schmetterpause resolves the fob (`ResolveFob`, `Unresolved`) and held from
`Settle` through `StartMatch` or `StartFails`. Attempts that find the tap in
their source's records wait for the first one's answer (`Repeated`). The page
creates matches under another lock and tells the desk afterwards (`Drop`);
`Sweep` releases lone claims, with `TimePasses` in quiet periods. A match that an
undo has reopened is a state of its own (`again`): it occupies the table like any
other, but the claims made while it was won are still there. The desk
remembers `maxPhoneClaims` taps by phone; `lost` is the history of those it
forgot while they could still be sent again.

**`Live`** is the hub's bounded subscriptions and both streams. A state is the
number of transitions before it. `Follow`, `Snapshot`, `ReadOwn` and `ReadOther`
are the streams' loop: subscribe, read what is current, then read the queue and
decide for each event whether to show it, pass it over or start again.

**`Sink`** has `Observe` in the two steps its select and the close race in, the
worker's publish with an answer, a refusal or a timeout behind which the message
arrived all the same, and `Close` with a drain bounded by length and time. The
matches are `Rules`', and what is handed over is what `scorer.go` emits: points,
points taken off with `delta` -1 also when that ends a set, warm-up, serve rally and
change of ends with their confirmations, and undo. So a message's stake and banner
follow from the score.

**`PongGame`** is `Game.play` against a match of `Rules`. One action is one call
of `report` with all it does: the press, a counter reset before it, the late
press it overtook, and its resend; `at` says where in `ready`, `serveRally`,
`press` or `point` the game is. `truth`, `parted` and `found` are the game's own
book-keeping.

**`ButtonCheck`** is `runCheck`: the prompts `checkPlan` may draw, the table's
stream as a queue of transitions with their kinds, the timers, and the half read
off two states. Buttons, page and table act beside it. `strays` counts what was
done that nobody asked for, so `strays = 0` are people and hardware that do as
told.

**`Browser`** is `browser.submit` against `next` and `Over`, one step from each
lock, channel or answer to the next, with pages that repeat a press or go away;
and the relay between the devices of a game, whose reader takes the newest
messages and the channel that announces the next in one look. **`Games`**
composes the three: `driver` says which kind of game it is.

**`PongTable`** has the lock `start` under which every game begins (`Yield`,
`Yielded`, `Follow`, `Look`, `Skip`, `Create`), the game's goroutine (`Answer`,
`Correct`, `Watch`, `Over`, `LetGo`), attract mode's and the league's loops with
their waits and wake-ups, a series, the lobby and the screensaver's page, matches
of others at the table, and `Shutdown`, `Close` and their deadline. A reader of
`/live/stream` has what it has not read yet in `pending`. A match that is won is in
`won` until it is ended by hand, and an undo lets it run again: the game's own, of
a winning point pressed for the wrong half (`Win`, `Correct`), or anybody's
(`OthersUndo`). A game that has seen its match won watches no more, and plays on
unwatched when the point is taken back. `reopened` is the history of the matches
somebody else let run again when their game was over. `AllDone` is what `s.wg`
counts: the loops, a series after its first game, one goroutine for each game; a
start in a handler is not counted, and fails by itself when the service has ended.

**`Zaehlwerk`** is what the clients at the table meet of the service: matches by
id or as the current one and the ingest contract, each request one step.
**`Buttons`** is the rig: frames on the air, the hub whose lock is held over the
calls a frame leads to, the long press that waits for the other one on a timer,
the fob. **`Board`** is `Run` of the piezo board and its control page.
**`Screens`** are the scoring page and the two watch screens with their polls,
hold, side select and screensaver. **`Chain`** composes them with somebody at a
page. It assumes that the board sends from a source that is no button's and
nobody from the page's, which is how the mocks are configured: a source shared
would have two counters under one watermark.

`MCScorer`, `MCRegistry`, `MCDesk`, `MCPongGame` and `MCChain` give values and
symmetries. `ScoringProofs` (of `Scorer` and `Chain`), `RegistryProofs`,
`ReporterProofs`, `DeskProofs`, `SwitcherProofs`, `ObserverProofs` (of `Sink` and `Live`), `PongTableProofs` and
`GamesProofs` hold the proofs.

## Runs

| run | asks | bounds, and why they suffice |
|---|---|---|
| `scorer_rules` | every format feature together: warm-up, serve rally, changes of ends, loser opens; points taken back with `delta` -1, also those that end a set; late, repeated and restarted ids | sets to two points, so deuce, a correction that ends a set (2:1 to 2:0) and three sets fit; one source whose counter restarts gives unlimited events; six undos hold a whole set with corrections |
| `reporter_one` | one match, page, timers, late answers, shutdown; safety, liveness and refinement | two wins let an old timer meet a new entry; three calls let one hold `sending` while two wait. With two callers the bound itself would block a call, so three it is |
| `registry_table` | creation and eviction against points, ends and undos | two matches kept of three, so that eviction happens; two requests |
| `switcher_jobs` | who holds the panel when handlers overtake each other, jobs are dropped and a call fails; does a dead scoreboard go | two matches, older against newer; a queue of one, so that it overflows; one failure |
| `desk_taps` | each tap taken once, each check-in used once, no claim beside a real match | two taps, three attempts and two requests: a retry meets the first attempt at every step; two matches, the page's and the desk's |
| `live_streams` | a reader that falls behind, loses events and catches up | buffers of two with two matches and two transitions overflow; one stream at a time, since readers do not meet |
| `sink_close` | stake announced, losses counted, `Close` returns | seven transitions of a best of three to two that begins with the serve rally reach a set point, the end of a set and the change of ends behind it, with one point taken off or undone on the way; a queue of one overflows, and one loss shows whether it is counted |
| `pong_game` | a bot game with any two faults, a button check, a page's presses, the relay | ten reports play a match to the end; two faults, one of which may be a lost answer; twelve prompts get a check through with a stray press; four posts of two presses at two connections; two messages in the relay |
| `pong_table` | one game at a time, no match left behind | two matches of pong's own or others', one hold, one failure, all three modes; one request, where no league plays; one undo, where no attract mode does; others act while the process runs, and win only matches that an undo may bring back or that a game here plays |
| `pong_live` | games give way; a free table gets a demo; `Close` comes to an end | as `pong_table` with its failure, so that the stream breaks while a demo is due, but without league mode, holds and undos, and with requests only where no loop plays |
| `chain_table` | presses and rallies count once, requests are used once, results stay up | `MCPlays` shares the work: each play gives the rig, the board, the page and the screens a few steps under settings chosen so that each repeats, drops and reorders; the state space of everything at once is out of reach |
| `chain_screens` | when does a screen go to the screensaver | as `chain_table`; ends in a violation, see below |

What the properties say in a phrase; the comment above each definition has the
whole of it:

- `scorer_rules`: no set ends or runs on at an illegal score (`ScoresAreLegal`);
  an undo takes back one event (`UndoTakesBackOneEvent`); within the quiet period
  no id counts twice (`CountedOnce`); serve and opener (`ServeFollowsTheLaws`).
- `reporter_one`: `ShutdownLosesNothing`, `GraceIsFull`, `FirstSuccessStands`,
  `EveryWinIsLookedAt` (liveness), `ImplementsResultBook` (refinement).
- `registry_table`: a demo beside a real match only after an undo
  (`RealTakesTheTable`); eviction spares running matches (`RunningIsKept`);
  `Current` is not overtaken by its scan (`CurrentPassesNoneOver`).
- `switcher_jobs`: `PanelIsWhereItBelongs` once all is quiet,
  `KeepsItWhileRunning`, and `DeadScoreboardGoes` (liveness).
- `desk_taps`: `CheckinUsedOnce`, `TapTakenOnce`, and no claim that could still
  pair beside a real match (`RunningMatchHasTheTable`). That last one has an
  exception, which the code has too: win, claim, undo gives a match that runs again
  and the claim held all the same, until it expires or is dropped. What holds
  beside a reopened match is that no half is newly claimed, taken over or renewed.
- `live_streams`: a stream that has read all shows the score (`ScoreIsNow`) and
  the match (`TableIsFollowed`) as they are, and gets there (`CatchesUp`).
- `sink_close`: `LossesAreCounted`, `StakeWasAnnounced`, `CloseReturns`.
- `pong_game`: no finding without a fault of zaehlwerk's (`NoFindings`) or of the
  hardware's (`NoFalseAlarm`); a check that gets through has seen what it is for
  (`CheckSeesItAll`); `PressTakenOnce`; `RelayShowsTheLatest`.
- `pong_table`: `OneGameAtATime`; a game's match runs only while the game plays
  (`NoMatchLeftBehind`), also when the game takes its own last point back. Excepted
  are a match whose end or creation got no answer (`left`) and one that somebody
  else's undo reopened when its game was over (`reopened`): the code has nobody to
  come back for either.
- `pong_live`: `GamesGiveWay`, `FreeTableGetsADemo` and `CloseReturnsInTheEnd`, all
  liveness.
- `chain_table`: across the rig, the board and the service a press and a rally
  count once (`CountsOnce`) and a press is used once (`UsedOnce`); a waiting long
  press is answered (`LongsAreAnswered`); a board's own resend is no second scorer
  (`ResendIsQuiet`); a result is shown through its hold (`ResultsStayUp`).
- `chain_screens`: `SaverNeedsAFreeTable`, which the code does not keep.

Symmetry is used for safety runs only, over players, halves, requests and
clients, which no definition tells apart. `scorer_rules` has the loser open the
next set; the alternating opener is in `pong_game` and `sink_close`. Deadlock is
checked for `Scorer` and `Registry`; the other systems may stop: a process exits,
a game or a match is over, a budget is used up.

`pong_game` keeps apart a counter reset and a delayed press, which together
refute `NoFindings` (below). A check's `FewWon` and `EnoughLost` are 3 and 8 in
the code and 1 here, as the sets are to two and not to eleven.

Fairness. `Reporter`: the runtime runs goroutines and timers, the HTTP client
has a timeout and both shutdown steps a deadline, so each of these is weakly
fair. Getting the mutex `sending` is strongly fair, because Go's mutex passes to
whoever has waited too long. Nobody has to press, win, undo or answer.
`Switcher`: the worker, its ticker and the handlers that have begun are weakly
fair, and time passes; points, people and failures are not. `DeadScoreboardGoes`
allows for somebody who plays on for ever on a match that is over, since each
such point renews the inactivity clock. `Live`: a connected stream reads on.
`Sink`: worker and `Close` go on; publishes are bounded by their timeout.
`PongTable`: goroutines go on and timers fire, weakly; strongly fair are reading
an event in a `select` with other cases ready, which Go chooses among at random,
and getting the lock `start`, for the reason above. Bots find out that their
match is over; a person in a browser need not.

## What the runs found

`chain_screens` ends in a violation on purpose. With a side select up, the clock
of the free table runs. When a match starts on the scoring page, the table's
stream makes the screen ask `/ui/watch/next`, which redirects it at once; only
the poll of `/ui/watch/sides` stops the clock, and it has left the page with it.
The clock runs on through the match, and when the result's hold is over the
screen goes straight to the screensaver instead of three minutes of columns and
codes.

The modules also state what a comment or decision record says and the code does
otherwise. Each of these definitions is refuted when it is added to the run of
its module:

| definition | run | what happens |
|---|---|---|
| `Reporter!SentIsWhatArrived` | `reporter_one` with two scores | after a conflict the record holds today's sets, which need not be the ones Schmetterpause got |
| `Reporter!DueWhileWaiting` | `reporter_one` | an earlier call's failure clears the due time of a grace period it has nothing to do with |
| `Registry!OneKindRuns` | `registry_table` | an undo of a match point puts a demo and a real match side by side |
| `Registry!EndedTakesNoEvents` | `registry_table` | an event checked before a match is ended by hand is applied after it |
| `Switcher!OverrideSurvives` | `switcher_jobs` | a person's switch between reading the panel and setting it is overwritten |
| `Switcher!NotStuck` | `switcher_jobs` | a switch that took effect and lost its answer is held by nobody, so neither the end of the match nor the failsafe gives the panel back |
| `Desk!NewerCheckinKept` | `desk_taps` | of two taps of a player the one resolved first settles last, and the older check-in is kept |
| `Live!FollowsTheCurrent` | `live_streams` | a stream on no match passes over the start of a match that is no longer the newest, and stays there while it runs |
| `Sink!ZeroDroppedMeansSeen` | `sink_close` | a transition queued after the drain has looked is neither shown nor counted |
| `PongGame!NoFindings` | `pong_game` with `FaultSetsTogether` | a counter reset while a delayed press is held lets that press have the higher id; it counts, and the game reports what it caused itself |
| `PongGame!PlayedOutIsWon` | `pong_game` | the answer to the winning press is lost and its repeat refused: the match is won, and the game takes it for over |
| `PongTable!StoppedServiceLeavesNoMatch` | `pong_table` | an open page's stream uses up the ten seconds `Shutdown` and `Close` share, and the running game's match stays |
| `Screens!PageMovesOn` | `chain_table` | the scoring page keeps a match that was ended by hand, with its result wanted, while another one runs |

Two things no comment speaks of, met in `PongTable`. A game whose match point was
pressed for the wrong half and undone plays on without its watch, which has
returned at the win: another match no longer displaces it, and its own end by hand
is noticed only when a report is refused. So `GamesGiveWay` is about the games that
have not seen their match won. And a demo of pong's own that an undo reopened after
its game was over keeps the table: attract mode ends quiet demos, but none of its
own.

## Proofs

Each theorem holds for every value of the constants that the named assumptions
of the modules allow, and from these alone: every format, every set of sources,
matches, clients and streams, every buffer and every bound. Each rests on an
inductive invariant; TLC checked those on the run's instance before they were
proved. What the invariant adds to the property is what says why the code works:

**`ScoringProofs`**, of `Scorer`:
* `ScorerTypeOK`. Type correctness is inductive by itself; each pure operator has
  a lemma that it returns a match.
* `ScorerScoresAreLegal`, `ScorerUndoLandsInPlay`, `ScorerPhasesExclusive`, from
  `ScoreInv`. None is inductive alone: an undo makes any match of the stack the
  current one, so every match on the stack must have legal scores and phases that
  agree, and must have been pushed in a phase that scores. The arithmetic core is
  `DecidedIsFinal`: one event on an undecided score decides it, if at all, at a
  final score.
* `ScorerClosedSetsStayClosed`, from `FloorInv`: all matches on the stack belong
  to one set, which is the one in progress or, until its first point, the one
  before.
* `ScorerCountedOnce`, from `DedupInv`: what was counted since a source's last
  silence lies at or below its watermark, and a source that has been silent long
  enough to restart has nothing counted against it.
* `ScorerUndoTakesBackOneEvent`, from `StackInv`: the stack with the match behind
  it is a chain in which each element leads to the next by one scoring event;
  presses do not break the chain because it compares matches without them.
* `ScorerTallyAgrees`, from `TallyInv`: a finished score is one player's and not the
  other's, so the sets of both add up to the finished ones (`AppendedIsTaken`,
  `SetWonTallied`), and as neither may pass `SetsToWin`, at most `BestOf` are played.
  Undo brings back any match of the stack, so each has to be tallied.
* `ScorerServeFollowsTheLaws`, from `SetsInv`: in the match and in all that an
  undo may bring back, as many finished sets are kept as were played. That makes
  the last of them the one whose loser opens. The rest is the parity of serve
  changes on either side of deuce (`ServePasses`).

**`ScoringProofs`**, of `Chain`. Its parts meet in the matches only, so each has an
invariant of its own, and a lemma says that what the others ask of zaehlwerk keeps
it: any request changes at most one match, by an event its source had not sent
yet, or starts one (`Requests`, `Progress`). `ChainInvariant` is their conjunction.
* `CountsOnceHolds`. What has counted in a match lies at or below its source's
  watermark, and each event once (`CountedOnceIn`), for presses as for rallies.
  That a rally counts in no second match is the board's doing: the event it is
  sending has counted, if at all, in the match it names (`RallyInv`).
* `UsedOnceHolds`, from `UseInv` and `FobInv`: as long as the hub has deduplicated,
  what it has taken lies at or below its watermark and a long press that waits has
  not been used; and a fob is in one place, held to the reader, on its way or
  checked in, and a retry finds its check-in by the event. `LongsAreAnsweredHolds` is
  inductive by itself.
* `ResendIsQuietHolds`, from `QuietInv`: once the board's event has been answered,
  zaehlwerk has it at its watermark, so the resend changes nothing, and a score
  that differs was changed by somebody else.
* `ResultsStayUpHolds`, from `HoldInv`: the hold of a match starts no sooner than
  its end, unless an undo has reopened it. This needs that the screens nobody
  touches show no demo (`RealOnly`) and that a real match runs behind a newer demo
  only if it was reopened (`DemosComeAlone`), since a screen asks about the hold
  when what it shows is not the current match, which need not mean it is over.

**`ReporterProofs`** keep apart who may do what. Only the call that holds
`sending` has a request out, for a match not yet delivered (`OneAtATime`); what is
on the wire and in an answer is true (`WireInv`, `AnswersAreTrue`,
`BookIsAnswered`); an entry in `waiting` is of the last win and its timer is
accounted for (`EntriesInv`, `TimersAccounted`); the counter `Flush` waits on is
exactly the timers and calls under way (`CountedInv`, `InflightExact`). From these
follow that a win that waited waits, is with `Flush`, or has a call that will look
at it (`OwedInv`), and so `ShutdownLosesNothing`, `GraceIsFull` and
`FirstSuccessStands`. `ReporterImplementsResultBook` is the refinement, step by
step: `Accept` is the book's entry, `Record` its delivery, all else stutters.

**`RegistryProofs`**. `RealTakesTheTable` is too weak while the registry is
being scanned: `CreateFor` looks at one match after the other, and a match it has
passed may change. The strengthening is that a match of one kind was let in only
when no older one of the other kind ran, so whichever runs beside a newer one has
been reopened, also while that newer one is over (`NewerTookTheTable`); and that
what the scan has passed is clear (`PassedIsClear`). `CurrentPassesNoneOver` needs
the order to stay the order of creation through eviction.

**`SwitcherProofs`**. What the jobs in the queue say is so: an end is of a match
that is ended (`EndedInv`), a win of one that is over or has its undo behind it
(`WonInv`). Followed through the queue, the worker and the panel, the start of the
newest match is yet to be submitted, is the last start in the queue, or has been
worked off and not been taken back (`FollowInv`).

**`DeskProofs`**. A check-in is in one place: brought by a request, with one half,
or with one match (`OneUse`); what is recorded is recognised when it is sent again
(`RecordedIsKnown`). The proof found that this fails for a tap by phone whose
record made room for `maxPhoneClaims` others: the tap is resolved again and its
check-in claimed once more. `CheckinUsedOnce` says so since.

**`ObserverProofs`**. Of `Sink`: every transition handed over is published,
failed, dropped, queued, in hand or past the drain (`CountInv`, `DrainInv`), and
each transition that is not on the stream yet, like the one the panel shows, is one
of the matches so far with a score that can be; what is pending right after it is
an undo or followed from it by one point, and the latest has the present score
(`AnnounceInv`). Of `Live`: the newest event of a match that
a stream has to read has the match's version (`OwnIsLatest`, `TableIsLatest`), a
table's stream on a match that does not run still has its end to hear
(`EndIsTold`), and on none, while one runs, its start (`StartIsTold`).

**`PongTableProofs`**. `NoMatchLeftBehind` rests on what a game and a launch know
from the streams they read: what the stream says of an end by hand is so for good, since a match ended by hand
is not reopened, which a won one may be (`EndsAreTrue`); a launch that has seen the
table free hears of a match next if there is one (`LaunchReads`); a game that still
watches hears that its match is won, or of another one, before it hears that there
is none (`GamesRead`), so a win that is taken back is never read as an end; and a
game that takes its match for ended is right (`GamesKnow`). What is left are the
ways back from `won`: the game's own undo, after which it plays, and anybody's,
after which either the game still plays or the match is in `reopened`.

**`GamesProofs`**. A page's presses: whoever holds the lock `mu` has the next
number and alone is past the look at the last (`DriverInv`); a watcher has read the
newest messages unless the channel it read with them is closed (`RelayInv`). The
button check, with people that do as asked: at most one press is on the stream,
the prompt's own (`CleanInv`), so that the half read off two states is the half
that was pressed (`PressAnswers`); and the check's plan stays in the first set
until the other half has lost with a point to its name, or in the second with one
point a half (`ShownInv`). The bots' game (`GamesNoFindings`): `GameInv` says at
each place of the loop what zaehlwerk has awarded beyond the truth and what the
faults explain (`Outstanding`): nothing between two rallies, a point for whoever
stands at the half after a ghost or a bounce, one too few for the winner of a rally
whose press is still to come. A press zaehlwerk has taken is behind the game's
counter, like one that is held back, so that neither the late press nor the resend
is taken (`InStep`, `ReportMakes`); that is where the theorem needs that the game
does not both delay presses and reset its counter, and with both it is false ("What
the runs found"). The players stand where the game has walked them, but for the
change of ends it has not read yet (`Walked`). What is awarded is a sum over the
sets, which a point raises by one also when it ends the set (`PointIsAwarded`).

Where the statements are proved, the run keeps the ones that say most;
`UndoLandsInPlay`, `PhasesExclusive`, `ClosedSetsStayClosed` and `TallyAgrees` are
in no run any more.

Only model-checked is liveness (`EveryWinIsLookedAt`, `DeadScoreboardGoes`,
`CatchesUp`, `CloseReturns`, `GamesGiveWay`, `FreeTableGetsADemo`,
`CloseReturnsInTheEnd`): fairness and
enabledness are out of the prover's reach.

The library's induction theorems take an operator and cannot be instantiated
here. Where a proof needs induction over numbers, for the greatest of finitely
many matches say, it takes the least of the counterexamples instead
(`LeastOf`, from `WFMin`). No module declares a recursive operator.

## Not modelled

The components with status `not_modelled` in `PROJECT.json` say why: layout,
data and deployment without a state of their own. Within modelled parts these
are left out: log lines and wording; the HTTP encoding of requests, of which
only the outcomes matter, and the refusal of malformed ones; in `Registry` the
random match ids, which are numbers in order of creation; in `Switcher` the
configuration without a catcher, where every method returns at once; in
`PongTable` who plays and how strong; of the remote game the join code, and of
the served game the court, whose physics no property is about; in `PongGame` a
change of the faults in the middle of a game. The order in which
locks nest across the parts is taken as the comments fix it.
