-------------------------------- MODULE Sink --------------------------------
(***************************************************************************)
(* internal/panel's Sink: what the scorer emits, published on the panel's  *)
(* stream.  Observe runs under a match's scorer lock and only hands the    *)
(* transition over; one worker renders and publishes it; Close stops the   *)
(* worker, which publishes what is queued first.  The matches are those    *)
(* of Rules, so a message carries what the rules made of each point.       *)
(***************************************************************************)
EXTENDS Rules, FiniteSets

CONSTANTS
  Matches,
  Demos,            \* the matches that are demos
  Known,            \* players with somebody in Schmetterpause behind them
  QueueSize,
  MaxTransitions,   \* bound: transitions of all matches together
  MaxCorrections,   \* bound: points taken off and undos among them
  MaxLosses         \* bound: refused publishes, and drops while it is open

ASSUME SinkAssumption ==
  /\ Demos \subseteq Matches /\ Known \subseteq Player
  /\ QueueSize \in Nat \ {0} /\ MaxTransitions \in Nat /\ MaxCorrections \in Nat
  /\ MaxLosses \in Nat

VARIABLES
  m,         \* per match: as its scorer has it
  undo,      \* per match: what an undo returns to
  observing, \* per match: the Observe in progress under its lock
  queue,     \* transitions handed over
  hand,      \* the one being published, NoPitch while none is
  worker,    \* "running", "draining" or "done"
  left,      \* what the drain still takes
  expired,   \* DrainTimeout has passed
  stopped,   \* stop is closed
  closed,    \* the pitcher is closed
  dropped, failed,
  (* What is outside. *)
  shown,     \* per match: what the panel's stream has last, NoPitch before anything
  (* History, not in the code. *)
  count,     \* transitions so far, of all matches
  corrections, \* how many of them were corrections
  arrived,   \* messages that reached the stream
  missed     \* transitions queued after stop was closed

scorerVars == <<m, undo, count, corrections>>
outVars == <<shown, arrived>>
closeVars == <<left, expired, stopped, closed>>
vars == <<scorerVars, observing, queue, hand, worker, closeVars, dropped, failed, outVars, missed>>

Transition == [match : Matches, n : Nat, kind : Kind \ {None},
               side : Player \cup {None}, state : Match]
NoPitch == [n |-> 0]

TypeOK ==
  /\ m \in [Matches -> Match] /\ undo \in [Matches -> Seq(Match)]
  /\ \A x \in Matches : observing[x].at \in {"idle", "check", "send"}
  /\ queue \in Seq(Transition) /\ Len(queue) <= QueueSize
  /\ hand \in Transition \cup {NoPitch}
  /\ worker \in {"running", "draining", "done"} /\ left \in 0..QueueSize
  /\ {expired, stopped, closed} \subseteq BOOLEAN
  /\ {dropped, failed, count, missed} \subseteq 0..MaxTransitions
  /\ corrections \in 0..MaxCorrections
  /\ closed => worker = "done"

Init ==
  /\ m = [x \in Matches |-> NewMatch] /\ undo = [x \in Matches |-> <<>>]
  /\ observing = [x \in Matches |-> [at |-> "idle"]]
  /\ queue = <<>> /\ hand = NoPitch /\ worker = "running" /\ left = 0
  /\ expired = FALSE /\ stopped = FALSE /\ closed = FALSE
  /\ dropped = 0 /\ failed = 0 /\ shown = [x \in Matches |-> NoPitch] /\ arrived = 0 /\ count = 0 /\ missed = 0
  /\ corrections = 0

-----------------------------------------------------------------------------
(* What a message says.                                                    *)

(* The instruction of a phase in which the players do not play a point.    *)
PhaseBanner(phase) == IF phase \in {"warmup", "serve_rally", "change_ends"} THEN phase ELSE None

Banner(t) ==
  CASE t.kind = "set_won"       -> <<"SATZ", t.side>>
    [] t.kind = "match_won"     -> <<"SIEG", t.side>>
    [] t.kind = "serve_decided" -> <<"ANGABE", t.side>>
    [] OTHER                    -> <<PhaseBanner(Phase(t.state)), None>>

(* A won set is titled by the sets, a point by the points.                 *)
Title(t) ==
  CASE t.kind = "set_won"   -> [says |-> "SET", score |-> t.state.sets]
    [] t.kind = "match_won" -> [says |-> "WIN", score |-> t.state.sets]
    [] OTHER                -> [says |-> "", score |-> t.state.points]

Severity(t) == IF t.kind \in {"set_won", "match_won"} THEN "SUCCESS" ELSE "INFO"

(* The board: who serves next, or who won once nobody does.                *)
Tags(t) ==
  [match |-> t.match, set |-> t.state.setIndex, transition |-> t.kind, side |-> t.side,
   points |-> t.state.points, sets |-> t.state.sets, played |-> t.state.completed,
   serve |-> IF t.state.complete THEN None ELSE Serving(t.state),
   winner |-> IF t.state.complete THEN t.state.winner ELSE None,
   phase |-> Phase(t.state), ends |-> <<PlayerAt(t.state, "left"), PlayerAt(t.state, "right")>>,
   demo |-> t.match \in Demos]

StakeOf_EitherPlayer(t) ==
  IF \E p \in Player : Stake(t.state, p)
  THEN [stake |-> "set_point", of |-> t.side] ELSE [stake |-> None, of |-> None]
StakeOf(t) ==
  IF \E p \in Player : Stake(t.state, p)
  THEN LET p == CHOOSE q \in Player : Stake(t.state, q) IN
       [stake |-> IF MatchStake(t.state, p) THEN "match_point" ELSE "set_point", of |-> p]
  ELSE [stake |-> None, of |-> None]

(* The winner's figure, if anybody is behind that side.                    *)
FigureTag(t) == IF t.kind \in {"set_won", "match_won"} /\ t.side \in Known THEN t.side ELSE None

Message(t) ==
  [n |-> t.n, title |-> Title(t), severity |-> Severity(t), tags |-> Tags(t), banner |-> Banner(t),
   stake |-> StakeOf(t), figure |-> FigureTag(t)]

-----------------------------------------------------------------------------
(* The scorer emits.                                                       *)

Emits(x, kind, side, state) ==
  /\ observing[x].at = "idle"
  /\ count < MaxTransitions /\ count' = count + 1
  /\ m' = [m EXCEPT ![x] = state]
  /\ observing' = [observing EXCEPT ![x] =
       [at |-> "check", t |-> [match |-> x, n |-> count', kind |-> kind, side |-> side, state |-> state]]]
  /\ UNCHANGED <<queue, hand, worker, closeVars, dropped, failed, outVars, missed>>

Corrects == corrections < MaxCorrections /\ corrections' = corrections + 1
Push(x) == undo' = [undo EXCEPT ![x] = Stacked(@, m[x])]

(* A press in the warm-up or during a change of ends.                      *)
Confirm(x, h) ==
  /\ Phase(m[x]) \in {"warmup", "change_ends"} /\ h \notin m[x].pressed
  /\ Emits(x, ConfirmedKind(m[x], h), IF BothPressed(m[x], h) THEN None ELSE PlayerAt(m[x], h),
           Confirmed(m[x], h))
  /\ UNCHANGED <<undo, corrections>>

DecideServe(x, p) ==
  /\ Phase(m[x]) = "serve_rally"
  /\ Emits(x, "serve_decided", p, ServeDecided(m[x], p)) /\ Push(x)
  /\ UNCHANGED corrections

(* A point, or a correction; at love there is nothing to correct.          *)
Point(x, p, delta) ==
  LET pts   == PointsAfter(m[x], p, delta)
      after == Scored(m[x], p, delta)
  IN  /\ Phase(m[x]) = "playing" /\ pts # m[x].points
      /\ Emits(x, ScoredKind(m[x], after), SideOf(pts, p, delta), after) /\ Push(x)
      /\ IF delta < 0 THEN Corrects ELSE UNCHANGED corrections

TakeBack(x) ==
  /\ undo[x] # <<>>
  /\ Emits(x, "undo", None, undo[x][Len(undo[x])])
  /\ undo' = [undo EXCEPT ![x] = SubSeq(@, 1, Len(@) - 1)]
  /\ Corrects

Scores(x) ==
  \/ \E h \in Half : Confirm(x, h)
  \/ \E p \in Player : DecideServe(x, p)
  \/ \E p \in Player, delta \in {1, -1} : Point(x, p, delta)
  \/ TakeBack(x)

MayLose == dropped + failed < MaxLosses
Returns(x) == observing' = [observing EXCEPT ![x] = [at |-> "idle"]]

(* Observe looks whether the sink is closed ...                            *)
Check(x) ==
  /\ observing[x].at = "check"
  /\ IF stopped
     THEN dropped' = dropped + 1 /\ Returns(x)
     ELSE observing' = [observing EXCEPT ![x].at = "send"] /\ UNCHANGED dropped
  /\ UNCHANGED <<scorerVars, queue, hand, worker, closeVars, failed, outVars, missed>>

(* ... and then hands the transition over, or drops it rather than wait.   *)
Send(x) ==
  /\ observing[x].at = "send" /\ Returns(x)
  /\ IF Len(queue) < QueueSize
     THEN /\ queue' = Append(queue, observing[x].t) /\ UNCHANGED dropped
          /\ missed' = IF stopped THEN missed + 1 ELSE missed
     ELSE (stopped \/ MayLose) /\ dropped' = dropped + 1 /\ UNCHANGED <<queue, missed>>
  /\ UNCHANGED <<scorerVars, hand, worker, closeVars, failed, outVars>>

-----------------------------------------------------------------------------
(* The worker.                                                             *)

Take ==
  /\ worker = "running" /\ hand = NoPitch /\ queue # <<>>
  /\ hand' = Head(queue) /\ queue' = Tail(queue)
  /\ UNCHANGED <<scorerVars, observing, worker, closeVars, dropped, failed, outVars, missed>>

(* Enqueue answers, refuses, or times out, and then the message may have   *)
(* arrived all the same.  An answer nobody can read is still an answer.    *)
Published(there, refused) ==
  /\ IF there
     THEN shown' = [shown EXCEPT ![hand.match] = hand] /\ arrived' = arrived + 1
     ELSE UNCHANGED outVars
  /\ IF refused THEN MayLose /\ failed' = failed + 1 ELSE UNCHANGED failed

Pitch ==
  /\ hand # NoPitch /\ hand' = NoPitch
  /\ \E there, refused \in BOOLEAN : (there \/ refused) /\ Published(there, refused)
  /\ UNCHANGED <<scorerVars, observing, queue, worker, closeVars, dropped, missed>>

(* The worker finds stop closed, whether or not something is queued.       *)
StartDrain ==
  /\ worker = "running" /\ hand = NoPitch /\ stopped
  /\ worker' = "draining" /\ left' = Len(queue)
  /\ UNCHANGED <<scorerVars, observing, queue, hand, expired, stopped, closed, dropped, failed, outVars, missed>>

Drain_Uncounted ==
  /\ worker = "draining" /\ hand = NoPitch /\ left > 0
  /\ IF queue = <<>>
     THEN worker' = "done" /\ UNCHANGED <<left, queue, hand, dropped>>
     ELSE /\ left' = left - 1 /\ queue' = Tail(queue)
          /\ IF expired THEN UNCHANGED <<dropped, hand>>
             ELSE hand' = Head(queue) /\ UNCHANGED dropped
          /\ UNCHANGED worker
  /\ UNCHANGED <<scorerVars, observing, expired, stopped, closed, failed, outVars, missed>>
Drain ==
  /\ worker = "draining" /\ hand = NoPitch /\ left > 0
  /\ IF queue = <<>>
     THEN worker' = "done" /\ UNCHANGED <<left, queue, hand, dropped>>
     ELSE /\ left' = left - 1 /\ queue' = Tail(queue)
          /\ IF expired THEN dropped' = dropped + 1 /\ UNCHANGED hand
             ELSE hand' = Head(queue) /\ UNCHANGED dropped
          /\ UNCHANGED worker
  /\ UNCHANGED <<scorerVars, observing, expired, stopped, closed, failed, outVars, missed>>

Drained_OnlyWhenEmpty ==
  /\ worker = "draining" /\ hand = NoPitch /\ left = 0 /\ queue = <<>> /\ worker' = "done"
  /\ UNCHANGED <<scorerVars, observing, queue, hand, closeVars, dropped, failed, outVars, missed>>
Drained ==
  /\ worker = "draining" /\ hand = NoPitch /\ left = 0 /\ worker' = "done"
  /\ UNCHANGED <<scorerVars, observing, queue, hand, closeVars, dropped, failed, outVars, missed>>

DeadlinePasses ==
  /\ worker = "draining" /\ left > 0 /\ ~expired /\ expired' = TRUE
  /\ UNCHANGED <<scorerVars, observing, queue, hand, worker, left, stopped, closed, dropped, failed, outVars, missed>>

(* Close, which comes while handlers that outlived the server's shutdown   *)
(* still score.                                                            *)
Stop ==
  /\ ~stopped /\ stopped' = TRUE
  /\ UNCHANGED <<scorerVars, observing, queue, hand, worker, left, expired, closed, dropped, failed, outVars, missed>>

Close ==
  /\ stopped /\ worker = "done" /\ ~closed /\ closed' = TRUE
  /\ UNCHANGED <<scorerVars, observing, queue, hand, worker, left, expired, stopped, dropped, failed, outVars, missed>>

Worker == Take \/ Pitch \/ StartDrain \/ Drain \/ Drained
Next ==
  \/ \E x \in Matches : Scores(x) \/ Check(x) \/ Send(x)
  \/ Worker \/ DeadlinePasses \/ Stop \/ Close

(* The worker's goroutine runs, and every publish is bounded by            *)
(* PitchTimeout.  Nobody has to score or to close.                         *)
Fairness == WF_vars(Worker \/ Close)
Spec == Init /\ [][Next]_vars /\ Fairness

-----------------------------------------------------------------------------
(* Properties.                                                             *)

Underway == Cardinality({x \in Matches : observing[x].at # "idle"})

(* What the sink counts at its end accounts for every transition: one that *)
(* is not on the panel's stream was dropped or failed and is in a counter, *)
(* but for those an Observe that had found the sink open queued after it   *)
(* was stopped (Dropped's and Observe's comments, sink.go).                *)
LossesAreCounted ==
  closed /\ Underway = 0 => count - arrived <= dropped + failed + missed

(* The catcher knows no rules, so two messages in a row have to agree: a   *)
(* point for whoever was announced to hold set or match point is the set   *)
(* or the match, and nobody takes one unannounced, neither by a point nor  *)
(* by a correction of the other side's (stakeOf, Tags, Title).             *)
StakeWasAnnounced ==
  [][\A x \in Matches :
       LET before == Message(shown[x])
           after  == Message(shown'[x])
           taken  == after.tags.side
       IN  shown[x] # NoPitch /\ shown'[x] # shown[x] =>
           (after.n = before.n + 1 /\ after.tags.transition # "undo" =>
             /\ after.title.says = "WIN" <=> before.stake = [stake |-> "match_point", of |-> taken]
             /\ after.title.says = "SET" <=> before.stake = [stake |-> "set_point", of |-> taken]
             /\ after.title.says = "WIN" => after.tags.winner = taken /\ after.tags.serve = None)]_vars

(* Close returns, however many points still come in and whatever the bus   *)
(* does (drain is bounded by what it saw and by DrainTimeout).             *)
CloseReturns == stopped ~> closed

(* sink.go: "a Dropped() of zero has to mean the panel saw everything".    *)
ZeroDroppedMeansSeen ==
  closed /\ Underway = 0 /\ dropped = 0 /\ failed = 0 => arrived = count
=============================================================================
