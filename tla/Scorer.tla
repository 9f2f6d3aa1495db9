------------------------------- MODULE Scorer -------------------------------
(***************************************************************************)
(* internal/scorer: the one writer of a match's score.  Every exported     *)
(* call runs under the scorer's mutex, so each is one action: Apply (an    *)
(* ingest or page event), UndoEvent (an undo that arrives as an event),    *)
(* Undo (the page's own correction) and Tick, the clock moving on.         *)
(***************************************************************************)
EXTENDS Rules, FiniteSets

CONSTANTS
  Sources,            \* senders, each with its own event counter
  EventIds,           \* the counter values a sender may use
  Deltas,             \* the points an event may carry
  RestartMaxEventID,  \* highest id a restarted source is taken to start with
  RestartQuietPeriod, \* clock ticks of silence that make a restart credible
  MaxPoints,          \* bound: no score beyond this is explored
  MaxUndo             \* bound: no longer undo stack is explored

ASSUME ScorerAssumption ==
  /\ EventIds \subseteq Nat
  /\ Deltas \subseteq {-1, 0, 1}
  /\ RestartMaxEventID \in Nat
  /\ RestartQuietPeriod \in Nat \ {0}
  /\ MaxPoints \in Nat /\ MaxUndo \in Nat

VARIABLES
  m,       \* the match
  undo,    \* the stack of matches an undo returns to
  seen,    \* per source: the watermark, and the silence since its last event
  result,  \* what the last call answered and emitted
  (* History, not in the code. *)
  floor,   \* the latest set in which a point has ever been applied
  taken    \* per source and id: how often it was accepted since the source
           \* was last silent for the quiet period

vars == <<m, undo, seen, result, floor, taken>>

Unseen == -1    \* below every id: a source the map does not hold

Outcome == {"rejected", "applied", "ignored", "duplicate"}

TypeOK ==
  /\ m \in Match
  /\ undo \in Seq(Match)
  /\ seen \in [Sources -> [high : EventIds \cup {Unseen},
                           silent : 0..RestartQuietPeriod]]
  /\ result \in [outcome : Outcome, kind : Kind, side : Player \cup {None}]
  /\ floor \in Nat
  /\ taken \in [Sources -> [EventIds -> Nat]]

Init ==
  /\ m = NewMatch
  /\ undo = <<>>
  /\ seen = [s \in Sources |-> [high |-> Unseen, silent |-> 0]]
  /\ result = [outcome |-> "ignored", kind |-> None, side |-> None]
  /\ floor = 0
  /\ taken = [s \in Sources |-> [id \in EventIds |-> 0]]

-----------------------------------------------------------------------------
(* Deduplication.                                                          *)

Restarted(s, id) ==
  /\ id <= RestartMaxEventID
  /\ seen[s].silent = RestartQuietPeriod

IsNew(s, id) == id > seen[s].high \/ Restarted(s, id)

(* accept of a new event; it moves the watermark down after a restart.     *)
Record(s, id) ==
  /\ seen' = [seen EXCEPT ![s] = [high |-> id, silent |-> 0]]
  /\ taken' = [taken EXCEPT ![s][id] = @ + 1]

(* accept of a duplicate: a sender that sprays retries is not quiet.       *)
Discard(s, id) ==
  /\ ~IsNew(s, id)
  /\ seen' = [seen EXCEPT ![s].silent = 0]
  /\ result' = [outcome |-> "duplicate", kind |-> None, side |-> None]
  /\ UNCHANGED <<m, undo, floor, taken>>

Answer(outcome, kind, side) ==
  result' = [outcome |-> outcome, kind |-> kind, side |-> side]

-----------------------------------------------------------------------------
(* The undo stack.                                                         *)

Push == Stacked(undo, m)

-----------------------------------------------------------------------------
(* What an accepted event does, by phase.                                  *)

Nothing ==
  /\ Answer("ignored", None, None)
  /\ UNCHANGED <<m, undo, floor>>

Confirm_WithHalf(h, p, delta) ==
  IF delta <= 0 \/ h \in m.pressed
  THEN Nothing
  ELSE /\ m' = Confirmed(m, h)
       /\ Answer("applied", "confirmed", h)
       /\ UNCHANGED <<undo, floor>>
Confirm(h, p, delta) ==
  IF delta <= 0 \/ h \in m.pressed
  THEN Nothing
  ELSE /\ m' = Confirmed(m, h)
       /\ Answer("applied", ConfirmedKind(m, h), IF BothPressed(m, h) THEN None ELSE p)
       /\ UNCHANGED <<undo, floor>>

DecideServe(p, delta) ==
  IF delta <= 0
  THEN Nothing
  ELSE /\ undo' = Push
       /\ m' = ServeDecided(m, p)
       /\ Answer("applied", "serve_decided", p)
       /\ UNCHANGED floor

Point(p, delta) ==
  LET pts == PointsAfter(m, p, delta)
      x   == Scored(m, p, delta)
  IN  /\ pts[p] <= MaxPoints
      /\ IF pts = m.points
         THEN Nothing
         ELSE /\ Len(undo) < MaxUndo
              /\ undo' = Push
              /\ m' = x
              /\ floor' = IF m.setIndex > floor THEN m.setIndex ELSE floor
              /\ Answer("applied", ScoredKind(m, x), SideOf(pts, p, delta))

-----------------------------------------------------------------------------
(* The calls.                                                              *)

(* An event names a player or a half; the ends say who stands where.       *)
Resolve(target) ==
  IF target \in Half
  THEN [half |-> target, player |-> PlayerAt(m, target)]
  ELSE [half |-> HalfOf(m, target), player |-> target]

Apply(s, id, target, delta) ==
  /\ ~m.complete
  /\ \/ Discard(s, id)
     \/ /\ IsNew(s, id)
        /\ Record(s, id)
        /\ LET at == Resolve(target) IN
           CASE Phase(m) \in {"warmup", "change_ends"}
                  -> Confirm(at.half, at.player, delta)
             [] Phase(m) = "serve_rally" -> DecideServe(at.player, delta)
             [] Phase(m) = "playing"     -> Point(at.player, delta)

(* A match that is over takes no point, and does not record the event.     *)
ApplyToComplete ==
  /\ m.complete
  /\ Answer("rejected", None, None)
  /\ UNCHANGED <<m, undo, seen, floor, taken>>

TakeBack_KeepsTop ==
  /\ m' = undo[Len(undo)]
  /\ undo' = undo
  /\ Answer("applied", "undo", None)
  /\ UNCHANGED floor
TakeBack ==
  /\ m' = undo[Len(undo)]
  /\ undo' = SubSeq(undo, 1, Len(undo) - 1)
  /\ Answer("applied", "undo", None)
  /\ UNCHANGED floor

(* The page's correction.  Watermarks are not rolled back.                 *)
Undo_RollsBackWatermarks ==
  IF undo = <<>>
  THEN Answer("rejected", None, None) /\ UNCHANGED <<m, undo, seen, floor, taken>>
  ELSE TakeBack /\ seen' = [s \in Sources |-> [high |-> Unseen, silent |-> 0]]
       /\ UNCHANGED taken
Undo ==
  IF undo = <<>>
  THEN Answer("rejected", None, None) /\ UNCHANGED <<m, undo, seen, floor, taken>>
  ELSE TakeBack /\ UNCHANGED <<seen, taken>>

(* An undo that arrives as an event: the watermark first, and also once    *)
(* the match is over.                                                      *)
UndoEvent(s, id) ==
  \/ Discard(s, id)
  \/ /\ IsNew(s, id)
     /\ Record(s, id)
     /\ IF undo = <<>> THEN Nothing ELSE TakeBack

(* Time passes.  silent counts up to the quiet period and stays there.     *)
Tick ==
  /\ seen' = [s \in Sources |->
                IF seen[s].high # Unseen /\ seen[s].silent < RestartQuietPeriod
                THEN [seen[s] EXCEPT !.silent = @ + 1] ELSE seen[s]]
  /\ taken' = [s \in Sources |->
                IF seen'[s].silent = RestartQuietPeriod
                THEN [id \in EventIds |-> 0] ELSE taken[s]]
  /\ UNCHANGED <<m, undo, result, floor>>

Next ==
  \/ \E s \in Sources, id \in EventIds :
       \/ \E target \in Player \cup Half, delta \in Deltas :
            Apply(s, id, target, delta)
       \/ UndoEvent(s, id)
  \/ ApplyToComplete
  \/ Undo
  \/ Tick

Spec == Init /\ [][Next]_vars

-----------------------------------------------------------------------------
(* Invariants.                                                             *)

(* A final score under law 2.11.1: the set ends at PointsPerSet with a     *)
(* lead of two, or later at a lead of exactly two.                         *)
FinalScore(pts) ==
  \E w \in Player :
    LET lost == pts[Opponent(w)] IN
      \/ pts[w] = PointsPerSet /\ lost + WinBy <= PointsPerSet
      \/ pts[w] > PointsPerSet /\ lost + WinBy = pts[w]

LegalScores(x) ==
  /\ \A i \in 1..Len(x.completed) : FinalScore(x.completed[i])
  /\ x.complete => /\ x.completed # <<>>
                   /\ x.points = x.completed[Len(x.completed)]
  /\ ~x.complete => \A p \in Player : ~Takes(x.points, p)

(* No set ever ends, or runs on, at a score the laws of the game do not    *)
(* allow, whatever mix of points, corrections and undos led there          *)
(* (Scorer.Apply's setWinner, scorer.go).                                  *)
ScoresAreLegal == LegalScores(m) /\ \A i \in 1..Len(undo) : LegalScores(undo[i])

SetsTaken(x, p) ==
  Cardinality({i \in 1..Len(x.completed) : Takes(x.completed[i], p)})

(* The tally of sets, the list of set scores, the set in progress and the  *)
(* winner tell the same story: sets are what the finished scores say, the  *)
(* match ends with the first player to reach SetsToWin, and never runs     *)
(* past BestOf sets (match.sets, completed, setIndex, winner in scorer.go).*)
TallyAgrees ==
  /\ \A p \in Player : m.sets[p] = SetsTaken(m, p)
  /\ Len(m.completed) = m.setIndex + (IF m.complete THEN 1 ELSE 0)
  /\ Len(m.completed) <= BestOf
  /\ IF m.complete
     THEN /\ m.sets[m.winner] = SetsToWin
          /\ m.sets[Opponent(m.winner)] < SetsToWin
          /\ Takes(m.points, m.winner)
     ELSE m.winner = None /\ \A p \in Player : m.sets[p] < SetsToWin

(* The match without the presses that undo does not take back.             *)
Settled(x) == [x EXCEPT !.warmup = FALSE, !.endsPending = FALSE, !.pressed = {}]

LeadsTo(x, y) ==
  \E p \in Player :
    \/ \E d \in Deltas : /\ Settled(y) = Settled(Scored(x, p, d))
                         /\ Settled(y) # Settled(x)
    \/ Phase(x) = "serve_rally" /\ Settled(y) = Settled(ServeDecided(x, p))

(* Every match on the undo stack is one scoring event before the next, and *)
(* the top one event before the match as it stands: an undo takes back     *)
(* exactly the last event that scored, across set ends, changes of ends    *)
(* and the end of the match (push and takeBack, scorer.go).                *)
UndoTakesBackOneEvent ==
  LET line == Append(undo, m) IN
    \A i \in 1..Len(undo) : LeadsTo(line[i], line[i + 1])

(* An undo never leaves the players waiting for presses nobody knows they  *)
(* owe: it lands in the serve rally or in play, never in a warm-up or a    *)
(* change of ends half confirmed (confirm is deliberately not undoable).   *)
UndoLandsInPlay ==
  \A i \in 1..Len(undo) : Phase(undo[i]) \in {"serve_rally", "playing"}

(* A set in which a point has been applied closes the one before it for    *)
(* good, even once that point is itself undone (Undo's comment, push).     *)
ClosedSetsStayClosed == m.setIndex >= floor

(* Within a source's quiet period no event id is counted twice, whatever   *)
(* is undone, completed or restarted in between (accept, ADR-0002).        *)
CountedOnce == \A s \in Sources, id \in EventIds : taken[s][id] <= 1

PhasesAgree(x) ==
  /\ x.pressed # {} => Phase(x) \in {"warmup", "change_ends"}
  /\ x.pressed # Half
  /\ x.endsPending => /\ ChangeEnds /\ ~x.complete
                      /\ x.setIndex > 0 /\ x.points = Love
  /\ x.warmup \/ x.firstServer = None =>
       x.setIndex = 0 /\ x.points = Love /\ x.completed = <<>> /\ ~x.complete

(* Presses are pending only where they are awaited, never all of them; a   *)
(* change of ends is pending only at the start of a later set, and nothing *)
(* has been scored before the warm-up and the serve rally are over.        *)
PhasesExclusive == PhasesAgree(m)

-----------------------------------------------------------------------------
(* Action properties.                                                      *)

PointsPlayed(x) == x.points["a"] + x.points["b"]

(* After a point the serve passes exactly after every second point, and    *)
(* after every point once both players have reached deuce; the next set is *)
(* opened by the receiver of the last, or by its loser where the table     *)
(* plays it so (laws 2.13.3 and 2.13.6; serving and opener, scorer.go).    *)
ServeFollowsTheLaws ==
  [][/\ result'.kind = "point" /\ PointsPlayed(m') = PointsPlayed(m) + 1 =>
          (Serving(m') # Serving(m)) <=>
             \/ PointsPlayed(m') % 2 = 0
             \/ PointsPlayed(m') > 2 * (PointsPerSet - 1)
     /\ result'.kind = "set_won" /\ m'.setIndex = m.setIndex + 1 =>
          Serving(m') = IF SetOpener = "loser"
                        THEN Opponent(result'.side)
                        ELSE Opponent(Opener(m))
    ]_vars

=============================================================================
