------------------------------- MODULE Rules -------------------------------
(***************************************************************************)
(* The rules of one table tennis match as internal/scorer knows them: the  *)
(* value the scorer keeps, what is derived from it (phase, ends, serve,    *)
(* stake) and what one point, press or serve rally makes of it.  Nothing   *)
(* here is a step; Scorer turns these operators into actions.              *)
(*                                                                         *)
(* In every module, a definition X_Fault in front of a definition X is X   *)
(* with a plausible bug.  No action uses it: it is there to show which     *)
(* property notices that bug.                                              *)
(***************************************************************************)
EXTENDS Integers, Sequences

CONSTANTS
  BestOf,         \* sets at most; the match is won at BestOf \div 2 + 1
  PointsPerSet,   \* the score that takes a set, given a lead of two
  FirstServer,    \* Config.FirstServer after New, None when a rally decides
  Start,          \* "", "serve_rally" or "warmup"
  ChangeEnds,     \* whether the players change ends after every set
  SetOpener       \* "alternate" or "loser"

Player == {"a", "b"}
Half   == {"left", "right"}
None   == ""                \* the empty Player of the code

(* New refuses every other configuration, and fills in PlayerA where a     *)
(* match that starts with a point names no first server.                   *)
ASSUME RulesAssumption ==
  /\ BestOf \in Nat /\ BestOf % 2 = 1
  /\ PointsPerSet \in Nat /\ PointsPerSet >= 2
  /\ Start \in {"", "serve_rally", "warmup"}
  /\ FirstServer \in Player \cup {None}
  /\ Start = "serve_rally" => FirstServer = None
  /\ Start = "" => FirstServer # None
  /\ ChangeEnds \in BOOLEAN
  /\ SetOpener \in {"alternate", "loser"}

WinBy     == 2
SetsToWin == BestOf \div 2 + 1

Opponent(p)  == IF p = "a" THEN "b" ELSE "a"
OtherHalf(h) == IF h = "left" THEN "right" ELSE "left"

(* p after n changes between the two players. *)
Flip(p, n) == IF n % 2 = 1 THEN Opponent(p) ELSE p

Score == [Player -> Nat]
Love  == [p \in Player |-> 0]

(***************************************************************************)
(* The mutable core of a match: the struct match of the code.              *)
(***************************************************************************)
Match ==
  [points : Score, sets : Score, setIndex : Nat, completed : Seq(Score),
   complete : BOOLEAN, winner : Player \cup {None}, warmup : BOOLEAN,
   firstServer : Player \cup {None}, endsPending : BOOLEAN,
   pressed : SUBSET Half]

NewMatch ==
  [points |-> Love, sets |-> Love, setIndex |-> 0, completed |-> <<>>,
   complete |-> FALSE, winner |-> None, warmup |-> (Start = "warmup"),
   firstServer |-> FirstServer, endsPending |-> FALSE, pressed |-> {}]

Phase(x) ==
  CASE x.complete                                    -> "complete"
    [] ~x.complete /\ x.warmup                       -> "warmup"
    [] ~x.complete /\ ~x.warmup /\ x.firstServer = None -> "serve_rally"
    [] ~x.complete /\ ~x.warmup /\ x.firstServer # None /\ x.endsPending
                                                     -> "change_ends"
    [] OTHER                                         -> "playing"

-----------------------------------------------------------------------------
(* Ends: a starts at the left, and the players stand swapped in every      *)
(* second set of a match that changes ends.                                *)

Swapped(x) == ChangeEnds /\ x.setIndex % 2 = 1

PlayerAt(x, h) ==
  LET home == IF h = "left" THEN "a" ELSE "b"
  IN  IF Swapped(x) THEN Opponent(home) ELSE home

HalfOf(x, p) ==
  LET home == IF p = "a" THEN "left" ELSE "right"
  IN  IF Swapped(x) THEN OtherHalf(home) ELSE home

-----------------------------------------------------------------------------
(* The serve, derived from the first server, the set and the score.        *)

Opener(x) ==
  IF x.setIndex = 0
  THEN x.firstServer
  ELSE IF SetOpener = "loser"
       THEN LET prev == x.completed[x.setIndex]
            IN  IF prev["a"] < prev["b"] THEN "a" ELSE "b"
       ELSE Flip(x.firstServer, x.setIndex)

ServeChanges_WithoutDeuce(x) == (x.points["a"] + x.points["b"]) \div 2
ServeChanges(x) ==
  LET a     == x.points["a"]
      b     == x.points["b"]
      deuce == PointsPerSet - 1
  IN  IF a >= deuce /\ b >= deuce
      THEN deuce + (a + b - 2 * deuce)
      ELSE (a + b) \div 2

Serving(x) ==
  IF x.firstServer = None THEN None ELSE Flip(Opener(x), ServeChanges(x))

-----------------------------------------------------------------------------
(* Taking a set, and the match with it.                                    *)

Takes_ByOne(pts, p) == pts[p] >= PointsPerSet /\ pts[p] > pts[Opponent(p)]
Takes(pts, p) ==
  /\ pts[p] >= PointsPerSet
  /\ pts[p] - pts[Opponent(p)] >= WinBy

Stake(x, p) ==
  /\ Phase(x) = "playing"
  /\ x.points[p] + 1 >= PointsPerSet
  /\ x.points[p] + 1 - x.points[Opponent(p)] >= WinBy

MatchStake(x, p) == Stake(x, p) /\ x.sets[p] + 1 = SetsToWin

ChangedEnds(x) ==
  IF ChangeEnds THEN [x EXCEPT !.endsPending = TRUE, !.pressed = {}] ELSE x

(* The set goes to w at pts: the match is over, or the next set begins.    *)
SetWon(x, pts, w) ==
  LET y == [x EXCEPT !.points = pts, !.completed = Append(@, pts),
                     !.sets[w] = @ + 1]
  IN  IF y.sets[w] >= SetsToWin
      THEN [y EXCEPT !.complete = TRUE, !.winner = w]
      ELSE ChangedEnds([y EXCEPT !.setIndex = @ + 1, !.points = Love])

(* The points after an event for p; a score never drops below zero.        *)
PointsAfter(x, p, delta) ==
  [x.points EXCEPT ![p] = IF @ + delta < 0 THEN 0 ELSE @ + delta]

(* The match after an event that moved the points: the score, and not the  *)
(* sender, decides whose set it is.                                        *)
Scored(x, p, delta) ==
  LET pts == PointsAfter(x, p, delta)
  IN  IF Takes(pts, "a") THEN SetWon(x, pts, "a")
      ELSE IF Takes(pts, "b") THEN SetWon(x, pts, "b")
      ELSE [x EXCEPT !.points = pts]

(* A press during the warm-up or a change of ends; the second half to      *)
(* press ends the phase.                                                   *)
Confirmed(x, h) ==
  LET y == [x EXCEPT !.pressed = @ \cup {h}]
  IN  IF y.pressed # Half THEN y
      ELSE IF y.warmup THEN [y EXCEPT !.pressed = {}, !.warmup = FALSE]
      ELSE [y EXCEPT !.pressed = {}, !.endsPending = FALSE]

ServeDecided(x, p) == [x EXCEPT !.firstServer = p]

-----------------------------------------------------------------------------
(* What is said of such a step, and what an undo returns to.               *)

Kind == {None, "point", "set_won", "match_won", "undo", "confirmed",
         "warmup_over", "serve_decided", "ends_changed"}

ScoredKind(x, y) ==
  IF y.complete THEN "match_won"
  ELSE IF y.setIndex # x.setIndex THEN "set_won"
  ELSE "point"

SideOf(pts, p, delta) ==
  IF Takes(pts, "a") THEN "a"
  ELSE IF Takes(pts, "b") THEN "b"
  ELSE IF delta > 0 THEN p ELSE None

BothPressed(x, h) == x.pressed \cup {h} = Half

ConfirmedKind(x, h) ==
  IF ~BothPressed(x, h) THEN "confirmed"
  ELSE IF x.warmup THEN "warmup_over" ELSE "ends_changed"

(* The first point of a set closes the one before.                         *)
Stacked(stack, x) ==
  IF stack # <<>> /\ stack[Len(stack)].setIndex # x.setIndex
  THEN <<x>>
  ELSE Append(stack, x)
=============================================================================
