--------------------------- MODULE ScoringProofs ---------------------------
(***************************************************************************)
(* Theorems about Scorer, for every format, every set of senders and every *)
(* bound; and about Chain, whose clients score into one zaehlwerk, for all *)
(* pages, settings and bounds.  The two share no state.                    *)
(***************************************************************************)
EXTENDS Scorer, Chain, SequenceTheorems, FiniteSetTheorems, WellFoundedInduction,
        NaturalsInduction, TLAPS

(* What the rules make of a match is again a match.                        *)
LEMMA PointsAfterType ==
  ASSUME NEW x \in Match, NEW p \in Player, NEW d \in Deltas
  PROVE  PointsAfter(x, p, d) \in Score
BY ScorerAssumption DEF PointsAfter, Match, Score, Player

LEMMA ChangedEndsType ==
  ASSUME NEW x \in Match
  PROVE  ChangedEnds(x) \in Match
BY DEF ChangedEnds, Match

LEMMA SetWonType ==
  ASSUME NEW x \in Match, NEW pts \in Score, NEW w \in Player
  PROVE  SetWon(x, pts, w) \in Match
<1> DEFINE y == [x EXCEPT !.points = pts, !.completed = Append(@, pts),
                          !.sets[w] = @ + 1]
<1>1. [x.sets EXCEPT ![w] = @ + 1] \in Score
  BY DEF Match, Score
<1>2. Append(x.completed, pts) \in Seq(Score)
  BY DEF Match
<1>3. y \in Match
  BY <1>1, <1>2 DEF Match
<1>4. [y EXCEPT !.complete = TRUE, !.winner = w] \in Match
  BY <1>3 DEF Match
<1> HIDE DEF y
<1>5. Love \in Score
  BY DEF Love, Score
<1>6. [y EXCEPT !.setIndex = @ + 1, !.points = Love] \in Match
  <2>1. y.setIndex + 1 \in Nat
    BY <1>3 DEF Match
  <2>2. QED
    BY <1>3, <1>5, <2>1 DEF Match
<1>7. QED
  BY <1>4, <1>6, ChangedEndsType DEF SetWon, y

LEMMA ScoredType ==
  ASSUME NEW x \in Match, NEW p \in Player, NEW d \in Deltas
  PROVE  Scored(x, p, d) \in Match
<1>1. PointsAfter(x, p, d) \in Score
  BY PointsAfterType
<1>2. [x EXCEPT !.points = PointsAfter(x, p, d)] \in Match
  BY <1>1 DEF Match
<1>3. QED
  BY <1>1, <1>2, SetWonType DEF Scored, Player

LEMMA ConfirmedType ==
  ASSUME NEW x \in Match, NEW h \in Half
  PROVE  Confirmed(x, h) \in Match
BY DEF Confirmed, Match

LEMMA NewMatchType == NewMatch \in Match
<1>1. Love \in Score
  BY DEF Love, Score
<1>2. <<>> \in Seq(Score)
  OBVIOUS
<1>3. (Start = "warmup") \in BOOLEAN
  OBVIOUS
<1>4. FirstServer \in Player \cup {None}
  BY RulesAssumption
<1>5. QED
  BY <1>1, <1>2, <1>3, <1>4 DEF NewMatch, Match

LEMMA PushType ==
  ASSUME m \in Match, undo \in Seq(Match)
  PROVE  Push \in Seq(Match)
BY DEF Push, Stacked

LEMMA ResolveType ==
  ASSUME NEW t \in Player \cup Half
  PROVE  Resolve(t).player \in Player /\ Resolve(t).half \in Half
BY DEF Resolve, PlayerAt, HalfOf, Opponent, OtherHalf, Player, Half

-----------------------------------------------------------------------------
(* The calls keep their types.  What an event does to the match is separate *)
(* from what it does to the watermarks, so the two have a lemma each.      *)

MatchTypeOK ==
  /\ m \in Match
  /\ undo \in Seq(Match)
  /\ result \in [outcome : Outcome, kind : Kind, side : Player \cup {None}]
  /\ floor \in Nat

SeenTypeOK ==
  /\ seen \in [Sources -> [high : EventIds \cup {Unseen},
                           silent : 0..RestartQuietPeriod]]
  /\ taken \in [Sources -> [EventIds -> Nat]]

LEMMA RecordType ==
  ASSUME SeenTypeOK, NEW s \in Sources, NEW id \in EventIds, Record(s, id)
  PROVE  SeenTypeOK'
BY ScorerAssumption DEF SeenTypeOK, Record

LEMMA TickType ==
  ASSUME SeenTypeOK, Tick
  PROVE  SeenTypeOK'
<1>1. seen' \in [Sources -> [high : EventIds \cup {Unseen},
                            silent : 0..RestartQuietPeriod]]
  BY ScorerAssumption DEF SeenTypeOK, Tick, Unseen
<1>2. taken' \in [Sources -> [EventIds -> Nat]]
  BY DEF SeenTypeOK, Tick
<1>3. QED
  BY <1>1, <1>2 DEF SeenTypeOK

LEMMA NothingType ==
  ASSUME MatchTypeOK, Nothing
  PROVE  MatchTypeOK'
BY DEF MatchTypeOK, Nothing, Answer, Outcome, Kind

LEMMA ConfirmType ==
  ASSUME MatchTypeOK, NEW h \in Half, NEW p \in Player, NEW d \in Deltas,
         Confirm(h, p, d)
  PROVE  MatchTypeOK'
<1>1. CASE d <= 0 \/ h \in m.pressed
  BY <1>1, NothingType DEF Confirm
<1>2. CASE ~(d <= 0 \/ h \in m.pressed)
  <2>1. m' \in Match
    BY <1>2, ConfirmedType DEF Confirm, MatchTypeOK
  <2>2. undo' = undo /\ floor' = floor
    BY <1>2 DEF Confirm
  <2>3. result' \in [outcome : Outcome, kind : Kind, side : Player \cup {None}]
    BY <1>2 DEF Confirm, ConfirmedKind, Answer, Outcome, Kind
  <2>4. QED
    BY <2>1, <2>2, <2>3 DEF MatchTypeOK
<1>3. QED
  BY <1>1, <1>2

LEMMA DecideServeType ==
  ASSUME MatchTypeOK, NEW p \in Player, NEW d \in Deltas, DecideServe(p, d)
  PROVE  MatchTypeOK'
<1>1. CASE d <= 0
  BY <1>1, NothingType DEF DecideServe
<1>2. CASE ~(d <= 0)
  <2>1. m' \in Match
    BY <1>2 DEF DecideServe, ServeDecided, Match, MatchTypeOK
  <2>2. undo' \in Seq(Match)
    BY <1>2, PushType DEF DecideServe, MatchTypeOK
  <2>3. QED
    BY <1>2, <2>1, <2>2 DEF DecideServe, Answer, Outcome, Kind, MatchTypeOK
<1>3. QED
  BY <1>1, <1>2

LEMMA PointType ==
  ASSUME MatchTypeOK, NEW p \in Player, NEW d \in Deltas, Point(p, d)
  PROVE  MatchTypeOK'
<1> DEFINE pts == PointsAfter(m, p, d)
<1>1. CASE pts = m.points
  BY <1>1, NothingType DEF Point
<1>2. CASE pts # m.points
  <2>1. m' = Scored(m, p, d) /\ undo' = Push
    BY <1>2 DEF Point
  <2>2. m' \in Match /\ undo' \in Seq(Match)
    BY <2>1, ScoredType, PushType DEF MatchTypeOK
  <2>3. floor' \in Nat
    BY <1>2 DEF Point, MatchTypeOK, Match
  <2>4. result' \in [outcome : Outcome, kind : Kind, side : Player \cup {None}]
    BY <1>2 DEF Point, ScoredKind, Answer, Outcome, Kind, SideOf, Player
  <2>5. QED
    BY <2>2, <2>3, <2>4 DEF MatchTypeOK
<1>3. QED
  BY <1>1, <1>2

LEMMA TakeBackType ==
  ASSUME MatchTypeOK, undo # <<>>, TakeBack
  PROVE  MatchTypeOK'
<1>1. Len(undo) \in Nat \ {0}
  BY DEF MatchTypeOK
<1>2. undo[Len(undo)] \in Match
  BY <1>1 DEF MatchTypeOK
<1>3. SubSeq(undo, 1, Len(undo) - 1) \in Seq(Match)
  BY <1>1 DEF MatchTypeOK
<1>4. QED
  BY <1>2, <1>3 DEF MatchTypeOK, TakeBack, Answer, Outcome, Kind

LEMMA DiscardType ==
  ASSUME TypeOK, NEW s \in Sources, NEW id \in EventIds, Discard(s, id)
  PROVE  TypeOK'
<1>1. seen' \in [Sources -> [high : EventIds \cup {Unseen},
                            silent : 0..RestartQuietPeriod]]
  <2>1. 0 \in 0..RestartQuietPeriod
    BY ScorerAssumption
  <2>2. [seen[s] EXCEPT !.silent = 0] \in [high : EventIds \cup {Unseen},
                                         silent : 0..RestartQuietPeriod]
    BY <2>1 DEF TypeOK
  <2>3. QED
    BY <2>2 DEF TypeOK, Discard
<1>2. result' \in [outcome : Outcome, kind : Kind, side : Player \cup {None}]
  BY DEF Discard, Outcome, Kind
<1>3. QED
  BY <1>1, <1>2 DEF TypeOK, Discard

LEMMA ApplyType ==
  ASSUME TypeOK, NEW s \in Sources, NEW id \in EventIds,
         NEW t \in Player \cup Half, NEW d \in Deltas, Apply(s, id, t, d)
  PROVE  TypeOK'
<1>1. CASE Discard(s, id)
  BY <1>1, DiscardType
<1>2. CASE IsNew(s, id) /\ Record(s, id) /\ ~Discard(s, id)
  <2> DEFINE at == Resolve(t)
  <2>1. at.player \in Player /\ at.half \in Half
    BY ResolveType
  <2>2. SeenTypeOK'
    BY <1>2, RecordType DEF TypeOK, MatchTypeOK, SeenTypeOK
  <2>3. CASE Phase(m) \in {"warmup", "change_ends"}
    <3>1. Confirm(at.half, at.player, d)
      BY <1>2, <2>3 DEF Apply
    <3>2. QED
      BY <2>1, <2>2, <3>1, ConfirmType DEF TypeOK, MatchTypeOK, SeenTypeOK
  <2>4. CASE Phase(m) = "serve_rally"
    <3>1. DecideServe(at.player, d)
      BY <1>2, <2>4 DEF Apply
    <3>2. QED
      BY <2>1, <2>2, <3>1, DecideServeType DEF TypeOK, MatchTypeOK, SeenTypeOK
  <2>5. CASE Phase(m) = "playing"
    <3>1. Point(at.player, d)
      BY <1>2, <2>5 DEF Apply
    <3>2. QED
      BY <2>1, <2>2, <3>1, PointType DEF TypeOK, MatchTypeOK, SeenTypeOK
  <2>6. Phase(m) \in {"warmup", "change_ends", "serve_rally", "playing"}
    BY DEF Apply, Phase
  <2>7. QED
    BY <2>3, <2>4, <2>5, <2>6
<1>3. QED
  BY <1>1, <1>2 DEF Apply

LEMMA UndoType ==
  ASSUME TypeOK, Undo
  PROVE  TypeOK'
<1>1. CASE undo = <<>>
  BY <1>1 DEF Undo, Answer, TypeOK, Outcome, Kind
<1>2. CASE undo # <<>>
  <2>1. MatchTypeOK'
    BY <1>2, TakeBackType DEF Undo, TypeOK, MatchTypeOK, SeenTypeOK
  <2>2. SeenTypeOK'
    BY <1>2 DEF Undo, TypeOK, SeenTypeOK
  <2>3. QED
    BY <2>1, <2>2 DEF TypeOK, MatchTypeOK, SeenTypeOK
<1>3. QED
  BY <1>1, <1>2

LEMMA UndoEventType ==
  ASSUME TypeOK, NEW s \in Sources, NEW id \in EventIds, UndoEvent(s, id)
  PROVE  TypeOK'
<1>1. CASE Discard(s, id)
  BY <1>1, DiscardType
<1>2. CASE Record(s, id) /\ undo = <<>> /\ Nothing
  BY <1>2, RecordType, NothingType DEF TypeOK, MatchTypeOK, SeenTypeOK
<1>3. CASE Record(s, id) /\ undo # <<>> /\ TakeBack
  BY <1>3, RecordType, TakeBackType DEF TypeOK, MatchTypeOK, SeenTypeOK
<1>4. QED
  BY <1>1, <1>2, <1>3 DEF UndoEvent

(* Type correctness: whatever events, undos and silences the scorer sees,  *)
(* its state stays the state of a table tennis match (struct match).       *)
THEOREM ScorerTypeOK == Spec => []TypeOK
<1>1. Init => TypeOK
  BY NewMatchType, ScorerAssumption DEF Init, TypeOK, Outcome, Kind
<1>2. TypeOK /\ [Next]_vars => TypeOK'
  <2> SUFFICES ASSUME TypeOK, [Next]_vars PROVE TypeOK'
    OBVIOUS
  <2>1. CASE \E s \in Sources, id \in EventIds :
               \E t \in Player \cup Half, d \in Deltas : Apply(s, id, t, d)
    BY <2>1, ApplyType
  <2>2. CASE \E s \in Sources, id \in EventIds : UndoEvent(s, id)
    BY <2>2, UndoEventType
  <2>3. CASE ApplyToComplete
    BY <2>3 DEF ApplyToComplete, Answer, TypeOK, Outcome, Kind
  <2>4. CASE Undo
    BY <2>4, UndoType
  <2>5. CASE Tick
    <3>1. MatchTypeOK'
      BY <2>5 DEF Tick, TypeOK, MatchTypeOK
    <3>2. QED
      BY <2>5, <3>1, TickType DEF TypeOK, MatchTypeOK, SeenTypeOK
  <2>6. CASE UNCHANGED vars
    BY <2>6 DEF vars, TypeOK
  <2>7. QED
    BY <2>1, <2>2, <2>3, <2>4, <2>5, <2>6 DEF Next
<1>3. QED
  BY <1>1, <1>2, PTL DEF Spec

-----------------------------------------------------------------------------
(* Legal scores.                                                           *)

LEMMA LoveIsUndecided == Love \in Score /\ \A p \in Player : ~Takes(Love, p)
<1>1. Love \in Score /\ \A p \in Player : Love[p] = 0
  BY DEF Love, Score
<1>2. ~(0 >= PointsPerSet)
  <2>1. PointsPerSet \in Nat /\ PointsPerSet >= 2
    BY RulesAssumption
  <2>2. QED
    BY <2>1
<1>3. QED
  BY <1>1, <1>2 DEF Takes

(* One event on an undecided score ends a set, if at all, at a final score: *)
(* the lead was at most one, or the winner had not yet reached PointsPerSet.*)
LEMMA DecidedIsFinal ==
  ASSUME NEW x \in Match, NEW p \in Player, NEW d \in Deltas, NEW w \in Player,
         \A q \in Player : ~Takes(x.points, q),
         Takes(PointsAfter(x, p, d), w)
  PROVE  FinalScore(PointsAfter(x, p, d))
<1> DEFINE old == x.points
           pts == PointsAfter(x, p, d)
<1>1. old \in Score /\ pts \in Score
  BY PointsAfterType DEF Match
<1>2. d \in {-1, 0, 1} /\ PointsPerSet \in Nat /\ PointsPerSet >= 2
  BY ScorerAssumption, RulesAssumption
<1>3. Opponent(w) \in Player /\ Opponent(w) # w
  BY DEF Opponent, Player
<1>4. /\ pts[p] = IF old[p] + d < 0 THEN 0 ELSE old[p] + d
      /\ \A q \in Player : q # p => pts[q] = old[q]
  BY <1>1 DEF PointsAfter, Score
<1>5. /\ pts[w] \in Nat /\ pts[Opponent(w)] \in Nat
      /\ old[w] \in Nat /\ old[Opponent(w)] \in Nat
  BY <1>1, <1>3 DEF Score
<1>6. pts[w] >= PointsPerSet /\ pts[w] - pts[Opponent(w)] >= 2
  BY DEF Takes, WinBy
<1>7. ~(old[w] >= PointsPerSet /\ old[w] - old[Opponent(w)] >= 2)
  BY DEF Takes, WinBy
<1> HIDE DEF old, pts
<1>8. \/ pts[w] = PointsPerSet /\ pts[Opponent(w)] + 2 <= PointsPerSet
      \/ pts[w] > PointsPerSet /\ pts[Opponent(w)] + 2 = pts[w]
  <2>1. CASE w = p
    <3>1. pts[Opponent(w)] = old[Opponent(w)]
      BY <2>1, <1>3, <1>4
    <3>2. pts[w] = old[w] + 1
      BY <2>1, <3>1, <1>2, <1>4, <1>5, <1>6, <1>7
    <3>3. QED
      BY <3>1, <3>2, <1>2, <1>5, <1>6, <1>7
  <2>2. CASE w # p
    <3>1. pts[w] = old[w]
      BY <2>2, <1>4
    <3>2. p = Opponent(w)
      BY <2>2 DEF Opponent, Player
    <3>3. pts[Opponent(w)] = old[Opponent(w)] - 1
      BY <3>1, <3>2, <1>2, <1>4, <1>5, <1>6, <1>7
    <3>4. QED
      BY <3>1, <3>3, <1>2, <1>5, <1>6, <1>7
  <2>3. QED
    BY <2>1, <2>2
<1>9. QED
  BY <1>8 DEF FinalScore, WinBy, pts

(* The fields of a match after a set.                                      *)
LEMMA SetWonFields ==
  ASSUME NEW x \in Match, NEW pts \in Score, NEW w \in Player
  PROVE  LET z == SetWon(x, pts, w) IN
         /\ z.completed = Append(x.completed, pts)
         /\ z.warmup = x.warmup /\ z.firstServer = x.firstServer
         /\ \/ z.complete /\ z.points = pts /\ z.setIndex = x.setIndex
               /\ z.pressed = x.pressed /\ z.endsPending = x.endsPending
            \/ z.complete = x.complete /\ z.points = Love
               /\ z.setIndex = x.setIndex + 1
               /\ IF ChangeEnds THEN z.endsPending /\ z.pressed = {}
                  ELSE z.endsPending = x.endsPending /\ z.pressed = x.pressed
<1> DEFINE y == [x EXCEPT !.points = pts, !.completed = Append(@, pts),
                          !.sets[w] = @ + 1]
           n == [y EXCEPT !.setIndex = @ + 1, !.points = Love]
<1>1. /\ y.completed = Append(x.completed, pts) /\ y.points = pts
      /\ y.warmup = x.warmup /\ y.firstServer = x.firstServer
      /\ y.complete = x.complete /\ y.setIndex = x.setIndex
      /\ y.pressed = x.pressed /\ y.endsPending = x.endsPending
      /\ y \in [DOMAIN x -> {y[k] : k \in DOMAIN x}]
      /\ DOMAIN x = {"points", "sets", "setIndex", "completed", "complete",
                     "winner", "warmup", "firstServer", "endsPending", "pressed"}
  BY DEF Match
<1> HIDE DEF y
<1>2. CASE y.sets[w] >= SetsToWin
  <2>1. SetWon(x, pts, w) = [y EXCEPT !.complete = TRUE, !.winner = w]
    BY <1>2 DEF SetWon, y
  <2>2. QED
    BY <1>1, <2>1
<1>3. CASE ~(y.sets[w] >= SetsToWin)
  <2>1. SetWon(x, pts, w) = ChangedEnds(n)
    BY <1>3 DEF SetWon, y
  <2>2. /\ n.completed = Append(x.completed, pts) /\ n.points = Love
        /\ n.warmup = x.warmup /\ n.firstServer = x.firstServer
        /\ n.complete = x.complete /\ n.setIndex = x.setIndex + 1
        /\ n.pressed = x.pressed /\ n.endsPending = x.endsPending
        /\ DOMAIN n = DOMAIN x
    BY <1>1
  <2> HIDE DEF n
  <2>3. CASE ChangeEnds
    BY <2>1, <2>2, <2>3, <1>1 DEF ChangedEnds
  <2>4. CASE ~ChangeEnds
    BY <2>1, <2>2, <2>4 DEF ChangedEnds
  <2>5. QED
    BY <2>3, <2>4
<1>4. QED
  BY <1>2, <1>3

LEMMA SetWonLegal ==
  ASSUME NEW x \in Match, NEW pts \in Score, NEW w \in Player,
         LegalScores(x), ~x.complete, FinalScore(pts)
  PROVE  LegalScores(SetWon(x, pts, w))
<1> DEFINE z == SetWon(x, pts, w)
<1>1. x.completed \in Seq(Score)
  BY DEF Match
<1>2. /\ z.completed = Append(x.completed, pts)
      /\ \/ z.complete /\ z.points = pts
         \/ ~z.complete /\ z.points = Love
  BY SetWonFields
<1> HIDE DEF z
<1>3. \A i \in 1..Len(z.completed) : FinalScore(z.completed[i])
  <2> SUFFICES ASSUME NEW i \in 1..(Len(x.completed) + 1)
               PROVE  FinalScore(Append(x.completed, pts)[i])
    BY <1>1, <1>2
  <2>1. CASE i = Len(x.completed) + 1
    BY <2>1, <1>1
  <2>2. CASE i \in 1..Len(x.completed)
    BY <2>2, <1>1 DEF LegalScores
  <2>3. QED
    BY <2>1, <2>2, <1>1
<1>4. z.complete => z.completed # <<>> /\ z.points = z.completed[Len(z.completed)]
  BY <1>1, <1>2
<1>5. ~z.complete => \A p \in Player : ~Takes(z.points, p)
  BY <1>2, LoveIsUndecided
<1>6. QED
  BY <1>3, <1>4, <1>5 DEF LegalScores, z

LEMMA ScoredLegal ==
  ASSUME NEW x \in Match, NEW p \in Player, NEW d \in Deltas,
         LegalScores(x), ~x.complete
  PROVE  LegalScores(Scored(x, p, d))
<1> DEFINE pts == PointsAfter(x, p, d)
<1>1. pts \in Score
  BY PointsAfterType
<1>2. \A q \in Player : ~Takes(x.points, q)
  BY DEF LegalScores
<1>3. CASE \E w \in Player : Takes(pts, w)
  <2>1. FinalScore(pts)
    BY <1>3, <1>2, DecidedIsFinal
  <2>2. \E w \in Player : Scored(x, p, d) = SetWon(x, pts, w)
    BY <1>3 DEF Scored, Player
  <2>3. QED
    BY <1>1, <2>1, <2>2, SetWonLegal
<1>4. CASE \A w \in Player : ~Takes(pts, w)
  <2>1. Scored(x, p, d) = [x EXCEPT !.points = pts]
    BY <1>4 DEF Scored, Player
  <2>2. /\ Scored(x, p, d).completed = x.completed
        /\ Scored(x, p, d).complete = x.complete
        /\ Scored(x, p, d).points = pts
    BY <2>1 DEF Match
  <2>3. QED
    BY <1>4, <2>2 DEF LegalScores
<1>5. QED
  BY <1>3, <1>4

-----------------------------------------------------------------------------
(* The inductive invariant: legal scores and phases that agree, for the    *)
(* match and for every match an undo may bring back, which was always one  *)
(* that scores: in play or in the serve rally, no press outstanding.       *)

Scoring(x) ==
  /\ Phase(x) \in {"serve_rally", "playing"}
  /\ x.pressed = {} /\ ~x.endsPending

Sound(x) == LegalScores(x) /\ PhasesAgree(x)

ScoreInv ==
  /\ Sound(m)
  /\ \A i \in 1..Len(undo) : Sound(undo[i]) /\ Scoring(undo[i])

LEMMA NewMatchSound == Sound(NewMatch)
<1>1. LegalScores(NewMatch)
  BY LoveIsUndecided DEF LegalScores, NewMatch
<1>2. PhasesAgree(NewMatch)
  BY DEF PhasesAgree, NewMatch, Half
<1>3. QED
  BY <1>1, <1>2 DEF Sound

LEMMA PlayingFields ==
  ASSUME NEW x \in Match, PhasesAgree(x), Phase(x) \in {"serve_rally", "playing"}
  PROVE  /\ ~x.complete /\ ~x.warmup /\ x.pressed = {}
         /\ ~x.endsPending /\ Scoring(x)
         /\ Phase(x) = "playing" => x.firstServer # None
<1>1. ~x.complete /\ ~x.warmup
  BY DEF Phase, Match
<1>2. x.pressed = {}
  BY DEF PhasesAgree
<1>3. ~x.endsPending
  BY <1>1 DEF Phase, PhasesAgree, Match
<1>4. QED
  BY <1>1, <1>2, <1>3 DEF Scoring, Phase

LEMMA ScoredSound ==
  ASSUME NEW x \in Match, NEW p \in Player, NEW d \in Deltas,
         Sound(x), Phase(x) = "playing"
  PROVE  Sound(Scored(x, p, d))
<1> DEFINE pts == PointsAfter(x, p, d)
           z   == Scored(x, p, d)
<1>1. /\ ~x.complete /\ ~x.warmup /\ x.pressed = {} /\ ~x.endsPending
      /\ x.firstServer # None
  BY PlayingFields DEF Sound
<1>2. pts \in Score
  BY PointsAfterType
<1>3. CASE \E w \in Player : z = SetWon(x, pts, w)
  <2>1. PICK w \in Player : z = SetWon(x, pts, w)
    BY <1>3
  <2>2. /\ z.warmup = x.warmup /\ z.firstServer = x.firstServer
        /\ z.pressed = {}
        /\ z.endsPending => ChangeEnds /\ ~z.complete /\ z.points = Love
                            /\ z.setIndex = x.setIndex + 1
    BY <1>1, <1>2, <2>1, SetWonFields
  <2>3. x.setIndex + 1 > 0
    BY DEF Match
  <2>4. PhasesAgree(z)
    BY <1>1, <2>2, <2>3 DEF PhasesAgree, Half
  <2>5. QED
    BY <1>1, <2>4, ScoredLegal DEF Sound
<1>4. CASE z = [x EXCEPT !.points = pts]
  <2>1. /\ z.warmup = x.warmup /\ z.firstServer = x.firstServer
        /\ z.pressed = {} /\ ~z.endsPending
    BY <1>1, <1>4 DEF Match
  <2>2. PhasesAgree(z)
    BY <1>1, <2>1 DEF PhasesAgree, Half
  <2>3. QED
    BY <1>1, <2>2, ScoredLegal DEF Sound
<1>5. QED
  BY <1>3, <1>4 DEF Scored, Player

LEMMA ServeDecidedSound ==
  ASSUME NEW x \in Match, NEW p \in Player, Sound(x), Phase(x) = "serve_rally"
  PROVE  Sound(ServeDecided(x, p))
<1> DEFINE z == ServeDecided(x, p)
<1>1. ~x.complete /\ ~x.warmup /\ x.pressed = {} /\ ~x.endsPending
  BY PlayingFields DEF Sound
<1>2. /\ z.points = x.points /\ z.completed = x.completed
      /\ z.complete = x.complete /\ z.warmup = x.warmup
      /\ z.firstServer = p /\ z.pressed = x.pressed
      /\ z.endsPending = x.endsPending
  BY DEF ServeDecided, Match
<1>3. p # None
  BY DEF Player, None
<1>4. QED
  BY <1>1, <1>2, <1>3 DEF Sound, LegalScores, PhasesAgree, Half

LEMMA ConfirmedSound ==
  ASSUME NEW x \in Match, NEW h \in Half, Sound(x),
         Phase(x) \in {"warmup", "change_ends"}
  PROVE  Sound(Confirmed(x, h))
<1> DEFINE z == Confirmed(x, h)
<1>1. /\ z.points = x.points /\ z.completed = x.completed
      /\ z.complete = x.complete /\ z.firstServer = x.firstServer
      /\ z.setIndex = x.setIndex
  BY DEF Confirmed, Match
<1>2. LegalScores(z)
  BY <1>1 DEF Sound, LegalScores
<1>3. CASE x.pressed \cup {h} # Half
  <2>1. /\ z.pressed = x.pressed \cup {h} /\ z.warmup = x.warmup
        /\ z.endsPending = x.endsPending
    BY <1>3 DEF Confirmed, Match
  <2>2. Phase(z) = Phase(x)
    BY <1>1, <2>1 DEF Phase
  <2>3. QED
    BY <1>1, <1>2, <1>3, <2>1, <2>2 DEF Sound, PhasesAgree
<1>4. CASE x.pressed \cup {h} = Half
  <2>1. /\ z.pressed = {}
        /\ IF x.warmup THEN ~z.warmup /\ z.endsPending = x.endsPending
           ELSE ~z.endsPending /\ z.warmup = x.warmup
    BY <1>4 DEF Confirmed, Match
  <2>2. QED
    BY <1>1, <1>2, <2>1 DEF Sound, PhasesAgree, Half
<1>5. QED
  BY <1>3, <1>4

(* A push adds only the match as it stands to what the stack held.         *)
LEMMA PushElements ==
  ASSUME m \in Match, undo \in Seq(Match)
  PROVE  /\ Push \in Seq(Match) /\ Len(Push) \in Nat \ {0}
         /\ Push[Len(Push)] = m
         /\ \/ Push = <<m>>
            \/ Push = Append(undo, m)
         /\ \A i \in 1..Len(Push) :
              Push[i] = m \/ \E j \in 1..Len(undo) : Push[i] = undo[j]
<1>1. CASE Push = <<m>>
  BY <1>1
<1>2. CASE Push = Append(undo, m)
  <2>1. \A i \in 1..Len(undo) : Append(undo, m)[i] = undo[i]
    OBVIOUS
  <2>2. Len(Append(undo, m)) = Len(undo) + 1
        /\ Append(undo, m)[Len(undo) + 1] = m
    OBVIOUS
  <2>3. QED
    BY <1>2, <2>1, <2>2
<1>3. QED
  BY <1>1, <1>2 DEF Push, Stacked

LEMMA PushScoreInv ==
  ASSUME TypeOK, ScoreInv, Phase(m) \in {"serve_rally", "playing"},
         undo' = Push, Sound(m')
  PROVE  ScoreInv'
<1>1. Scoring(m)
  BY PlayingFields DEF ScoreInv, Sound, TypeOK
<1>2. \A i \in 1..Len(Push) : Sound(Push[i]) /\ Scoring(Push[i])
  BY <1>1, PushElements DEF ScoreInv, TypeOK
<1>3. \A i \in 1..Len(undo') : Sound(undo'[i]) /\ Scoring(undo'[i])
  BY <1>2
<1>4. QED
  BY <1>3 DEF ScoreInv

(* A take-back removes the top of the stack and makes it the match.        *)
LEMMA TakeBackElements ==
  ASSUME undo \in Seq(Match), undo # <<>>, TakeBack
  PROVE  /\ Len(undo) \in Nat \ {0}
         /\ m' = undo[Len(undo)]
         /\ Len(undo') = Len(undo) - 1
         /\ \A i \in 1..(Len(undo) - 1) : undo'[i] = undo[i]
<1> DEFINE n == Len(undo) - 1
<1>1. Len(undo) \in Nat \ {0} /\ n \in Nat /\ \A i \in 1..n : undo[i] \in Match
  OBVIOUS
<1>2. undo' = SubSeq(undo, 1, n) /\ m' = undo[Len(undo)]
  BY DEF TakeBack
<1> HIDE DEF n
<1>3. /\ Len(SubSeq(undo, 1, n)) = IF 1 <= n THEN n - 1 + 1 ELSE 0
      /\ \A i \in 1..(n - 1 + 1) : SubSeq(undo, 1, n)[i] = undo[1 + i - 1]
  BY <1>1, SubSeqProperties, Z3
<1>4. Len(undo') = n /\ \A i \in 1..n : undo'[i] = undo[i]
  BY <1>1, <1>2, <1>3
<1>5. QED
  BY <1>1, <1>2, <1>4 DEF n

LEMMA TakeBackScoreInv ==
  ASSUME TypeOK, ScoreInv, undo # <<>>, TakeBack
  PROVE  ScoreInv'
<1>1. Len(undo) \in 1..Len(undo) /\ Len(undo) - 1 \in Nat
  BY DEF TypeOK
<1>2. /\ Len(undo') = Len(undo) - 1
      /\ \A i \in 1..(Len(undo) - 1) : undo'[i] = undo[i]
  BY TakeBackElements DEF TypeOK
<1>3. Sound(m')
  BY <1>1 DEF TakeBack, ScoreInv
<1>4. \A i \in 1..Len(undo') : Sound(undo'[i]) /\ Scoring(undo'[i])
  BY <1>1, <1>2 DEF ScoreInv
<1>5. QED
  BY <1>3, <1>4 DEF ScoreInv

LEMMA ApplyScoreInv ==
  ASSUME TypeOK, ScoreInv, NEW s \in Sources, NEW id \in EventIds,
         NEW t \in Player \cup Half, NEW d \in Deltas, Apply(s, id, t, d)
  PROVE  ScoreInv'
<1> DEFINE at == Resolve(t)
<1>1. at.player \in Player /\ at.half \in Half
  BY ResolveType
<1>2. m \in Match /\ Sound(m)
  BY DEF TypeOK, ScoreInv
<1>3. CASE m' = m /\ undo' = undo
  BY <1>3 DEF ScoreInv
<1>4. CASE Phase(m) \in {"warmup", "change_ends"} /\ ~Discard(s, id)
  <2>1. Confirm(at.half, at.player, d)
    BY <1>4 DEF Apply
  <2>2. CASE m' = Confirmed(m, at.half) /\ undo' = undo
    <3>1. Sound(m')
      BY <1>1, <1>2, <1>4, <2>2, ConfirmedSound
    <3>2. QED
      BY <3>1, <2>2 DEF ScoreInv
  <2>3. QED
    BY <1>3, <2>1, <2>2 DEF Confirm, Nothing
<1>5. CASE Phase(m) = "serve_rally" /\ ~Discard(s, id)
  <2>1. DecideServe(at.player, d)
    BY <1>5 DEF Apply
  <2>2. CASE m' = ServeDecided(m, at.player) /\ undo' = Push
    <3>1. Sound(m')
      BY <1>1, <1>2, <1>5, <2>2, ServeDecidedSound
    <3>2. QED
      BY <1>5, <2>2, <3>1, PushScoreInv
  <2>3. QED
    BY <1>3, <2>1, <2>2 DEF DecideServe, Nothing
<1>6. CASE Phase(m) = "playing" /\ ~Discard(s, id)
  <2>1. Point(at.player, d)
    BY <1>6 DEF Apply
  <2>2. CASE m' = Scored(m, at.player, d) /\ undo' = Push
    <3>1. Sound(m')
      BY <1>1, <1>2, <1>6, <2>2, ScoredSound
    <3>2. QED
      BY <1>6, <2>2, <3>1, PushScoreInv
  <2>3. QED
    BY <1>3, <2>1, <2>2 DEF Point, Nothing
<1>7. CASE Discard(s, id)
  BY <1>3, <1>7 DEF Discard
<1>8. Phase(m) \in {"warmup", "change_ends", "serve_rally", "playing"}
  BY DEF Apply, Phase
<1>9. QED
  BY <1>4, <1>5, <1>6, <1>7, <1>8

LEMMA ScoreInvHolds == Spec => []ScoreInv
<1>1. Init => ScoreInv
  BY NewMatchSound DEF Init, ScoreInv
<1>2. TypeOK /\ ScoreInv /\ [Next]_vars => ScoreInv'
  <2> SUFFICES ASSUME TypeOK, ScoreInv, [Next]_vars PROVE ScoreInv'
    OBVIOUS
  <2>1. CASE \E s \in Sources, id \in EventIds :
               \E t \in Player \cup Half, d \in Deltas : Apply(s, id, t, d)
    BY <2>1, ApplyScoreInv
  <2>2. CASE m' = m /\ undo' = undo
    BY <2>2 DEF ScoreInv
  <2>3. CASE \E s \in Sources, id \in EventIds : UndoEvent(s, id)
    BY <2>2, <2>3, TakeBackScoreInv DEF UndoEvent, Discard, Nothing
  <2>4. CASE Undo
    BY <2>2, <2>4, TakeBackScoreInv DEF Undo
  <2>5. CASE ApplyToComplete \/ Tick \/ UNCHANGED vars
    BY <2>2, <2>5 DEF ApplyToComplete, Tick, vars
  <2>6. QED
    BY <2>1, <2>3, <2>4, <2>5 DEF Next
<1>3. QED
  BY <1>1, <1>2, ScorerTypeOK, PTL DEF Spec

(* No set ends, or runs on, at a score the laws do not allow: not in the    *)
(* match, and not in any match an undo may bring back (setWinner and Apply  *)
(* in scorer.go).                                                           *)
THEOREM ScorerScoresAreLegal == Spec => []ScoresAreLegal
<1>1. ScoreInv => ScoresAreLegal
  BY DEF ScoreInv, Sound, ScoresAreLegal
<1>2. QED
  BY <1>1, ScoreInvHolds, PTL

(* An undo always lands where a press scores (confirm pushes nothing).     *)
THEOREM ScorerUndoLandsInPlay == Spec => []UndoLandsInPlay
<1>1. ScoreInv => UndoLandsInPlay
  BY DEF ScoreInv, Scoring, UndoLandsInPlay
<1>2. QED
  BY <1>1, ScoreInvHolds, PTL

(* Presses and changes of ends are pending only where they are awaited.    *)
THEOREM ScorerPhasesExclusive == Spec => []PhasesExclusive
<1>1. ScoreInv => PhasesExclusive
  BY DEF ScoreInv, Sound, PhasesExclusive
<1>2. QED
  BY <1>1, ScoreInvHolds, PTL

-----------------------------------------------------------------------------
(* Closed sets.  All matches on the stack belong to one set: the one in    *)
(* progress, or the one before it as long as no point of this one fell.    *)

FloorInv ==
  /\ floor <= m.setIndex
  /\ \A i \in 1..Len(undo) : floor <= undo[i].setIndex
  /\ \A i, j \in 1..Len(undo) : undo[i].setIndex = undo[j].setIndex

LEMMA SetIndexGrows ==
  ASSUME NEW x \in Match, NEW p \in Player, NEW d \in Deltas
  PROVE  x.setIndex <= Scored(x, p, d).setIndex
<1> DEFINE pts == PointsAfter(x, p, d)
<1>1. pts \in Score /\ x.setIndex \in Nat
  BY PointsAfterType DEF Match
<1>2. CASE \E w \in Player : Scored(x, p, d) = SetWon(x, pts, w)
  BY <1>1, <1>2, SetWonFields
<1>3. CASE Scored(x, p, d) = [x EXCEPT !.points = pts]
  <2>1. Scored(x, p, d).setIndex = x.setIndex
    BY <1>3 DEF Match
  <2>2. QED
    BY <1>1, <2>1
<1>4. QED
  BY <1>2, <1>3 DEF Scored, Player

LEMMA PushFloorInv ==
  ASSUME TypeOK, FloorInv, undo' = Push, m' \in Match, m.setIndex <= m'.setIndex,
         floor' \in {floor, IF m.setIndex > floor THEN m.setIndex ELSE floor}
  PROVE  FloorInv'
<1>1. /\ undo \in Seq(Match) /\ m.setIndex \in Nat /\ m'.setIndex \in Nat
      /\ floor \in Nat /\ Len(undo) \in Nat
      /\ \A i \in 1..Len(undo) : undo[i].setIndex \in Nat
  <2>1. \A x \in Match : x.setIndex \in Nat
    BY DEF Match
  <2>2. QED
    BY <2>1 DEF TypeOK
<1>2. floor' <= m.setIndex /\ floor' \in Nat
  BY <1>1 DEF FloorInv
<1>3. \A i \in 1..Len(Push) : Push[i].setIndex = m.setIndex
  <2>1. CASE undo # <<>> /\ undo[Len(undo)].setIndex # m.setIndex
    BY <2>1 DEF Push, Stacked
  <2>2. CASE undo = <<>>
    BY <2>2 DEF Push, Stacked
  <2>3. CASE undo # <<>> /\ undo[Len(undo)].setIndex = m.setIndex
    <3>1. Len(undo) \in 1..Len(undo)
      BY <1>1, <2>3
    <3>2. \A i \in 1..Len(undo) : undo[i].setIndex = m.setIndex
      BY <2>3, <3>1 DEF FloorInv
    <3>3. QED
      BY <3>2, PushElements DEF TypeOK
  <2>4. QED
    BY <2>1, <2>2, <2>3
<1>4. floor' <= m'.setIndex
  BY <1>1, <1>2
<1>5. QED
  BY <1>2, <1>3, <1>4 DEF FloorInv

LEMMA TakeBackFloorInv ==
  ASSUME TypeOK, FloorInv, undo # <<>>, TakeBack
  PROVE  FloorInv'
<1>1. /\ Len(undo) \in 1..Len(undo) /\ m' = undo[Len(undo)]
      /\ Len(undo') = Len(undo) - 1 /\ Len(undo) - 1 \in Nat
      /\ \A i \in 1..(Len(undo) - 1) : undo'[i] = undo[i]
  BY TakeBackElements DEF TypeOK
<1>2. floor' = floor
  BY DEF TakeBack
<1>3. \A i \in 1..Len(undo') : i \in 1..Len(undo) /\ undo'[i] = undo[i]
  BY <1>1
<1>4. QED
  BY <1>1, <1>2, <1>3 DEF FloorInv

LEMMA ConfirmedSetIndex ==
  ASSUME NEW x \in Match, NEW h \in Half, NEW p \in Player
  PROVE  /\ Confirmed(x, h).setIndex = x.setIndex
         /\ ServeDecided(x, p).setIndex = x.setIndex
BY DEF Confirmed, ServeDecided, Match

LEMMA ApplyFloorInv ==
  ASSUME TypeOK, TypeOK', FloorInv, NEW s \in Sources, NEW id \in EventIds,
         NEW t \in Player \cup Half, NEW d \in Deltas, Apply(s, id, t, d)
  PROVE  FloorInv'
<1> DEFINE at == Resolve(t)
<1>1. /\ at.player \in Player /\ at.half \in Half
      /\ m \in Match /\ m' \in Match /\ m.setIndex \in Nat
  BY ResolveType DEF TypeOK, Match
<1>2. CASE m' = m /\ undo' = undo /\ floor' = floor
  BY <1>2 DEF FloorInv
<1>3. CASE Confirm(at.half, at.player, d)
  <2>1. CASE m' = Confirmed(m, at.half) /\ undo' = undo /\ floor' = floor
    <3>1. m'.setIndex = m.setIndex
      BY <1>1, <2>1, ConfirmedSetIndex
    <3>2. QED
      BY <2>1, <3>1 DEF FloorInv
  <2>2. QED
    BY <1>2, <1>3, <2>1 DEF Confirm, Nothing
<1>4. CASE DecideServe(at.player, d)
  <2>1. CASE m' = ServeDecided(m, at.player) /\ undo' = Push /\ floor' = floor
    <3>1. m'.setIndex = m.setIndex
      BY <1>1, <2>1, ConfirmedSetIndex
    <3>2. m.setIndex <= m'.setIndex
      BY <3>1, <1>1
    <3>3. QED
      BY <1>1, <2>1, <3>2, PushFloorInv
  <2>2. QED
    BY <1>2, <1>4, <2>1 DEF DecideServe, Nothing
<1>5. CASE Point(at.player, d)
  <2>1. CASE /\ m' = Scored(m, at.player, d) /\ undo' = Push
             /\ floor' = IF m.setIndex > floor THEN m.setIndex ELSE floor
    <3>1. m.setIndex <= m'.setIndex
      BY <1>1, <2>1, SetIndexGrows
    <3>2. QED
      BY <1>1, <2>1, <3>1, PushFloorInv
  <2>2. QED
    BY <1>2, <1>5, <2>1 DEF Point, Nothing
<1>6. CASE Discard(s, id)
  BY <1>2, <1>6 DEF Discard
<1>7. QED
  BY <1>3, <1>4, <1>5, <1>6 DEF Apply, Phase

(* Once a point of a set has been applied, no undo reaches back behind the *)
(* start of that set (push and takeBack, scorer.go).                       *)
THEOREM ScorerClosedSetsStayClosed == Spec => []ClosedSetsStayClosed
<1>1. Init => FloorInv
  BY DEF Init, FloorInv, NewMatch
<1>2. TypeOK /\ TypeOK' /\ FloorInv /\ [Next]_vars => FloorInv'
  <2> SUFFICES ASSUME TypeOK, TypeOK', FloorInv, [Next]_vars PROVE FloorInv'
    OBVIOUS
  <2>1. CASE \E s \in Sources, id \in EventIds :
               \E t \in Player \cup Half, d \in Deltas : Apply(s, id, t, d)
    BY <2>1, ApplyFloorInv
  <2>2. CASE m' = m /\ undo' = undo /\ floor' = floor
    BY <2>2 DEF FloorInv
  <2>3. CASE \E s \in Sources, id \in EventIds : UndoEvent(s, id)
    BY <2>2, <2>3, TakeBackFloorInv DEF UndoEvent, Discard, Nothing
  <2>4. CASE Undo
    BY <2>2, <2>4, TakeBackFloorInv DEF Undo
  <2>5. CASE ApplyToComplete \/ Tick \/ UNCHANGED vars
    BY <2>2, <2>5 DEF ApplyToComplete, Tick, vars
  <2>6. QED
    BY <2>1, <2>3, <2>4, <2>5 DEF Next
<1>3. TypeOK /\ FloorInv => ClosedSetsStayClosed
  BY DEF TypeOK, Match, FloorInv, ClosedSetsStayClosed
<1>4. QED
  BY <1>1, <1>2, <1>3, ScorerTypeOK, PTL DEF Spec

-----------------------------------------------------------------------------
(* Deduplication: what was counted since the last silence lies at or below *)
(* the watermark, and a silent source has nothing counted against it.      *)

DedupInv ==
  \A s \in Sources, id \in EventIds :
    /\ taken[s][id] <= 1
    /\ taken[s][id] > 0 => id <= seen[s].high
    /\ seen[s].silent = RestartQuietPeriod => taken[s][id] = 0

LEMMA RecordDedupInv ==
  ASSUME TypeOK, DedupInv, NEW s \in Sources, NEW id \in EventIds,
         IsNew(s, id), Record(s, id)
  PROVE  DedupInv'
<1> SUFFICES ASSUME NEW r \in Sources, NEW k \in EventIds
             PROVE  /\ taken'[r][k] <= 1
                    /\ taken'[r][k] > 0 => k <= seen'[r].high
                    /\ seen'[r].silent = RestartQuietPeriod => taken'[r][k] = 0
  BY DEF DedupInv
<1>1. CASE r # s
  <2>1. taken'[r] = taken[r] /\ seen'[r] = seen[r]
    BY <1>1 DEF Record, TypeOK
  <2>2. QED
    BY <2>1 DEF DedupInv
<1>2. CASE r = s
  <2>1. seen'[s].high = id /\ seen'[s].silent = 0 /\ RestartQuietPeriod # 0
    BY ScorerAssumption DEF Record, TypeOK
  <2>2. taken'[s][k] = IF k = id THEN taken[s][k] + 1 ELSE taken[s][k]
    BY DEF Record, TypeOK
  <2>3. /\ id \in Nat /\ k \in Nat /\ taken[s][k] \in Nat
        /\ seen[s].high \in Nat \cup {-1}
    BY ScorerAssumption DEF TypeOK, Unseen
  <2>4. CASE id > seen[s].high
    <3>1. k = id => taken[s][k] = 0
      BY <2>3, <2>4 DEF DedupInv
    <3>2. taken[s][k] > 0 => k <= id
      BY <2>3, <2>4 DEF DedupInv
    <3>3. taken[s][k] <= 1
      BY DEF DedupInv
    <3>4. QED
      BY <1>2, <2>1, <2>2, <2>3, <3>1, <3>2, <3>3
  <2>5. CASE Restarted(s, id)
    <3>1. taken[s][k] = 0
      BY <2>5 DEF Restarted, DedupInv
    <3>2. QED
      BY <1>2, <2>1, <2>2, <2>3, <3>1
  <2>6. QED
    BY <2>4, <2>5 DEF IsNew
<1>3. QED
  BY <1>1, <1>2

LEMMA DiscardDedupInv ==
  ASSUME TypeOK, DedupInv, NEW s \in Sources, NEW id \in EventIds, Discard(s, id)
  PROVE  DedupInv'
<1>1. RestartQuietPeriod # 0
  BY ScorerAssumption
<1>2. \A r \in Sources : /\ seen'[r].high = seen[r].high
                        /\ seen'[r].silent \in {0, seen[r].silent}
  BY DEF Discard, TypeOK
<1>3. taken' = taken
  BY DEF Discard
<1>4. QED
  BY <1>1, <1>2, <1>3 DEF DedupInv

LEMMA TickDedupInv ==
  ASSUME TypeOK, DedupInv, Tick
  PROVE  DedupInv'
<1> SUFFICES ASSUME NEW s \in Sources, NEW id \in EventIds
             PROVE  /\ taken'[s][id] <= 1
                    /\ taken'[s][id] > 0 => id <= seen'[s].high
                    /\ seen'[s].silent = RestartQuietPeriod => taken'[s][id] = 0
  BY DEF DedupInv
<1>1. seen'[s].high = seen[s].high
  BY DEF Tick, TypeOK
<1>2. taken'[s] = IF seen'[s].silent = RestartQuietPeriod
                  THEN [k \in EventIds |-> 0] ELSE taken[s]
  BY DEF Tick
<1>3. CASE seen'[s].silent = RestartQuietPeriod
  BY <1>1, <1>2, <1>3
<1>4. CASE seen'[s].silent # RestartQuietPeriod
  BY <1>1, <1>2, <1>4 DEF DedupInv
<1>5. QED
  BY <1>3, <1>4

(* Within a source's quiet period no event id is counted twice: not by a    *)
(* retry, not after an undo, not across a set or a restart (accept).        *)
THEOREM ScorerCountedOnce == Spec => []CountedOnce
<1>1. Init => DedupInv
  BY ScorerAssumption DEF Init, DedupInv
<1>2. TypeOK /\ DedupInv /\ [Next]_vars => DedupInv'
  <2> SUFFICES ASSUME TypeOK, DedupInv, [Next]_vars PROVE DedupInv'
    OBVIOUS
  <2>1. CASE \E s \in Sources, id \in EventIds :
               Discard(s, id) \/ (IsNew(s, id) /\ Record(s, id))
    BY <2>1, RecordDedupInv, DiscardDedupInv
  <2>2. CASE seen' = seen /\ taken' = taken
    BY <2>2 DEF DedupInv
  <2>3. CASE Tick
    BY <2>3, TickDedupInv
  <2>4. CASE \E s \in Sources, id \in EventIds :
               \E t \in Player \cup Half, d \in Deltas : Apply(s, id, t, d)
    <3>1. PICK s \in Sources, id \in EventIds, t \in Player \cup Half, d \in Deltas :
            Apply(s, id, t, d)
      BY <2>4
    <3>2. Discard(s, id) \/ (IsNew(s, id) /\ Record(s, id))
      BY <3>1 DEF Apply
    <3>3. QED
      BY <2>1, <3>2
  <2>5. CASE \E s \in Sources, id \in EventIds : UndoEvent(s, id)
    <3>1. PICK s \in Sources, id \in EventIds : UndoEvent(s, id)
      BY <2>5
    <3>2. Discard(s, id) \/ (IsNew(s, id) /\ Record(s, id))
      BY <3>1 DEF UndoEvent
    <3>3. QED
      BY <2>1, <3>2
  <2>6. CASE ApplyToComplete \/ Undo \/ UNCHANGED vars
    BY <2>2, <2>6 DEF ApplyToComplete, Undo, vars
  <2>7. QED
    BY <2>3, <2>4, <2>5, <2>6 DEF Next
<1>3. DedupInv => CountedOnce
  BY DEF DedupInv, CountedOnce
<1>4. QED
  BY <1>1, <1>2, <1>3, ScorerTypeOK, PTL DEF Spec

-----------------------------------------------------------------------------
(* The undo stack: each score leads to the next by one scoring event.      *)

StackInv ==
  /\ \A i \in 1..(Len(undo) - 1) : LeadsTo(undo[i], undo[i + 1])
  /\ undo # <<>> => LeadsTo(undo[Len(undo)], m)

LEMMA SettledFields ==
  ASSUME NEW x \in Match
  PROVE  /\ Settled(x).points = x.points /\ Settled(x).completed = x.completed
         /\ \A h \in Half : Settled(Confirmed(x, h)) = Settled(x)
<1>1. Settled(x).points = x.points /\ Settled(x).completed = x.completed
  BY DEF Settled, Match
<1>2. ASSUME NEW h \in Half
      PROVE  Settled(Confirmed(x, h)) = Settled(x)
  BY DEF Settled, Confirmed, Match
<1>3. QED
  BY <1>1, <1>2

LEMMA ScoringLeads ==
  ASSUME NEW x \in Match, NEW p \in Player, NEW d \in Deltas,
         PointsAfter(x, p, d) # x.points
  PROVE  LeadsTo(x, Scored(x, p, d))
<1> DEFINE pts == PointsAfter(x, p, d)
           z   == Scored(x, p, d)
<1>1. pts \in Score /\ z \in Match
  BY PointsAfterType, ScoredType
<1>2. Settled(z) # Settled(x)
  <2>1. CASE \E w \in Player : z = SetWon(x, pts, w)
    <3>1. z.completed = Append(x.completed, pts)
      BY <1>1, <2>1, SetWonFields
    <3>2. z.completed # x.completed
      <4>1. x.completed \in Seq(Score)
        BY DEF Match
      <4>2. Len(Append(x.completed, pts)) # Len(x.completed)
        BY <4>1, <1>1
      <4>3. QED
        BY <3>1, <4>2
    <3>3. QED
      BY <1>1, <3>2, SettledFields
  <2>2. CASE z = [x EXCEPT !.points = pts]
    <3>1. z.points = pts
      BY <2>2 DEF Match
    <3>2. QED
      BY <1>1, <3>1, SettledFields
  <2>3. QED
    BY <2>1, <2>2 DEF Scored, Player
<1>3. QED
  BY <1>2 DEF LeadsTo

LEMMA PushChain ==
  ASSUME TypeOK, StackInv, undo' = Push, LeadsTo(m, m')
  PROVE  StackInv'
<1>1. m \in Match /\ undo \in Seq(Match) /\ Len(undo) \in Nat
  BY DEF TypeOK
<1>2. CASE Push = <<m>>
  <2>1. Len(undo') = 1 /\ undo'[1] = m /\ undo' # <<>>
    BY <1>2
  <2>2. QED
    BY <2>1 DEF StackInv
<1>3. CASE Push = Append(undo, m)
  <2>1. /\ Len(undo') = Len(undo) + 1 /\ undo'[Len(undo) + 1] = m
        /\ \A i \in 1..Len(undo) : undo'[i] = undo[i]
    BY <1>1, <1>3
  <2>2. ASSUME NEW i \in 1..(Len(undo') - 1)
        PROVE  LeadsTo(undo'[i], undo'[i + 1])
    <3>1. CASE i = Len(undo)
      <4>1. undo # <<>> /\ Len(undo) \in 1..Len(undo)
        BY <1>1, <2>1, <3>1
      <4>2. undo'[i] = undo[Len(undo)] /\ undo'[i + 1] = m
        BY <2>1, <3>1, <4>1
      <4>3. QED
        BY <4>1, <4>2 DEF StackInv
    <3>2. CASE i # Len(undo)
      <4>1. i \in 1..(Len(undo) - 1) /\ i \in 1..Len(undo) /\ i + 1 \in 1..Len(undo)
        BY <1>1, <2>1, <3>2
      <4>2. undo'[i] = undo[i] /\ undo'[i + 1] = undo[i + 1]
        BY <2>1, <4>1
      <4>3. QED
        BY <4>1, <4>2 DEF StackInv
    <3>3. QED
      BY <3>1, <3>2
  <2>3. LeadsTo(undo'[Len(undo')], m')
    BY <2>1
  <2>4. QED
    BY <2>2, <2>3 DEF StackInv
<1>4. QED
  BY <1>1, <1>2, <1>3, PushElements

LEMMA TakeBackChain ==
  ASSUME TypeOK, StackInv, undo # <<>>, TakeBack
  PROVE  StackInv'
<1> DEFINE n == Len(undo) - 1
<1>1. /\ Len(undo) \in Nat \ {0} /\ m' = undo[n + 1] /\ Len(undo') = n
      /\ n \in Nat /\ \A i \in 1..n : undo'[i] = undo[i]
  BY TakeBackElements DEF TypeOK
<1>2. \A i \in 1..n : LeadsTo(undo[i], undo[i + 1])
  BY <1>1 DEF StackInv
<1> HIDE DEF n
<1>3. \A i \in 1..(Len(undo') - 1) : LeadsTo(undo'[i], undo'[i + 1])
  <2> SUFFICES ASSUME NEW i \in 1..(n - 1) PROVE LeadsTo(undo'[i], undo'[i + 1])
    BY <1>1
  <2>1. i \in 1..n /\ i + 1 \in 1..n
    BY <1>1
  <2>2. QED
    BY <1>1, <1>2, <2>1
<1>4. undo' # <<>> => LeadsTo(undo'[Len(undo')], m')
  <2> SUFFICES ASSUME undo' # <<>> PROVE LeadsTo(undo'[n], m')
    BY <1>1
  <2>1. undo' \in Seq(Match)
    BY TakeBackType DEF TypeOK, MatchTypeOK
  <2>2. n \in 1..n
    BY <1>1, <2>1
  <2>3. QED
    BY <1>1, <1>2, <2>2
<1>5. QED
  BY <1>3, <1>4 DEF StackInv

LEMMA ApplyChain ==
  ASSUME TypeOK, StackInv, NEW s \in Sources, NEW id \in EventIds,
         NEW t \in Player \cup Half, NEW d \in Deltas, Apply(s, id, t, d)
  PROVE  StackInv'
<1> DEFINE at == Resolve(t)
<1>1. at.player \in Player /\ at.half \in Half /\ m \in Match
  BY ResolveType DEF TypeOK
<1>2. CASE m' = m /\ undo' = undo
  BY <1>2 DEF StackInv
<1>3. CASE Confirm(at.half, at.player, d)
  <2>1. CASE m' = Confirmed(m, at.half) /\ undo' = undo
    <3>1. Settled(m') = Settled(m)
      BY <1>1, <2>1, SettledFields
    <3>2. QED
      BY <2>1, <3>1 DEF StackInv, LeadsTo
  <2>2. QED
    BY <1>2, <1>3, <2>1 DEF Confirm, Nothing
<1>4. CASE Phase(m) = "serve_rally" /\ DecideServe(at.player, d)
  <2>1. CASE m' = ServeDecided(m, at.player) /\ undo' = Push
    <3>1. LeadsTo(m, m')
      BY <1>1, <1>4, <2>1 DEF LeadsTo
    <3>2. QED
      BY <2>1, <3>1, PushChain
  <2>2. QED
    BY <1>2, <1>4, <2>1 DEF DecideServe, Nothing
<1>5. CASE Point(at.player, d)
  <2>1. CASE /\ PointsAfter(m, at.player, d) # m.points
             /\ m' = Scored(m, at.player, d) /\ undo' = Push
    <3>1. LeadsTo(m, m')
      BY <1>1, <2>1, ScoringLeads
    <3>2. QED
      BY <2>1, <3>1, PushChain
  <2>2. QED
    BY <1>2, <1>5, <2>1 DEF Point, Nothing
<1>6. CASE Discard(s, id)
  BY <1>2, <1>6 DEF Discard
<1>7. QED
  BY <1>3, <1>4, <1>5, <1>6 DEF Apply, Phase

LEMMA ChainIsLine ==
  ASSUME TypeOK, StackInv
  PROVE  UndoTakesBackOneEvent
<1> DEFINE line == Append(undo, m)
<1>1. m \in Match /\ undo \in Seq(Match) /\ Len(undo) \in Nat
  BY DEF TypeOK
<1>2. /\ line[Len(undo) + 1] = m
      /\ \A i \in 1..Len(undo) : line[i] = undo[i]
  BY <1>1
<1> HIDE DEF line
<1>3. ASSUME NEW i \in 1..Len(undo)
      PROVE  LeadsTo(line[i], line[i + 1])
  <2>1. CASE i = Len(undo)
    <3>1. undo # <<>>
      BY <1>1, <2>1
    <3>2. QED
      BY <1>2, <2>1, <3>1 DEF StackInv
  <2>2. CASE i # Len(undo)
    <3>1. i \in 1..(Len(undo) - 1) /\ i + 1 \in 1..Len(undo)
      BY <1>1, <2>2
    <3>2. QED
      BY <1>2, <3>1 DEF StackInv
  <2>3. QED
    BY <2>1, <2>2
<1>4. QED
  BY <1>3 DEF UndoTakesBackOneEvent, line

(* An undo takes back exactly the last event that scored, whatever set end, *)
(* change of ends or presses came after it (push and takeBack).             *)
THEOREM ScorerUndoTakesBackOneEvent == Spec => []UndoTakesBackOneEvent
<1>1. Init => StackInv
  BY DEF Init, StackInv
<1>2. TypeOK /\ StackInv /\ [Next]_vars => StackInv'
  <2> SUFFICES ASSUME TypeOK, StackInv, [Next]_vars PROVE StackInv'
    OBVIOUS
  <2>1. CASE \E s \in Sources, id \in EventIds :
               \E t \in Player \cup Half, d \in Deltas : Apply(s, id, t, d)
    BY <2>1, ApplyChain
  <2>2. CASE m' = m /\ undo' = undo
    BY <2>2 DEF StackInv
  <2>3. CASE \E s \in Sources, id \in EventIds : UndoEvent(s, id)
    BY <2>2, <2>3, TakeBackChain DEF UndoEvent, Discard, Nothing
  <2>4. CASE Undo
    BY <2>2, <2>4, TakeBackChain DEF Undo
  <2>5. CASE ApplyToComplete \/ Tick \/ UNCHANGED vars
    BY <2>2, <2>5 DEF ApplyToComplete, Tick, vars
  <2>6. QED
    BY <2>1, <2>3, <2>4, <2>5 DEF Next
<1>3. TypeOK /\ StackInv => UndoTakesBackOneEvent
  BY ChainIsLine
<1>4. QED
  BY <1>1, <1>2, <1>3, ScorerTypeOK, PTL DEF Spec

-----------------------------------------------------------------------------
(* The serve.  Where the loser opens, the opener is read off the last of   *)
(* the finished sets, so their list has to be as long as sets were played. *)

Entered(x) == ~x.complete => Len(x.completed) = x.setIndex
SetsInv == Entered(m) /\ \A i \in 1..Len(undo) : Entered(undo[i])

LEMMA ScoredEntered ==
  ASSUME NEW x \in Match, NEW p \in Player, NEW d \in Deltas, Entered(x), ~x.complete
  PROVE  Entered(Scored(x, p, d))
<1> DEFINE pts == PointsAfter(x, p, d)
           z   == Scored(x, p, d)
<1>1. pts \in Score /\ x.completed \in Seq(Score) /\ x.setIndex \in Nat /\ Len(x.completed) = x.setIndex
  BY PointsAfterType DEF Match, Entered
<1>2. Len(Append(x.completed, pts)) = Len(x.completed) + 1
  BY <1>1
<1>3. CASE \E w \in Player : z = SetWon(x, pts, w)
  <2>1. z.completed = Append(x.completed, pts) /\ (z.complete \/ z.setIndex = x.setIndex + 1)
    BY <1>1, <1>3, SetWonFields
  <2>2. QED
    BY <1>1, <1>2, <2>1 DEF Entered
<1>4. CASE z = [x EXCEPT !.points = pts]
  <2>1. z.completed = x.completed /\ z.setIndex = x.setIndex
    BY <1>4 DEF Match
  <2>2. QED
    BY <1>1, <2>1 DEF Entered
<1>5. QED
  BY <1>3, <1>4 DEF Scored, Player

LEMMA PressEntered ==
  ASSUME NEW x \in Match, Entered(x), NEW h \in Half, NEW p \in Player
  PROVE  Entered(Confirmed(x, h)) /\ Entered(ServeDecided(x, p))
<1>1. /\ Confirmed(x, h).completed = x.completed /\ Confirmed(x, h).complete = x.complete
      /\ Confirmed(x, h).setIndex = x.setIndex
  BY DEF Confirmed, Match
<1>2. /\ ServeDecided(x, p).completed = x.completed /\ ServeDecided(x, p).complete = x.complete
      /\ ServeDecided(x, p).setIndex = x.setIndex
  BY DEF ServeDecided, Match
<1>3. QED
  BY <1>1, <1>2 DEF Entered

LEMMA ApplySetsInv ==
  ASSUME TypeOK, SetsInv, NEW s \in Sources, NEW id \in EventIds,
         NEW t \in Player \cup Half, NEW d \in Deltas, Apply(s, id, t, d)
  PROVE  SetsInv'
<1> DEFINE at == Resolve(t)
<1>1. at.player \in Player /\ at.half \in Half
  BY ResolveType
<1>2. m \in Match /\ Entered(m) /\ ~m.complete /\ undo \in Seq(Match)
  BY DEF TypeOK, SetsInv, Apply
<1>3. CASE m' = m /\ undo' = undo
  BY <1>3 DEF SetsInv
<1>4. ASSUME Entered(m'), undo' = Push PROVE SetsInv'
  <2>1. \A i \in 1..Len(Push) : Entered(Push[i])
    BY <1>2, PushElements DEF SetsInv
  <2>2. \A i \in 1..Len(undo') : Entered(undo'[i])
    BY <1>4, <2>1
  <2>3. QED
    BY <1>4, <2>2 DEF SetsInv
<1>5. CASE Phase(m) \in {"warmup", "change_ends"} /\ ~Discard(s, id)
  <2>1. Confirm(at.half, at.player, d)
    BY <1>5 DEF Apply
  <2>2. CASE m' = Confirmed(m, at.half) /\ undo' = undo
    <3>1. Entered(m')
      BY <1>1, <1>2, <2>2, PressEntered
    <3>2. QED
      BY <3>1, <2>2 DEF SetsInv
  <2>3. QED
    BY <1>3, <2>1, <2>2 DEF Confirm, Nothing
<1>6. CASE Phase(m) = "serve_rally" /\ ~Discard(s, id)
  <2>1. DecideServe(at.player, d)
    BY <1>6 DEF Apply
  <2>2. CASE m' = ServeDecided(m, at.player) /\ undo' = Push
    <3>1. "left" \in Half
      BY DEF Half
    <3>2. QED
      BY <1>1, <1>2, <1>4, <2>2, <3>1, PressEntered
  <2>3. QED
    BY <1>3, <2>1, <2>2 DEF DecideServe, Nothing
<1>7. CASE Phase(m) = "playing" /\ ~Discard(s, id)
  <2>1. Point(at.player, d)
    BY <1>7 DEF Apply
  <2>2. CASE m' = Scored(m, at.player, d) /\ undo' = Push
    BY <1>1, <1>2, <1>4, <2>2, ScoredEntered
  <2>3. QED
    BY <1>3, <2>1, <2>2 DEF Point, Nothing
<1>8. CASE Discard(s, id)
  BY <1>3, <1>8 DEF Discard
<1>9. Phase(m) \in {"warmup", "change_ends", "serve_rally", "playing"}
  BY DEF Apply, Phase
<1>10. QED
  BY <1>5, <1>6, <1>7, <1>8, <1>9

LEMMA SetsInvHolds == Spec => []SetsInv
<1>1. Init => SetsInv
  <2>1. Entered(NewMatch)
    BY DEF Entered, NewMatch
  <2>2. QED
    BY <2>1 DEF Init, SetsInv
<1>2. TypeOK /\ SetsInv /\ [Next]_vars => SetsInv'
  <2> SUFFICES ASSUME TypeOK, SetsInv, [Next]_vars PROVE SetsInv'
    OBVIOUS
  <2>1. CASE \E s \in Sources, id \in EventIds :
               \E t \in Player \cup Half, d \in Deltas : Apply(s, id, t, d)
    BY <2>1, ApplySetsInv
  <2>2. CASE m' = m /\ undo' = undo
    BY <2>2 DEF SetsInv
  <2>3. ASSUME undo # <<>>, TakeBack PROVE SetsInv'
    <3>1. Len(undo) \in 1..Len(undo) /\ Len(undo) - 1 \in Nat
      BY <2>3 DEF TypeOK
    <3>2. m' = undo[Len(undo)] /\ Len(undo') = Len(undo) - 1
          /\ \A i \in 1..(Len(undo) - 1) : undo'[i] = undo[i]
      BY <2>3, TakeBackElements DEF TypeOK
    <3>3. Entered(m')
      BY <3>1, <3>2 DEF SetsInv
    <3>4. \A i \in 1..Len(undo') : Entered(undo'[i])
      BY <3>1, <3>2 DEF SetsInv
    <3>5. QED
      BY <3>3, <3>4 DEF SetsInv
  <2>4. CASE \E s \in Sources, id \in EventIds : UndoEvent(s, id)
    BY <2>2, <2>3, <2>4 DEF UndoEvent, Discard, Nothing
  <2>5. CASE Undo
    BY <2>2, <2>3, <2>5 DEF Undo
  <2>6. CASE ApplyToComplete \/ Tick \/ UNCHANGED vars
    BY <2>2, <2>6 DEF ApplyToComplete, Tick, vars
  <2>7. QED
    BY <2>1, <2>4, <2>5, <2>6 DEF Next
<1>3. QED
  BY <1>1, <1>2, ScorerTypeOK, PTL DEF Spec

(* On an undecided score one more point changes the server as the laws say.*)
LEMMA ServePasses ==
  ASSUME NEW d \in Nat, d + 1 = PointsPerSet, NEW a \in Nat, NEW b \in Nat,
         NEW c \in Nat, NEW e \in Nat, c + e = a + b + 1,
         ~(c >= PointsPerSet /\ c - e >= 2), ~(e >= PointsPerSet /\ e - c >= 2),
         ~(a >= PointsPerSet /\ a - b >= 2), ~(b >= PointsPerSet /\ b - a >= 2),
         NEW n \in Nat, n = IF a >= d /\ b >= d THEN d + (a + b - 2 * d) ELSE (a + b) \div 2,
         NEW k \in Nat, k = IF c >= d /\ e >= d THEN d + (c + e - 2 * d) ELSE (c + e) \div 2
  PROVE  (n % 2 # k % 2) <=> ((c + e) % 2 = 0 \/ c + e > 2 * d)
<1>1. PointsPerSet \in Nat
  BY RulesAssumption
<1>2. CASE a >= d /\ b >= d /\ c >= d /\ e >= d
  <2>1. n = a + b - d /\ k = n + 1
    BY <1>1, <1>2
  <2>2. c + e > 2 * d
    BY <1>1, <1>2
  <2>3. QED
    BY <2>1, <2>2
<1>3. CASE ~(a >= d /\ b >= d) /\ c >= d /\ e >= d
  <2>1. a + b + 1 = 2 * d \/ a + b + 1 > 2 * d
    BY <1>1, <1>3
  <2>2. a + b + 1 = 2 * d
    BY <1>1, <1>3, <2>1
  <2>3. (a + b) \div 2 = d - 1
    BY <1>1, <2>2
  <2>4. n = d - 1 /\ k = d
    BY <1>1, <1>3, <2>2, <2>3
  <2>5. (c + e) % 2 = 0
    BY <2>2
  <2>6. QED
    BY <2>4, <2>5
<1>4. CASE ~(c >= d /\ e >= d)
  <2>1. ~(a >= d /\ b >= d)
    BY <1>1, <1>4
  <2>2. n = (a + b) \div 2 /\ k = (a + b + 1) \div 2
    BY <1>4, <2>1
  <2>3. ~(c + e > 2 * d)
    BY <1>1, <1>4
  <2>4. (a + b) % 2 = 1 \/ (a + b) % 2 = 0
    OBVIOUS
  <2>5. (a + b) % 2 = 1 => k = n + 1 /\ (c + e) % 2 = 0
    BY <2>2
  <2>6. (a + b) % 2 = 0 => k = n /\ (c + e) % 2 # 0
    BY <2>2
  <2>7. QED
    BY <2>3, <2>4, <2>5, <2>6
<1>5. QED
  BY <1>2, <1>3, <1>4

(* What New requires of a set's length.                                   *)
LEMMA SetHasPoints == PointsPerSet \in Nat /\ PointsPerSet >= 2
BY RulesAssumption

(* What serve changes are counted from.                                    *)
LEMMA ChangesAreNatural ==
  ASSUME NEW x \in Match
  PROVE  /\ ServeChanges(x) \in Nat /\ PointsPerSet - 1 \in Nat
         /\ x.points["a"] \in Nat /\ x.points["b"] \in Nat
         /\ ServeChanges(x) = IF x.points["a"] >= PointsPerSet - 1 /\ x.points["b"] >= PointsPerSet - 1
                              THEN PointsPerSet - 1 + (x.points["a"] + x.points["b"] - 2 * (PointsPerSet - 1))
                              ELSE (x.points["a"] + x.points["b"]) \div 2
<1>1. x.points["a"] \in Nat /\ x.points["b"] \in Nat
  BY DEF Match, Score, Player
<1>2. PointsPerSet - 1 \in Nat
  BY SetHasPoints
<1>3. ServeChanges(x) = IF x.points["a"] >= PointsPerSet - 1 /\ x.points["b"] >= PointsPerSet - 1
                        THEN PointsPerSet - 1 + (x.points["a"] + x.points["b"] - 2 * (PointsPerSet - 1))
                        ELSE (x.points["a"] + x.points["b"]) \div 2
  BY DEF ServeChanges
<1> DEFINE d == PointsPerSet - 1
           a == x.points["a"]
           b == x.points["b"]
<1> HIDE DEF d, a, b
<1>4. ServeChanges(x) = IF a >= d /\ b >= d THEN d + (a + b - 2 * d) ELSE (a + b) \div 2
  BY <1>3 DEF a, b, d
<1>5. a \in Nat /\ b \in Nat /\ d \in Nat
  BY <1>1, <1>2 DEF a, b, d
<1>6. ServeChanges(x) \in Nat
  BY <1>4, <1>5
<1>7. QED
  BY <1>1, <1>2, <1>3, <1>6

LEMMA FlipsDiffer ==
  ASSUME NEW p \in Player, NEW n \in Nat, NEW k \in Nat
  PROVE  /\ Flip(p, n) \in Player /\ (Flip(p, n) # Flip(p, k) <=> n % 2 # k % 2)
         /\ Flip(p, 0) = p /\ Flip(p, n + 1) = Opponent(Flip(p, n))
<1>1. Opponent(p) \in Player /\ Opponent(p) # p /\ Opponent(Opponent(p)) = p
  BY DEF Opponent, Player
<1>2. (n % 2 = 0 \/ n % 2 = 1) /\ (k % 2 = 0 \/ k % 2 = 1) /\ 0 % 2 = 0
  OBVIOUS
<1>3. n % 2 = 0 => (n + 1) % 2 = 1
  OBVIOUS
<1>4. n % 2 = 1 => (n + 1) % 2 = 0
  OBVIOUS
<1>5. QED
  BY <1>1, <1>2, <1>3, <1>4 DEF Flip

(* The opener is a player as soon as a rally or the configuration has      *)
(* named who serves first.                                                 *)
LEMMA OpenerIsPlayer ==
  ASSUME NEW x \in Match, x.firstServer # None
  PROVE  Opener(x) \in Player
<1>1. x.firstServer \in Player /\ x.setIndex \in Nat
  BY DEF Match
<1>2. "a" \in Player /\ "b" \in Player
  BY DEF Player
<1>3. QED
  BY <1>1, <1>2, FlipsDiffer DEF Opener

(* A point that takes no set.                                              *)
LEMMA PointPassesServe ==
  ASSUME NEW x \in Match, Sound(x), Phase(x) = "playing", NEW pts \in Score,
         \A w \in Player : ~Takes(pts, w), NEW y, y = [x EXCEPT !.points = pts],
         PointsPlayed(y) = PointsPlayed(x) + 1
  PROVE  (Serving(y) # Serving(x)) <=>
           \/ PointsPlayed(y) % 2 = 0
           \/ PointsPlayed(y) > 2 * (PointsPerSet - 1)
<1>1. ~x.complete /\ x.firstServer # None
  BY PlayingFields DEF Sound
<1>2. /\ y \in Match /\ y.points = pts /\ y.firstServer = x.firstServer
      /\ y.setIndex = x.setIndex /\ y.completed = x.completed
  BY DEF Match
<1>3. PICK o \in Player : o = Opener(x)
  BY <1>1, OpenerIsPlayer
<1>4. Opener(y) = o
  BY <1>2, <1>3 DEF Opener
<1>5. PICK n \in Nat, k \in Nat : n = ServeChanges(x) /\ k = ServeChanges(y)
  BY <1>2, ChangesAreNatural
<1>6. Serving(x) = Flip(o, n) /\ Serving(y) = Flip(o, k)
  BY <1>1, <1>2, <1>3, <1>4, <1>5 DEF Serving
<1>7. Serving(y) # Serving(x) <=> n % 2 # k % 2
  BY <1>6, FlipsDiffer
<1>8. PICK a \in Nat, b \in Nat, c \in Nat, e \in Nat, d \in Nat :
        /\ a = x.points["a"] /\ b = x.points["b"] /\ c = y.points["a"] /\ e = y.points["b"]
        /\ d = PointsPerSet - 1
  BY <1>2, ChangesAreNatural
<1>9. /\ n = IF a >= d /\ b >= d THEN d + (a + b - 2 * d) ELSE (a + b) \div 2
      /\ k = IF c >= d /\ e >= d THEN d + (c + e - 2 * d) ELSE (c + e) \div 2
  BY <1>2, <1>5, <1>8, ChangesAreNatural
<1>10. /\ PointsPlayed(x) = a + b /\ PointsPlayed(y) = c + e /\ c + e = a + b + 1
  BY <1>8 DEF PointsPlayed
<1>11. d + 1 = PointsPerSet
  BY <1>8, SetHasPoints
<1>12. /\ ~(a >= PointsPerSet /\ a - b >= 2) /\ ~(b >= PointsPerSet /\ b - a >= 2)
       /\ ~(c >= PointsPerSet /\ c - e >= 2) /\ ~(e >= PointsPerSet /\ e - c >= 2)
  <2>1. \A w \in Player : ~Takes(x.points, w)
    BY <1>1 DEF Sound, LegalScores
  <2>2. "a" \in Player /\ "b" \in Player /\ Opponent("a") = "b" /\ Opponent("b") = "a"
    BY DEF Player, Opponent
  <2>3. ~Takes(x.points, "a") /\ ~Takes(x.points, "b") /\ ~Takes(pts, "a") /\ ~Takes(pts, "b")
    BY <2>1, <2>2
  <2>4. QED
    BY <1>2, <1>8, <2>2, <2>3 DEF Takes, WinBy
<1>13. (n % 2 # k % 2) <=> ((c + e) % 2 = 0 \/ c + e > 2 * d)
  BY <1>9, <1>10, <1>11, <1>12, ServePasses
<1>14. QED
  BY <1>7, <1>8, <1>10, <1>13

(* A set that is not the last.                                             *)
LEMMA NextSetOpens ==
  ASSUME NEW x \in Match, Entered(x), ~x.complete, x.firstServer # None, NEW pts \in Score,
         NEW w \in Player, Takes(pts, w), NEW y, y = SetWon(x, pts, w), y.setIndex = x.setIndex + 1
  PROVE  Serving(y) = IF SetOpener = "loser" THEN Opponent(w) ELSE Opponent(Opener(x))
<1>1. /\ y.completed = Append(x.completed, pts) /\ y.firstServer = x.firstServer
      /\ x.setIndex \in Nat /\ x.completed \in Seq(Score) /\ Len(x.completed) = x.setIndex
  BY SetWonFields DEF Match, Entered
<1>2. y.points = Love
  <2>1. (y.complete /\ y.setIndex = x.setIndex) \/ y.points = Love
    BY SetWonFields
  <2>2. x.setIndex + 1 # x.setIndex
    BY <1>1
  <2>3. QED
    BY <2>1, <2>2
<1>3. ServeChanges(y) = 0
  <2>1. y.points["a"] = 0 /\ y.points["b"] = 0
    BY <1>2 DEF Love, Player
  <2>2. ~(0 >= PointsPerSet - 1)
    BY SetHasPoints
  <2>3. QED
    BY <2>1, <2>2 DEF ServeChanges
<1>4. y.setIndex # 0 /\ x.firstServer \in Player
  BY <1>1 DEF Match
<1>5. CASE SetOpener = "loser"
  <2>1. y.completed[y.setIndex] = pts
    BY <1>1
  <2>2. Opener(y) = IF pts["a"] < pts["b"] THEN "a" ELSE "b"
    BY <1>4, <1>5, <2>1 DEF Opener
  <2>3. pts["a"] \in Nat /\ pts["b"] \in Nat
    BY DEF Score, Player
  <2>4. Opener(y) = Opponent(w)
    <3>1. CASE w = "a"
      <4>1. pts["a"] - pts["b"] >= 2
        BY <3>1 DEF Takes, WinBy, Opponent
      <4>2. QED
        BY <2>2, <2>3, <3>1, <4>1 DEF Opponent
    <3>2. CASE w = "b"
      <4>1. pts["b"] - pts["a"] >= 2
        BY <3>2 DEF Takes, WinBy, Opponent
      <4>2. QED
        BY <2>2, <2>3, <3>2, <4>1 DEF Opponent
    <3>3. QED
      BY <3>1, <3>2 DEF Player
  <2>5. Opponent(w) \in Player
    BY DEF Opponent, Player
  <2>6. Serving(y) = Opener(y)
    BY <1>1, <1>3, <2>4, <2>5, FlipsDiffer DEF Serving
  <2>7. QED
    BY <1>5, <2>4, <2>6
<1>6. CASE SetOpener # "loser"
  <2>1. Opener(y) = Flip(x.firstServer, x.setIndex + 1)
    BY <1>1, <1>4, <1>6 DEF Opener
  <2>2. Opener(x) = Flip(x.firstServer, x.setIndex)
    BY <1>1, <1>4, <1>6, FlipsDiffer DEF Opener
  <2>3. Opener(y) = Opponent(Opener(x))
    BY <1>1, <1>4, <2>1, <2>2, FlipsDiffer
  <2>4. Opener(y) \in Player
    BY <1>1, <1>4, <2>1, FlipsDiffer
  <2>5. Serving(y) = Opener(y)
    BY <1>1, <1>3, <2>4, FlipsDiffer DEF Serving
  <2>6. QED
    BY <1>6, <2>3, <2>5
<1>7. QED
  BY <1>5, <1>6

(* In any match the serve passes after every second point and, at deuce,   *)
(* after every point, and the next set is opened by the right player,      *)
(* corrections that end a set included (serving and opener, scorer.go).    *)
THEOREM ScorerServeFollowsTheLaws == Spec => ServeFollowsTheLaws
<1> DEFINE PointStep ==
             result'.kind = "point" /\ PointsPlayed(m') = PointsPlayed(m) + 1 =>
               ((Serving(m') # Serving(m)) <=>
                  \/ PointsPlayed(m') % 2 = 0
                  \/ PointsPlayed(m') > 2 * (PointsPerSet - 1))
           SetStep ==
             result'.kind = "set_won" /\ m'.setIndex = m.setIndex + 1 =>
               Serving(m') = IF SetOpener = "loser" THEN Opponent(result'.side) ELSE Opponent(Opener(m))
<1>1. TypeOK /\ ScoreInv /\ SetsInv /\ [Next]_vars => PointStep /\ SetStep
  <2> SUFFICES ASSUME TypeOK, ScoreInv, SetsInv, [Next]_vars PROVE PointStep /\ SetStep
    OBVIOUS
  <2>1. m \in Match /\ Sound(m) /\ Entered(m) /\ m.setIndex \in Nat
    BY DEF TypeOK, ScoreInv, SetsInv, Match
  <2>2. CASE m' = m
    <3>1. PointsPlayed(m) # PointsPlayed(m) + 1
      <4>1. m.points["a"] \in Nat /\ m.points["b"] \in Nat
        BY <2>1, ChangesAreNatural
      <4>2. PICK n \in Nat : n = PointsPlayed(m)
        BY <4>1 DEF PointsPlayed
      <4>3. QED
        BY <4>2
    <3>2. m.setIndex # m.setIndex + 1
      BY <2>1
    <3>3. QED
      BY <2>2, <3>1, <3>2
  <2>3. CASE result'.kind \notin {"point", "set_won"}
    BY <2>3
  <2>4. ASSUME NEW s \in Sources, NEW id \in EventIds, NEW t \in Player \cup Half, NEW d \in Deltas,
               Apply(s, id, t, d)
        PROVE  PointStep /\ SetStep
    <3> DEFINE at == Resolve(t)
    <3>1. CASE Discard(s, id)
      BY <2>2, <3>1 DEF Discard
    <3>2. CASE Phase(m) \in {"warmup", "change_ends"} /\ ~Discard(s, id)
      <4>1. Confirm(at.half, at.player, d)
        BY <2>4, <3>2 DEF Apply
      <4>2. m' = m \/ result'.kind \in {"confirmed", "warmup_over", "ends_changed"}
        BY <4>1 DEF Confirm, ConfirmedKind, Nothing, Answer
      <4>3. QED
        BY <2>2, <2>3, <4>2
    <3>3. CASE Phase(m) = "serve_rally" /\ ~Discard(s, id)
      <4>1. DecideServe(at.player, d)
        BY <2>4, <3>3 DEF Apply
      <4>2. m' = m \/ result'.kind = "serve_decided"
        BY <4>1 DEF DecideServe, Nothing, Answer
      <4>3. QED
        BY <2>2, <2>3, <4>2
    <3>4. CASE Phase(m) = "playing" /\ ~Discard(s, id)
      <4>1. at.player \in Player /\ Point(at.player, d)
        BY <2>4, <3>4, ResolveType DEF Apply
      <4>2. PICK pts \in Score : pts = PointsAfter(m, at.player, d)
        BY <2>1, <4>1, PointsAfterType
      <4>3. CASE m' # m
        <5>1. /\ m' = Scored(m, at.player, d)
              /\ result'.kind = IF m'.complete THEN "match_won"
                                ELSE IF m'.setIndex # m.setIndex THEN "set_won" ELSE "point"
              /\ result'.side = SideOf(pts, at.player, d)
          BY <4>1, <4>2, <4>3 DEF Point, ScoredKind, Nothing, Answer
        <5>2. ~m.complete /\ m.firstServer # None
          BY <2>1, <3>4, PlayingFields DEF Sound
        <5>3. CASE \A w \in Player : ~Takes(pts, w)
          <6>1. m' = [m EXCEPT !.points = pts]
            BY <4>2, <5>1, <5>3 DEF Scored, Player
          <6>2. m'.setIndex = m.setIndex
            BY <2>1, <6>1 DEF Match
          <6>3. PICK y : y = m'
            OBVIOUS
          <6>4. y = [m EXCEPT !.points = pts]
            BY <6>1, <6>3
          <6>5. PointsPlayed(y) = PointsPlayed(m) + 1 =>
                  ((Serving(y) # Serving(m)) <=>
                     \/ PointsPlayed(y) % 2 = 0
                     \/ PointsPlayed(y) > 2 * (PointsPerSet - 1))
            BY <2>1, <3>4, <5>3, <6>4, PointPassesServe
          <6>6. PointStep
            BY <6>3, <6>5
          <6>7. SetStep
            BY <2>1, <6>2
          <6>8. QED
            BY <6>6, <6>7
        <5>4. CASE \E w \in Player : Takes(pts, w)
          <6>1. PICK w \in Player : Takes(pts, w) /\ m' = SetWon(m, pts, w) /\ result'.side = w
            BY <4>2, <5>1, <5>4 DEF Scored, SideOf, Player
          <6>2. m'.complete \/ m'.setIndex = m.setIndex + 1
            BY <2>1, <6>1, SetWonFields
          <6>3. PointStep
            BY <2>1, <5>1, <6>2
          <6>4. PICK y : y = m'
            OBVIOUS
          <6>5. y.setIndex = m.setIndex + 1 =>
                  Serving(y) = IF SetOpener = "loser" THEN Opponent(w) ELSE Opponent(Opener(m))
            BY <2>1, <5>2, <6>1, <6>4, NextSetOpens
          <6>6. SetStep
            BY <6>1, <6>4, <6>5
          <6>7. QED
            BY <6>3, <6>6
        <5>5. QED
          BY <5>3, <5>4
      <4>4. QED
        BY <2>2, <4>3
    <3>5. Phase(m) \in {"warmup", "change_ends", "serve_rally", "playing"}
      BY <2>4 DEF Apply, Phase
    <3>6. QED
      BY <3>1, <3>2, <3>3, <3>4, <3>5
  <2>5. CASE \E s \in Sources, id \in EventIds : UndoEvent(s, id)
    <3>1. m' = m \/ result'.kind = "undo"
      BY <2>5 DEF UndoEvent, Discard, Nothing, TakeBack, Answer
    <3>2. QED
      BY <2>2, <2>3, <3>1
  <2>6. CASE Undo
    <3>1. m' = m \/ result'.kind = "undo"
      BY <2>6 DEF Undo, TakeBack, Answer
    <3>2. QED
      BY <2>2, <2>3, <3>1
  <2>7. CASE ApplyToComplete \/ Tick \/ UNCHANGED vars
    BY <2>2, <2>7 DEF ApplyToComplete, Tick, vars
  <2>8. QED
    BY <2>4, <2>5, <2>6, <2>7 DEF Next
<1>2. QED
  BY <1>1, ScorerTypeOK, ScoreInvHolds, SetsInvHolds, PTL DEF Spec, ServeFollowsTheLaws

-----------------------------------------------------------------------------
(* The tally.  A finished score is one player's and not the other's, so    *)
(* that the sets of both add up to the finished ones; what the tally says  *)
(* holds for the match and for every match an undo may bring back.         *)

Tallied(x) ==
  /\ \A p \in Player : x.sets[p] = SetsTaken(x, p)
  /\ Len(x.completed) = x.setIndex + (IF x.complete THEN 1 ELSE 0)
  /\ Len(x.completed) = x.sets["a"] + x.sets["b"]
  /\ IF x.complete
     THEN /\ x.winner \in Player /\ Takes(x.points, x.winner)
          /\ x.sets[x.winner] = SetsToWin
          /\ x.sets[Opponent(x.winner)] < SetsToWin
     ELSE x.winner = None /\ \A p \in Player : x.sets[p] < SetsToWin

TallyInv == Tallied(m) /\ \A i \in 1..Len(undo) : Tallied(undo[i])

LEMMA SetsToWinType ==
  SetsToWin \in Nat /\ 0 < SetsToWin /\ BestOf = 2 * SetsToWin - 1
<1>1. BestOf \in Nat
  BY RulesAssumption
<1>2. BestOf % 2 = 1
  BY RulesAssumption, Zenon
<1>3. BestOf \div 2 \in Nat /\ BestOf = 2 * (BestOf \div 2) + 1
  BY <1>1, <1>2
<1>4. QED
  BY <1>1, <1>3 DEF SetsToWin

(* One more finished score is one more set for the player who takes it.    *)
LEMMA AppendedIsTaken ==
  ASSUME NEW c \in Seq(Score), NEW pts \in Score, NEW p \in Player
  PROVE  Cardinality({i \in 1..Len(Append(c, pts)) : Takes(Append(c, pts)[i], p)})
           = Cardinality({i \in 1..Len(c) : Takes(c[i], p)})
             + (IF Takes(pts, p) THEN 1 ELSE 0)
<1> DEFINE n   == Len(c)
           Old == {i \in 1..n : Takes(c[i], p)}
           New == {i \in 1..(n + 1) : Takes(Append(c, pts)[i], p)}
<1>1. /\ n \in Nat /\ Len(Append(c, pts)) = n + 1
      /\ Append(c, pts)[n + 1] = pts
      /\ \A i \in 1..n : Append(c, pts)[i] = c[i]
  OBVIOUS
<1>2. IsFiniteSet(Old) /\ Cardinality(Old) \in Nat
  <2>1. IsFiniteSet(1..n)
    BY <1>1, FS_Interval
  <2>2. Old \subseteq 1..n
    OBVIOUS
  <2>3. QED
    BY <2>1, <2>2, FS_Subset, FS_CardinalityType
<1>3. n + 1 \notin Old
  BY <1>1
<1>4. New = IF Takes(pts, p) THEN Old \cup {n + 1} ELSE Old
  <2>1. 1..(n + 1) = (1..n) \cup {n + 1}
    BY <1>1
  <2>2. \A i \in 1..n : i \in New <=> i \in Old
    BY <1>1, <2>1
  <2>3. n + 1 \in New <=> Takes(pts, p)
    BY <1>1, <2>1
  <2>4. New \subseteq (1..n) \cup {n + 1} /\ Old \subseteq 1..n
    BY <2>1
  <2> HIDE DEF New, Old
  <2>5. CASE Takes(pts, p)
    <3>1. \A i : i \in New <=> i \in Old \cup {n + 1}
      BY <2>2, <2>3, <2>4, <2>5
    <3>2. New = Old \cup {n + 1}
      BY <3>1
    <3>3. QED
      BY <2>5, <3>2
  <2>6. CASE ~Takes(pts, p)
    <3>1. \A i : i \in New <=> i \in Old
      BY <2>2, <2>3, <2>4, <2>6
    <3>2. New = Old
      BY <3>1
    <3>3. QED
      BY <2>6, <3>2
  <2>7. QED
    BY <2>5, <2>6
<1>5. Cardinality(New) = Cardinality(Old) + (IF Takes(pts, p) THEN 1 ELSE 0)
  <2> HIDE DEF New, Old
  <2>1. CASE Takes(pts, p)
    BY <1>2, <1>3, <1>4, <2>1, FS_AddElement
  <2>2. CASE ~Takes(pts, p)
    BY <1>2, <1>4, <2>2
  <2>3. QED
    BY <2>1, <2>2
<1>6. QED
  BY <1>1, <1>5

(* What a set won makes of the tally.                                      *)
LEMMA SetWonSets ==
  ASSUME NEW x \in Match, NEW pts \in Score, NEW w \in Player, ~x.complete
  PROVE  LET z == SetWon(x, pts, w) IN
         /\ z.sets = [x.sets EXCEPT ![w] = @ + 1]
         /\ IF x.sets[w] + 1 >= SetsToWin
            THEN z.complete /\ z.winner = w
            ELSE ~z.complete /\ z.winner = x.winner
<1> DEFINE y == [x EXCEPT !.points = pts, !.completed = Append(@, pts),
                          !.sets[w] = @ + 1]
           n == [y EXCEPT !.setIndex = @ + 1, !.points = Love]
<1>1. /\ y.sets = [x.sets EXCEPT ![w] = @ + 1] /\ y.sets[w] = x.sets[w] + 1
      /\ y.complete = x.complete /\ y.winner = x.winner
      /\ DOMAIN y = DOMAIN x
      /\ DOMAIN x = {"points", "sets", "setIndex", "completed", "complete",
                     "winner", "warmup", "firstServer", "endsPending", "pressed"}
  BY DEF Match, Score
<1> HIDE DEF y
<1>2. CASE y.sets[w] >= SetsToWin
  <2>1. SetWon(x, pts, w) = [y EXCEPT !.complete = TRUE, !.winner = w]
    BY <1>2 DEF SetWon, y
  <2>2. QED
    BY <1>1, <1>2, <2>1
<1>3. CASE ~(y.sets[w] >= SetsToWin)
  <2>1. SetWon(x, pts, w) = ChangedEnds(n)
    BY <1>3 DEF SetWon, y
  <2>2. /\ n.sets = y.sets /\ n.complete = y.complete /\ n.winner = y.winner
        /\ DOMAIN n = DOMAIN x
    BY <1>1
  <2> HIDE DEF n
  <2>3. /\ ChangedEnds(n).sets = n.sets
        /\ ChangedEnds(n).complete = n.complete
        /\ ChangedEnds(n).winner = n.winner
    BY <1>1, <2>2 DEF ChangedEnds
  <2>4. QED
    BY <1>1, <1>3, <2>1, <2>2, <2>3
<1>4. QED
  BY <1>2, <1>3

LEMMA SetWonTallied ==
  ASSUME NEW x \in Match, NEW pts \in Score, NEW w \in Player,
         Tallied(x), ~x.complete, Takes(pts, w)
  PROVE  Tallied(SetWon(x, pts, w))
<1> DEFINE z == SetWon(x, pts, w)
           o == Opponent(w)
<1>1. /\ x.completed \in Seq(Score) /\ x.sets \in Score /\ x.setIndex \in Nat
      /\ Len(x.completed) \in Nat /\ SetsToWin \in Nat
      /\ \A p \in Player : x.sets[p] \in Nat
  BY SetsToWinType DEF Match, Score
<1>2. /\ o \in Player /\ o # w /\ ~Takes(pts, o)
      /\ \A p \in Player : p = w \/ p = o
  BY DEF Takes, Opponent, Player, Score, WinBy
<1>3. /\ z.completed = Append(x.completed, pts)
      /\ IF z.complete THEN z.points = pts /\ z.setIndex = x.setIndex
         ELSE z.setIndex = x.setIndex + 1
  <2>1. \/ z.complete /\ z.points = pts /\ z.setIndex = x.setIndex
        \/ z.complete = x.complete /\ z.setIndex = x.setIndex + 1
    BY SetWonFields
  <2>2. z.completed = Append(x.completed, pts)
    BY SetWonFields
  <2> HIDE DEF z
  <2>3. QED
    BY <2>1, <2>2
<1>4. /\ z.sets = [x.sets EXCEPT ![w] = @ + 1]
      /\ IF x.sets[w] + 1 >= SetsToWin
         THEN z.complete /\ z.winner = w
         ELSE ~z.complete /\ z.winner = x.winner
  BY SetWonSets
<1> HIDE DEF z, o
<1>5. z.sets[w] = x.sets[w] + 1 /\ z.sets[o] = x.sets[o]
  BY <1>1, <1>2, <1>4 DEF Score
<1>6. /\ \A p \in Player : x.sets[p] = SetsTaken(x, p) /\ x.sets[p] < SetsToWin
      /\ Len(x.completed) = x.setIndex
      /\ Len(x.completed) = x.sets["a"] + x.sets["b"] /\ x.winner = None
  BY <1>1 DEF Tallied
<1>7. \A p \in Player : z.sets[p] = SetsTaken(z, p)
  <2>1. \A p \in Player :
          SetsTaken(z, p) = SetsTaken(x, p) + (IF Takes(pts, p) THEN 1 ELSE 0)
    BY <1>1, <1>3, AppendedIsTaken DEF SetsTaken
  <2>2. z.sets[w] = SetsTaken(z, w)
    BY <1>1, <1>5, <1>6, <2>1
  <2>3. z.sets[o] = SetsTaken(z, o)
    BY <1>1, <1>2, <1>5, <1>6, <2>1
  <2>4. QED
    BY <1>2, <2>2, <2>3
<1>8. Len(z.completed) = x.setIndex + 1
  BY <1>1, <1>3, <1>6
<1>9. Len(z.completed) = z.setIndex + (IF z.complete THEN 1 ELSE 0)
  BY <1>1, <1>3, <1>8
<1>10. Len(z.completed) = z.sets["a"] + z.sets["b"]
  <2>1. (w = "a" /\ o = "b") \/ (w = "b" /\ o = "a")
    BY DEF o, Opponent, Player
  <2>2. x.sets["a"] \in Nat /\ x.sets["b"] \in Nat
    BY <1>1 DEF Player
  <2>3. Len(z.completed) = x.sets["a"] + x.sets["b"] + 1
    BY <1>6, <1>8
  <2>4. CASE w = "a" /\ o = "b"
    <3>1. z.sets["a"] = x.sets["a"] + 1 /\ z.sets["b"] = x.sets["b"]
      BY <1>5, <2>4
    <3>2. QED
      BY <2>2, <2>3, <3>1
  <2>5. CASE w = "b" /\ o = "a"
    <3>1. z.sets["a"] = x.sets["a"] /\ z.sets["b"] = x.sets["b"] + 1
      BY <1>5, <2>5
    <3>2. QED
      BY <2>2, <2>3, <3>1
  <2>6. QED
    BY <2>1, <2>4, <2>5
<1>11. ASSUME x.sets[w] + 1 >= SetsToWin PROVE Tallied(z)
  <2>1. z.complete /\ z.winner = w /\ z.points = pts
    BY <1>3, <1>4, <1>11
  <2>2. z.sets[w] = SetsToWin /\ z.sets[o] < SetsToWin
    BY <1>1, <1>2, <1>5, <1>6, <1>11
  <2>3. Opponent(w) = o
    BY DEF o
  <2>4. QED
    BY <1>7, <1>9, <1>10, <2>1, <2>2, <2>3, Takes(pts, w) DEF Tallied
<1>12. ASSUME ~(x.sets[w] + 1 >= SetsToWin) PROVE Tallied(z)
  <2>1. ~z.complete /\ z.winner = None
    BY <1>4, <1>6, <1>12
  <2>2. \A p \in Player : z.sets[p] < SetsToWin
    BY <1>1, <1>2, <1>5, <1>6, <1>12
  <2>3. z.winner = None /\ \A p \in Player : z.sets[p] < SetsToWin
    BY <2>1, <2>2
  <2>4. QED
    BY <1>7, <1>9, <1>10, <2>1, <2>3 DEF Tallied
<1>13. QED
  BY <1>11, <1>12 DEF z

(* Everything but a finished set leaves the tally alone.                   *)
LEMMA SameTally ==
  ASSUME NEW x \in Match, NEW y \in Match, Tallied(x), ~x.complete,
         y.sets = x.sets, y.completed = x.completed, y.setIndex = x.setIndex,
         y.complete = x.complete, y.winner = x.winner
  PROVE  Tallied(y)
BY DEF Tallied, SetsTaken

LEMMA ScoredTallied ==
  ASSUME NEW x \in Match, NEW p \in Player, NEW d \in Deltas,
         Tallied(x), ~x.complete
  PROVE  Tallied(Scored(x, p, d))
<1> DEFINE pts == PointsAfter(x, p, d)
           z   == Scored(x, p, d)
<1>1. pts \in Score
  BY PointsAfterType
<1>2. CASE \E w \in Player : Takes(pts, w)
  <2>1. \E w \in Player : Takes(pts, w) /\ z = SetWon(x, pts, w)
    BY <1>2 DEF Scored, Player
  <2>2. QED
    BY <1>1, <2>1, SetWonTallied
<1>3. CASE \A w \in Player : ~Takes(pts, w)
  <2>1. z = [x EXCEPT !.points = pts]
    BY <1>3 DEF Scored, Player
  <2>2. /\ z.sets = x.sets /\ z.completed = x.completed
        /\ z.setIndex = x.setIndex /\ z.complete = x.complete
        /\ z.winner = x.winner /\ z \in Match
    BY <1>1, <2>1 DEF Match
  <2> HIDE DEF z
  <2>3. Tallied(z)
    BY <2>2, SameTally
  <2>4. QED
    BY <2>3 DEF z
<1>4. QED
  BY <1>2, <1>3

LEMMA PressTallied ==
  ASSUME NEW x \in Match, Tallied(x), ~x.complete, NEW h \in Half, NEW p \in Player
  PROVE  Tallied(Confirmed(x, h)) /\ Tallied(ServeDecided(x, p))
<1>1. /\ Confirmed(x, h).sets = x.sets
      /\ Confirmed(x, h).completed = x.completed
      /\ Confirmed(x, h).setIndex = x.setIndex
      /\ Confirmed(x, h).complete = x.complete
      /\ Confirmed(x, h).winner = x.winner
  BY DEF Confirmed, Match
<1>2. /\ ServeDecided(x, p).sets = x.sets
      /\ ServeDecided(x, p).completed = x.completed
      /\ ServeDecided(x, p).setIndex = x.setIndex
      /\ ServeDecided(x, p).complete = x.complete
      /\ ServeDecided(x, p).winner = x.winner
  BY DEF ServeDecided, Match
<1>3. Confirmed(x, h) \in Match /\ ServeDecided(x, p) \in Match
  BY ConfirmedType DEF ServeDecided, Match
<1>4. QED
  BY <1>1, <1>2, <1>3, SameTally

LEMMA ApplyTallyInv ==
  ASSUME TypeOK, TallyInv, NEW s \in Sources, NEW id \in EventIds,
         NEW t \in Player \cup Half, NEW d \in Deltas, Apply(s, id, t, d)
  PROVE  TallyInv'
<1> DEFINE at == Resolve(t)
<1>1. at.player \in Player /\ at.half \in Half
  BY ResolveType
<1>2. m \in Match /\ Tallied(m) /\ ~m.complete /\ undo \in Seq(Match)
  BY DEF TypeOK, TallyInv, Apply
<1>3. CASE m' = m /\ undo' = undo
  BY <1>3 DEF TallyInv
<1>4. ASSUME Tallied(m'), undo' = Push PROVE TallyInv'
  <2>1. \A i \in 1..Len(Push) : Tallied(Push[i])
    BY <1>2, PushElements DEF TallyInv
  <2>2. \A i \in 1..Len(undo') : Tallied(undo'[i])
    BY <1>4, <2>1
  <2>3. QED
    BY <1>4, <2>2 DEF TallyInv
<1>5. CASE Phase(m) \in {"warmup", "change_ends"} /\ ~Discard(s, id)
  <2>1. Confirm(at.half, at.player, d)
    BY <1>5 DEF Apply
  <2>2. CASE m' = Confirmed(m, at.half) /\ undo' = undo
    <3>1. Tallied(m')
      BY <1>1, <1>2, <2>2, PressTallied
    <3>2. QED
      BY <3>1, <2>2 DEF TallyInv
  <2>3. QED
    BY <1>3, <2>1, <2>2 DEF Confirm, Nothing
<1>6. CASE Phase(m) = "serve_rally" /\ ~Discard(s, id)
  <2>1. DecideServe(at.player, d)
    BY <1>6 DEF Apply
  <2>2. CASE m' = ServeDecided(m, at.player) /\ undo' = Push
    <3>1. Tallied(m')
      BY <1>1, <1>2, <2>2, PressTallied
    <3>2. QED
      BY <1>4, <2>2, <3>1
  <2>3. QED
    BY <1>3, <2>1, <2>2 DEF DecideServe, Nothing
<1>7. CASE Phase(m) = "playing" /\ ~Discard(s, id)
  <2>1. Point(at.player, d)
    BY <1>7 DEF Apply
  <2>2. CASE m' = Scored(m, at.player, d) /\ undo' = Push
    BY <1>1, <1>2, <1>4, <2>2, ScoredTallied
  <2>3. QED
    BY <1>3, <2>1, <2>2 DEF Point, Nothing
<1>8. CASE Discard(s, id)
  BY <1>3, <1>8 DEF Discard
<1>9. Phase(m) \in {"warmup", "change_ends", "serve_rally", "playing"}
  BY DEF Apply, Phase
<1>10. QED
  BY <1>5, <1>6, <1>7, <1>8, <1>9

LEMMA TakeBackTallyInv ==
  ASSUME TypeOK, TallyInv, undo # <<>>, TakeBack
  PROVE  TallyInv'
<1>1. Len(undo) \in 1..Len(undo) /\ Len(undo) - 1 \in Nat
  BY DEF TypeOK
<1>2. m' = undo[Len(undo)] /\ Len(undo') = Len(undo) - 1
      /\ \A i \in 1..(Len(undo) - 1) : undo'[i] = undo[i]
  BY TakeBackElements DEF TypeOK
<1>3. Tallied(m')
  BY <1>1, <1>2 DEF TallyInv
<1>4. \A i \in 1..Len(undo') : Tallied(undo'[i])
  BY <1>1, <1>2 DEF TallyInv
<1>5. QED
  BY <1>3, <1>4 DEF TallyInv

LEMMA NewMatchTallied == Tallied(NewMatch)
<1>1. \A p \in Player : SetsTaken(NewMatch, p) = 0
  <2> SUFFICES ASSUME NEW p \in Player PROVE SetsTaken(NewMatch, p) = 0
    OBVIOUS
  <2>1. {i \in 1..Len(NewMatch.completed) : Takes(NewMatch.completed[i], p)} = {}
    BY DEF NewMatch
  <2>2. QED
    BY <2>1, FS_EmptySet DEF SetsTaken
<1>2. /\ NewMatch.sets = Love /\ NewMatch.completed = <<>>
      /\ NewMatch.setIndex = 0 /\ ~NewMatch.complete /\ NewMatch.winner = None
  BY DEF NewMatch
<1>3. SetsToWin \in Nat /\ 0 < SetsToWin
  BY SetsToWinType
<1>4. Love["a"] = 0 /\ Love["b"] = 0 /\ \A p \in Player : Love[p] = 0
  BY DEF Love, Player
<1>5. QED
  BY <1>1, <1>2, <1>3, <1>4 DEF Tallied

(* The sets of the two are what the finished scores say, the match ends    *)
(* with the first to reach SetsToWin, on the score that wins it, and never *)
(* runs past BestOf sets, also across corrections and undos that reach     *)
(* back over a set or the match point (match.sets, completed, setIndex and *)
(* winner, setWinner and takeBack in scorer.go).                           *)
THEOREM ScorerTallyAgrees == Spec => []TallyAgrees
<1>1. Init => TallyInv
  BY NewMatchTallied DEF Init, TallyInv
<1>2. TypeOK /\ TallyInv /\ [Next]_vars => TallyInv'
  <2> SUFFICES ASSUME TypeOK, TallyInv, [Next]_vars PROVE TallyInv'
    OBVIOUS
  <2>1. CASE \E s \in Sources, id \in EventIds :
               \E t \in Player \cup Half, d \in Deltas : Apply(s, id, t, d)
    BY <2>1, ApplyTallyInv
  <2>2. CASE m' = m /\ undo' = undo
    BY <2>2 DEF TallyInv
  <2>3. CASE \E s \in Sources, id \in EventIds : UndoEvent(s, id)
    BY <2>2, <2>3, TakeBackTallyInv DEF UndoEvent, Discard, Nothing
  <2>4. CASE Undo
    BY <2>2, <2>4, TakeBackTallyInv DEF Undo
  <2>5. CASE ApplyToComplete \/ Tick \/ UNCHANGED vars
    BY <2>2, <2>5 DEF ApplyToComplete, Tick, vars
  <2>6. QED
    BY <2>1, <2>3, <2>4, <2>5 DEF Next
<1>3. TypeOK /\ TallyInv => TallyAgrees
  <2> SUFFICES ASSUME TypeOK, TallyInv PROVE TallyAgrees
    OBVIOUS
  <2>1. m \in Match /\ Tallied(m)
    BY DEF TypeOK, TallyInv
  <2>2. \A p \in Player : m.sets[p] \in Nat
    BY <2>1 DEF Match, Score
  <2>3. BestOf = 2 * SetsToWin - 1 /\ SetsToWin \in Nat
    BY SetsToWinType
  <2>4. Len(m.completed) <= BestOf
    <3>1. m.sets["a"] + m.sets["b"] <= 2 * SetsToWin - 1
      <4>1. CASE m.complete
        <5>1. \E w \in Player : /\ m.sets[w] = SetsToWin
                                /\ m.sets[Opponent(w)] < SetsToWin
          BY <2>1, <4>1 DEF Tallied
        <5>2. QED
          BY <2>2, <2>3, <5>1 DEF Player, Opponent
      <4>2. CASE ~m.complete
        <5>1. m.sets["a"] < SetsToWin /\ m.sets["b"] < SetsToWin
          BY <2>1, <4>2 DEF Tallied, Player
        <5>2. QED
          BY <2>2, <2>3, <5>1 DEF Player
      <4>3. QED
        BY <4>1, <4>2
    <3>2. QED
      BY <2>1, <2>3, <3>1 DEF Tallied
  <2>5. QED
    BY <2>1, <2>4 DEF Tallied, TallyAgrees
<1>4. QED
  BY <1>1, <1>2, <1>3, ScorerTypeOK, PTL DEF Spec
-----------------------------------------------------------------------------
(* Chain: the matches its clients score into.                              *)

TableMatch ==
  [demo : BOOLEAN, wanted : BOOLEAN, ended : BOOLEAN, log : Seq(Event), back : Nat,
   counted : Seq(Event), seen : [Senders \cup {Page} -> Nat]]

(* What has counted in x lies at or below its source's watermark, and each *)
(* once.                                                                   *)
CountedOnceIn(x) ==
  /\ \A n \in 1..Len(x.counted) : x.counted[n].id <= x.seen[x.counted[n].source]
  /\ \A n, k \in 1..Len(x.counted) :
       n # k /\ x.counted[n].source = x.counted[k].source => x.counted[n].id # x.counted[k].id

Keeps(x) == x \in TableMatch /\ x.back <= Len(x.log) /\ CountedOnceIn(x)

MatchesInv == matches \in Seq(TableMatch) /\ Len(matches) <= MaxMatches
              /\ \A i \in Matches : Keeps(matches[i])

(* What one request makes of one match.                                    *)
SameSetup(x, y) == y.demo = x.demo /\ y.wanted = x.wanted

Counts(x, e, y) ==
  /\ e.id > x.seen[e.source] /\ y.seen = [x.seen EXCEPT ![e.source] = e.id]
  /\ y.counted \in {x.counted, Append(x.counted, e)}

LEMMA TakenBackKeeps ==
  ASSUME NEW x, Keeps(x)
  PROVE  /\ Keeps(TakenBack(x)) /\ SameSetup(x, TakenBack(x))
         /\ TakenBack(x).ended = x.ended
         /\ TakenBack(x).counted = x.counted /\ TakenBack(x).seen = x.seen
<1>1. CASE x.back = 0
  BY <1>1 DEF TakenBack, SameSetup
<1>2. CASE x.back # 0
  <2>1. x.log \in Seq(Event) /\ Len(x.log) \in Nat /\ Len(x.log) >= x.back /\ x.back \in Nat
    BY DEF Keeps, TableMatch
  <2>2. Front(x.log) \in Seq(Event) /\ Len(Front(x.log)) = Len(x.log) - 1
    BY <1>2, <2>1 DEF Front
  <2>3. TakenBack(x) = [x EXCEPT !.log = Front(x.log), !.back = x.back - 1]
    BY <1>2 DEF TakenBack
  <2>4. x.back - 1 \in Nat
    BY <1>2, <2>1
  <2>5. TakenBack(x) \in TableMatch
    BY <2>2, <2>3, <2>4 DEF Keeps, TableMatch
  <2>6. TakenBack(x).log = Front(x.log) /\ TakenBack(x).back = x.back - 1
        /\ TakenBack(x).counted = x.counted /\ TakenBack(x).seen = x.seen
        /\ TakenBack(x).ended = x.ended /\ SameSetup(x, TakenBack(x))
    BY <2>3 DEF Keeps, TableMatch, SameSetup
  <2>7. QED
    BY <2>1, <2>2, <2>5, <2>6 DEF Keeps, CountedOnceIn
<1>3. QED
  BY <1>1, <1>2

LEMMA CountedKeeps ==
  ASSUME NEW x, Keeps(x), NEW e \in Event, NEW y \in TableMatch, y.back <= Len(y.log), Counts(x, e, y)
  PROVE  Keeps(y)
<1>1. x \in TableMatch /\ x.counted \in Seq(Event) /\ x.seen \in [Senders \cup {Page} -> Nat]
      /\ e.id \in Nat /\ e.source \in Senders \cup {Page}
  BY DEF Keeps, TableMatch, Event
<1>2. \A s \in Senders \cup {Page} : x.seen[s] <= y.seen[s] /\ x.seen[s] \in Nat /\ y.seen[s] \in Nat
  BY <1>1 DEF Counts
<1>3. y.seen[e.source] = e.id
  BY <1>1 DEF Counts
<1>4. \A n \in 1..Len(x.counted) :
        /\ x.counted[n] \in Event /\ x.counted[n].id \in Nat
        /\ x.counted[n].source \in Senders \cup {Page}
        /\ x.counted[n].id <= x.seen[x.counted[n].source]
  <2>1. \A n \in 1..Len(x.counted) : x.counted[n] \in Event
    BY <1>1
  <2>2. \A z \in Event : z.id \in Nat /\ z.source \in Senders \cup {Page}
    BY DEF Event
  <2>3. \A n \in 1..Len(x.counted) : x.counted[n].id <= x.seen[x.counted[n].source]
    BY DEF Keeps, CountedOnceIn
  <2>4. QED
    BY <2>1, <2>2, <2>3
<1>5. CASE y.counted = x.counted
  <2>1. \A n \in 1..Len(x.counted) : x.counted[n].id <= y.seen[x.counted[n].source]
    BY <1>2, <1>4
  <2>2. QED
    BY <1>5, <2>1 DEF Keeps, CountedOnceIn
<1>6. CASE y.counted = Append(x.counted, e)
  <2>1. Len(y.counted) = Len(x.counted) + 1 /\ y.counted[Len(x.counted) + 1] = e
        /\ \A n \in 1..Len(x.counted) : y.counted[n] = x.counted[n]
    BY <1>1, <1>6
  <2>2. Len(x.counted) \in Nat
    BY <1>1
  <2>3. \A n \in 1..Len(y.counted) : n \in 1..Len(x.counted) \/ n = Len(x.counted) + 1
    BY <2>1, <2>2
  <2>4. \A n \in 1..Len(y.counted) : y.counted[n].id <= y.seen[y.counted[n].source]
    <3> SUFFICES ASSUME NEW n \in 1..Len(y.counted)
                 PROVE  y.counted[n].id <= y.seen[y.counted[n].source]
      OBVIOUS
    <3>1. CASE n \in 1..Len(x.counted)
      <4> DEFINE c == x.counted[n]
      <4>1. c.id \in Nat /\ c.source \in Senders \cup {Page} /\ c.id <= x.seen[c.source]
        BY <1>4, <3>1
      <4>2. c.id <= y.seen[c.source]
        <5> HIDE DEF c
        <5> QED
          BY <1>2, <4>1
      <4>3. QED
        BY <2>1, <3>1, <4>2
    <3>2. CASE n = Len(x.counted) + 1
      BY <1>1, <1>3, <2>1, <3>2
    <3>3. QED
      BY <2>3, <3>1, <3>2
  <2>5. \A n \in 1..Len(x.counted) : x.counted[n].source = e.source => x.counted[n].id # e.id
    <3> SUFFICES ASSUME NEW n \in 1..Len(x.counted), x.counted[n].source = e.source
                 PROVE  x.counted[n].id # e.id
      OBVIOUS
    <3>1. x.counted[n].id <= x.seen[e.source] /\ x.seen[e.source] \in Nat /\ x.counted[n].id \in Nat
      BY <1>1, <1>4
    <3>2. e.id > x.seen[e.source]
      BY DEF Counts
    <3>3. QED
      BY <1>1, <3>1, <3>2
  <2>6. \A n, k \in 1..Len(x.counted) :
          n # k /\ x.counted[n].source = x.counted[k].source => x.counted[n].id # x.counted[k].id
    BY DEF Keeps, CountedOnceIn
  <2>7. \A n, k \in 1..Len(y.counted) :
          n # k /\ y.counted[n].source = y.counted[k].source => y.counted[n].id # y.counted[k].id
    BY <2>1, <2>3, <2>5, <2>6
  <2>8. QED
    BY <2>4, <2>7 DEF Keeps, CountedOnceIn
<1>7. QED
  BY <1>5, <1>6 DEF Counts

(* An event is refused, known, or counts.                                  *)
LEMMA IngestedKeeps ==
  ASSUME NEW x, Keeps(x), NEW e \in Event
  PROVE  /\ Keeps(Ingested(x, e)) /\ SameSetup(x, Ingested(x, e))
         /\ Ingested(x, e).ended = x.ended
         /\ Ingested(x, e) = x \/ Counts(x, e, Ingested(x, e))
         /\ ~Refuses(x, e) => e.id <= Ingested(x, e).seen[e.source]
<1>1. x \in TableMatch /\ x.counted \in Seq(Event) /\ x.seen \in [Senders \cup {Page} -> Nat]
      /\ x.log \in Seq(Event) /\ x.back \in Nat /\ x.back <= Len(x.log) /\ Len(x.log) \in Nat
      /\ e.id \in Nat /\ e.source \in Senders \cup {Page} /\ x.seen[e.source] \in Nat
  BY DEF Keeps, TableMatch, Event
<1>2. CASE Refuses(x, e) \/ ~Accepts(x, e)
  <2>1. Ingested(x, e) = x
    BY <1>2 DEF Ingested
  <2>2. ~Accepts(x, e) => e.id <= x.seen[e.source]
    BY <1>1 DEF Accepts
  <2>3. QED
    BY <1>2, <2>1, <2>2 DEF SameSetup
<1>3. CASE ~Refuses(x, e) /\ Accepts(x, e)
  <2> DEFINE s == [x EXCEPT !.seen[e.source] = e.id]
             y == Ingested(x, e)
  <2>1. e.id > x.seen[e.source]
    BY <1>3 DEF Accepts
  <2>2. [x.seen EXCEPT ![e.source] = e.id] \in [Senders \cup {Page} -> Nat]
    BY <1>1
  <2>3. s \in TableMatch /\ s.back = x.back /\ s.log = x.log /\ s.counted = x.counted
        /\ s.ended = x.ended /\ SameSetup(x, s) /\ s.seen = [x.seen EXCEPT ![e.source] = e.id]
    BY <1>1, <2>2 DEF TableMatch, SameSetup
  <2>4. Counts(x, e, s)
    BY <2>1, <2>3 DEF Counts
  <2>5. Keeps(s)
    BY <1>1, <2>3, <2>4, CountedKeeps
  <2> HIDE DEF s
  <2>6. Append(x.counted, e) \in Seq(Event) /\ Append(x.log, e) \in Seq(Event)
        /\ Len(Append(x.log, e)) = Len(x.log) + 1
    BY <1>1
  <2>7. e.kind \in {"point", "miss", "undo"}
    BY DEF Event
  <2>8. CASE e.kind = "miss" \/ (e.kind = "undo" /\ x.back = 0)
    <3>1. y = s
      BY <1>1, <1>3, <2>8 DEF Ingested, s
    <3>2. s.seen[e.source] = e.id
      BY <1>1, <2>3
    <3>3. QED
      BY <1>1, <2>3, <2>4, <2>5, <3>1, <3>2
  <2>9. CASE e.kind = "point"
    <3>1. y = Pushed(s, e)
      BY <1>3, <2>9 DEF Ingested, s
    <3> DEFINE b == IF Len(s.log) % SetLength = 0 THEN 1 ELSE s.back + 1
    <3>2. y = [s EXCEPT !.log = Append(s.log, e), !.back = b, !.counted = Append(s.counted, e)]
      BY <3>1 DEF Pushed
    <3>3. b \in Nat /\ b <= Len(x.log) + 1
      BY <1>1, <2>3
    <3> HIDE DEF b
    <3>4. y \in TableMatch
      BY <2>3, <2>6, <3>2, <3>3 DEF TableMatch
    <3>5. y.back = b /\ y.log = Append(x.log, e) /\ y.counted = Append(x.counted, e)
          /\ y.seen = s.seen /\ y.ended = s.ended /\ SameSetup(s, y)
      BY <2>3, <3>2 DEF TableMatch, SameSetup
    <3>6. Counts(x, e, y) /\ y.back <= Len(y.log)
      BY <2>1, <2>3, <2>6, <3>3, <3>5 DEF Counts
    <3>7. Keeps(y)
      BY <3>4, <3>6, CountedKeeps
    <3>8. y.seen[e.source] = e.id
      BY <1>1, <2>3, <3>5
    <3>9. QED
      BY <1>1, <2>3, <3>5, <3>6, <3>7, <3>8 DEF SameSetup
  <2>10. CASE e.kind = "undo" /\ x.back # 0
    <3> DEFINE t == TakenBack(s)
    <3>1. x.back > 0
      BY <1>1, <2>10
    <3>2. y = [t EXCEPT !.counted = Append(t.counted, e)]
      BY <1>1, <1>3, <2>10, <3>1 DEF Ingested, s
    <3>3. Keeps(t) /\ SameSetup(s, t) /\ t.ended = s.ended /\ t.counted = s.counted /\ t.seen = s.seen
      BY <2>5, TakenBackKeeps
    <3> HIDE DEF t
    <3>10. t \in TableMatch /\ t.counted = x.counted
      BY <2>3, <3>3 DEF Keeps
    <3>4. y \in TableMatch
      BY <2>6, <3>2, <3>10 DEF TableMatch
    <3>5. y.back = t.back /\ y.log = t.log /\ y.counted = Append(x.counted, e)
          /\ y.seen = s.seen /\ y.ended = s.ended /\ SameSetup(s, y)
      BY <2>3, <3>2, <3>3 DEF TableMatch, SameSetup, Keeps
    <3>6. Counts(x, e, y) /\ y.back <= Len(y.log)
      BY <2>1, <2>3, <3>3, <3>5 DEF Counts, Keeps
    <3>7. Keeps(y)
      BY <3>4, <3>6, CountedKeeps
    <3>8. y.seen[e.source] = e.id
      BY <1>1, <2>3, <3>5
    <3>9. QED
      BY <1>1, <2>3, <3>5, <3>6, <3>7, <3>8 DEF SameSetup
  <2>11. QED
    BY <2>7, <2>8, <2>9, <2>10
<1>4. QED
  BY <1>2, <1>3
(* One request: an event of E at a match of I, a match started, ended or   *)
(* corrected on the page, or nothing.                                      *)
Requests(I, E) ==
  \/ UNCHANGED matches
  \/ \E i \in I \cup {0}, e \in E : Ingest(i, e)
  \/ \E demo, wanted \in BOOLEAN : StartMatch(demo, wanted)
  \/ \E i \in Matches : EndMatch(i) \/ PageUndo(i)

(* What a request may do to match i, and the match it may start.           *)
Served(I, E, i) ==
  /\ SameSetup(matches[i], matches'[i])
  /\ \/ matches'[i].counted = matches[i].counted /\ matches'[i].seen = matches[i].seen
     \/ i \in I /\ \E e \in E : Counts(matches[i], e, matches'[i])

Started(x) ==
  /\ x.counted = <<>>
  /\ x.demo => \A i \in Matches : Running(matches[i]) => matches[i].demo

Progress(I, E) ==
  /\ MatchesInv'
  /\ \A i \in Matches : Served(I, E, i)
  /\ \/ Len(matches') = Len(matches)
     \/ Len(matches') = Len(matches) + 1 /\ Started(matches'[Len(matches')])

LEMMA OneMatchChanges ==
  ASSUME MatchesInv, NEW I, NEW E, NEW i \in Matches, NEW y,
         matches' = [matches EXCEPT ![i] = y], Keeps(y), Served(I, E, i)
  PROVE  Progress(I, E)
<1>1. matches \in Seq(TableMatch) /\ Len(matches) \in Nat /\ y \in TableMatch
  BY DEF MatchesInv, Keeps
<1>2. matches' \in Seq(TableMatch) /\ Len(matches') = Len(matches)
      /\ \A j \in Matches : matches'[j] = IF j = i THEN y ELSE matches[j]
  BY <1>1 DEF Matches
<1>3. Matches' = Matches
  BY <1>2 DEF Matches
<1>4. MatchesInv'
  BY <1>1, <1>2, <1>3 DEF MatchesInv
<1>5. \A j \in Matches : Served(I, E, j)
  BY <1>2 DEF Served, SameSetup
<1>6. QED
  BY <1>2, <1>4, <1>5 DEF Progress

LEMMA RequestsProgress ==
  ASSUME MatchesInv, NEW I, I \subseteq Matches, NEW E, E \subseteq Event, Requests(I, E)
  PROVE  Progress(I, E)
<1>1. CASE UNCHANGED matches
  <2>1. MatchesInv'
    BY <1>1 DEF MatchesInv, Matches, Keeps, CountedOnceIn
  <2>2. \A i \in Matches : Served(I, E, i)
    BY <1>1 DEF Served, SameSetup
  <2>3. QED
    BY <1>1, <2>1, <2>2 DEF Progress
<1>2. ASSUME NEW i \in I \cup {0}, NEW e \in E, Ingest(i, e)
      PROVE  Progress(I, E)
  <2>1. CASE i = 0
    BY <1>1, <1>2, <2>1 DEF Ingest
  <2>2. CASE i # 0
    <3>1. i \in I /\ i \in Matches /\ e \in Event
      BY <2>2
    <3>2. matches' = [matches EXCEPT ![i] = Ingested(matches[i], e)]
      BY <1>2, <2>2 DEF Ingest
    <3>3. matches'[i] = Ingested(matches[i], e)
      BY <3>1, <3>2 DEF MatchesInv, Matches
    <3>4. Keeps(matches[i])
      BY <3>1 DEF MatchesInv
    <3>5. Keeps(matches'[i]) /\ SameSetup(matches[i], matches'[i])
          /\ (matches'[i] = matches[i] \/ Counts(matches[i], e, matches'[i]))
      BY <3>1, <3>3, <3>4, IngestedKeeps
    <3>6. Served(I, E, i)
      BY <3>1, <3>5 DEF Served
    <3>7. QED
      BY <3>1, <3>2, <3>3, <3>5, <3>6, OneMatchChanges
  <2>3. QED
    BY <2>1, <2>2
<1>3. ASSUME NEW demo \in BOOLEAN, NEW wanted \in BOOLEAN, StartMatch(demo, wanted)
      PROVE  Progress(I, E)
  <2> DEFINE f == Fresh(demo, wanted)
             ended == [i \in Matches |->
                         [matches[i] EXCEPT !.ended = @ \/ (~demo /\ matches[i].demo
                                                             /\ Running(matches[i]))]]
  <2>1. matches \in Seq(TableMatch) /\ Len(matches) \in Nat
    BY DEF MatchesInv
  <2>2. matches' = Append(ended, f) /\ Len(matches) < MaxMatches
    BY <1>3 DEF StartMatch
  <2>3. f \in TableMatch /\ f.demo = demo /\ f.counted = <<>> /\ f.back <= Len(f.log)
    BY DEF Fresh, TableMatch
  <2>4. \A i \in Matches :
          /\ ended[i] \in TableMatch /\ Keeps(ended[i]) /\ SameSetup(matches[i], ended[i])
          /\ ended[i].counted = matches[i].counted /\ ended[i].seen = matches[i].seen
    <3> SUFFICES ASSUME NEW i \in Matches
                 PROVE  /\ ended[i] \in TableMatch /\ Keeps(ended[i]) /\ SameSetup(matches[i], ended[i])
                        /\ ended[i].counted = matches[i].counted /\ ended[i].seen = matches[i].seen
      OBVIOUS
    <3>1. matches[i] \in TableMatch /\ matches[i].back <= Len(matches[i].log) /\ CountedOnceIn(matches[i])
      BY DEF MatchesInv, Keeps
    <3>2. PICK b \in BOOLEAN : ended[i] = [matches[i] EXCEPT !.ended = b]
      <4>1. matches[i].ended \in BOOLEAN
        BY <3>1 DEF TableMatch
      <4> DEFINE b == matches[i].ended \/ (~demo /\ matches[i].demo /\ Running(matches[i]))
      <4>2. b \in BOOLEAN /\ ended[i] = [matches[i] EXCEPT !.ended = b]
        OBVIOUS
      <4> QED
        BY <4>2
    <3>3. ended[i] \in TableMatch /\ ended[i].back = matches[i].back /\ ended[i].log = matches[i].log
          /\ ended[i].counted = matches[i].counted /\ ended[i].seen = matches[i].seen
          /\ SameSetup(matches[i], ended[i])
      BY <3>1, <3>2 DEF TableMatch, SameSetup
    <3>4. QED
      BY <3>1, <3>3 DEF Keeps, CountedOnceIn
  <2>5. ended \in Seq(TableMatch) /\ Len(ended) = Len(matches)
    <3>1. ended \in [1..Len(matches) -> TableMatch]
      BY <2>4 DEF Matches
    <3>2. QED
      BY <2>1, <3>1
  <2> HIDE DEF f, ended
  <2>6. matches' \in Seq(TableMatch) /\ Len(matches') = Len(matches) + 1
        /\ matches'[Len(matches) + 1] = f /\ \A i \in Matches : matches'[i] = ended[i]
    BY <2>2, <2>3, <2>5 DEF Matches
  <2>7. Keeps(f)
    BY <2>3 DEF Keeps, CountedOnceIn
  <2>8. \A i \in Matches' : i \in Matches \/ i = Len(matches) + 1
    BY <2>1, <2>6 DEF Matches
  <2>9. MatchesInv'
    <3>1. \A i \in Matches' : Keeps(matches'[i])
      BY <2>4, <2>6, <2>7, <2>8
    <3>2. Len(matches') <= MaxMatches
      BY <2>1, <2>2, <2>6, ZaehlwerkAssumption
    <3>3. QED
      BY <2>6, <3>1, <3>2 DEF MatchesInv
  <2>10. \A i \in Matches : Served(I, E, i)
    BY <2>4, <2>6 DEF Served
  <2>11. Started(f)
    BY <1>3, <2>3 DEF Started, StartMatch
  <2>12. QED
    BY <2>6, <2>9, <2>10, <2>11 DEF Progress
<1>4. ASSUME NEW i \in Matches, EndMatch(i)
      PROVE  Progress(I, E)
  <2> DEFINE y == [matches[i] EXCEPT !.ended = TRUE]
  <2>1. matches' = [matches EXCEPT ![i] = y] /\ matches'[i] = y
    <3>1. matches' = [matches EXCEPT ![i] = y]
      BY <1>4 DEF EndMatch
    <3>2. matches \in Seq(TableMatch) /\ i \in DOMAIN matches
      BY DEF MatchesInv, Matches
    <3> HIDE DEF y
    <3>3. QED
      BY <3>1, <3>2
  <2>2. Keeps(matches[i])
    BY DEF MatchesInv
  <2>3. y \in TableMatch /\ y.back = matches[i].back /\ y.log = matches[i].log
        /\ y.counted = matches[i].counted /\ y.seen = matches[i].seen /\ SameSetup(matches[i], y)
    BY <2>2 DEF Keeps, TableMatch, SameSetup
  <2>4. Keeps(y)
    BY <2>2, <2>3 DEF Keeps, CountedOnceIn
  <2>5. Served(I, E, i)
    BY <2>1, <2>3 DEF Served
  <2>6. QED
    BY <2>1, <2>4, <2>5, OneMatchChanges
<1>5. ASSUME NEW i \in Matches, PageUndo(i)
      PROVE  Progress(I, E)
  <2>1. matches' = [matches EXCEPT ![i] = TakenBack(matches[i])] /\ matches'[i] = TakenBack(matches[i])
    BY <1>5 DEF PageUndo, MatchesInv, Matches
  <2>2. Keeps(matches[i])
    BY DEF MatchesInv
  <2>3. Served(I, E, i) /\ Keeps(TakenBack(matches[i]))
    BY <2>1, <2>2, TakenBackKeeps DEF Served
  <2>4. QED
    BY <2>1, <2>3, OneMatchChanges
<1>6. QED
  BY <1>1, <1>2, <1>3, <1>4, <1>5 DEF Requests

-----------------------------------------------------------------------------
(* The rig: types, and what it asks of zaehlwerk.                          *)

ButtonEvents == {e \in Event : \E h \in Halves : e.source = Button[h]}

Asking     == [pc : {"ask", "look"}, frame : Frame, what : {"point", "undo"}]
Posting    == [pc : {"post"}, event : ButtonEvents, named : Matches \cup {0}, attempts : {1, 2}]
Ending     == [pc : {"end"}, match : Matches]
CheckingIn == [pc : {"checkin"}, event : Nat, fob : Nat, half : Halves, attempts : {1, 2}]
HubJobs    == {Free, [pc |-> "both"]} \cup Asking \cup Posting \cup Ending \cup CheckingIn

Long    == [frame : Frame, timer : {"set", "stopped", "fired", "done"}]
Use     == [half : Halves, id : Nat, what : {"point", "undo", "check-in", "both"}]
CheckedIn == [event : Nat, fob : Nat, half : Halves]

RigLeft == [presses : Int, fobs : Nat, changes : Int, failures : Int]

AirType == \A frames \in air : frames \in Seq(Frame) /\ frames # <<>>

RigType ==
  /\ settings \in SettingsIn /\ deduped \in BOOLEAN /\ twice \in BOOLEAN
  /\ eventID \in [Halves -> Nat] /\ hubSeen \in [Halves -> Nat]
  /\ AirType
  /\ hub \in HubJobs
  /\ waits \in Seq(Long) /\ pending \in 0..Len(waits)
  /\ lastMatch \in Matches \cup {0}
  /\ fob \in Nat /\ hubEvent \in Nat
  /\ desk \in Seq(CheckedIn) /\ did \subseteq Use
  /\ rigLeft \in RigLeft
  /\ deduped => settings.dedup

(* The hub's place tells its job.                                          *)
LEMMA HubIsAt ==
  ASSUME hub \in HubJobs
  PROVE  /\ hub = Free <=> hub.pc = "free"
         /\ hub.pc \in {"ask", "look"} => hub \in Asking
         /\ hub.pc = "post" => hub \in Posting
         /\ hub.pc = "end" => hub \in Ending
         /\ hub.pc = "checkin" => hub \in CheckingIn
<1>1. Free.pc = "free" /\ [pc |-> "both"].pc = "both"
  BY DEF Free
<1>2. \A r \in Asking : r.pc \in {"ask", "look"}
  BY DEF Asking
<1>3. \A r \in Posting : r.pc = "post"
  BY DEF Posting
<1>4. \A r \in Ending : r.pc = "end"
  BY DEF Ending
<1>5. \A r \in CheckingIn : r.pc = "checkin"
  BY DEF CheckingIn
<1>6. QED
  <2> DEFINE both == [pc |-> "both"]
  <2> HIDE DEF both
  <2>1. both.pc = "both" /\ hub \in {Free, both} \cup Asking \cup Posting \cup Ending \cup CheckingIn
    BY <1>1 DEF HubJobs, both
  <2>2. QED
    BY <1>1, <1>2, <1>3, <1>4, <1>5, <2>1

(* A set of naturals that is not empty has a least element.                *)
LEMMA LeastOf ==
  ASSUME NEW T \in SUBSET Nat, T # {}
  PROVE  \E x \in T : \A y \in T : x <= y
<1> DEFINE R == {ss \in Nat \X Nat : ss[1] < ss[2]}
<1>1. IsWellFoundedOn(R, Nat)
  BY NatLessThanWellFounded DEF OpToRel
<1>2. \E x \in T : \A y \in T : <<y, x>> \notin R
  <2> HIDE DEF R
  <2> QED
    BY <1>1, WFMin
<1>3. \A x, y \in Nat : <<y, x>> \notin R => x <= y
  <2> SUFFICES ASSUME NEW x \in Nat, NEW y \in Nat, y < x PROVE <<y, x>> \in R
    OBVIOUS
  <2>1. <<y, x>> \in Nat \X Nat /\ <<y, x>>[1] < <<y, x>>[2]
    OBVIOUS
  <2>2. QED
    BY <2>1
<1> HIDE DEF R
<1>4. QED
  BY <1>2, <1>3

(* The current match is the newest that runs.                              *)
LEMMA CurrentIsNewest ==
  ASSUME MatchesInv
  PROVE  /\ Current \in Matches \cup {0}
         /\ Current # 0 => Running(matches[Current])
         /\ \A i \in Matches : Running(matches[i]) => Current >= i
<1> DEFINE running == {i \in Matches : Running(matches[i])}
<1>1. Len(matches) \in Nat /\ running \subseteq 1..Len(matches)
  BY DEF MatchesInv, Matches
<1>2. CASE running = {}
  <2>1. Current = 0
    BY <1>2 DEF Current
  <2>2. QED
    BY <1>2, <2>1
<1>3. CASE running # {}
  <2> DEFINE T == {k \in Nat : \E x \in running : k = Len(matches) - x}
  <2> HIDE DEF running
  <2>1. PICK x0 \in running : TRUE
    BY <1>3
  <2>2. \A x \in running : Len(matches) - x \in T
    BY <1>1
  <2>3. PICK k \in T : \A y \in T : k <= y
    BY <2>1, <2>2, LeastOf
  <2>4. PICK x \in running : k = Len(matches) - x
    OBVIOUS
  <2>5. ASSUME NEW y \in running PROVE x >= y
    <3>1. Len(matches) - x <= Len(matches) - y
      BY <2>2, <2>3, <2>4
    <3>2. QED
      BY <1>1, <3>1
  <2>6. Max(running) \in running /\ \A y \in running : Max(running) >= y
    BY <2>5 DEF Max
  <2>7. Current = Max(running)
    BY <1>3 DEF Current, running
  <2>8. QED
    BY <1>1, <2>6, <2>7 DEF running
<1>4. QED
  BY <1>2, <1>3

LEMMA SettingsKnown ==
  ASSUME RigType
  PROVE  /\ settings.dedup \in BOOLEAN
         /\ Wakes \in {1, 2} /\ Sends \in {1, 2}
BY ButtonsAssumption DEF RigType, Wakes, Sends

LEMMA FramesAreFrames ==
  ASSUME RigType, NEW h \in Halves, NEW g \in {"short", "long", "point", "undo"}
  PROVE  FramesOf(h, g) \in Seq(Frame) /\ FramesOf(h, g) # <<>>
<1>1. Wakes \in {1, 2} /\ Sends \in {1, 2} /\ eventID[h] \in Nat
  BY SettingsKnown DEF RigType
<1> DEFINE k == Wakes * Sends
<1>2. k \in Nat /\ k > 0
  BY <1>1
<1>3. \A n \in 1..k : eventID[h] + (n - 1) \div Sends + 1 \in Nat
  BY <1>1, <1>2
<1>4. FramesOf(h, g) \in [1..k -> Frame]
  BY <1>3 DEF FramesOf, Frame
<1>5. FramesOf(h, g) \in Seq(Frame) /\ Len(FramesOf(h, g)) = k
  <2> HIDE DEF k
  <2> QED
    BY <1>2, <1>4
<1>6. QED
  BY <1>2, <1>5

(* An event of a button.                                                   *)
LEMMA EventOfIsButtons ==
  ASSUME NEW f \in Frame, NEW what \in {"point", "undo"}, NEW n
  PROVE  EventOf(f, what, n) \in ButtonEvents
<1>1. f.half \in Halves /\ f.id \in Nat /\ Button[f.half] \in Senders
  BY ButtonsAssumption DEF Frame
<1>2. (IF what = "undo" THEN "A" ELSE PlayerOn(f.half, n)) \in Players
  BY <1>1 DEF PlayerOn, Halves, Players
<1>3. EventOf(f, what, n) \in Event
  BY <1>1, <1>2 DEF EventOf, Event
<1>4. EventOf(f, what, n).source = Button[f.half]
  BY DEF EventOf
<1>5. QED
  BY <1>1, <1>3, <1>4 DEF ButtonEvents

(* What the rig asks for.                                                  *)
LEMMA RigRequests ==
  ASSUME MatchesInv, RigType, RigNext
  PROVE  Requests(Matches, ButtonEvents)
<1>1. CASE matches' = matches
  BY <1>1 DEF Requests
<1>2. ASSUME hub.pc = "post", Ingest(Resolved(hub.named), hub.event)
      PROVE  Requests(Matches, ButtonEvents)
  <2>1. hub.event \in ButtonEvents /\ hub.named \in Matches \cup {0}
    BY <1>2, HubIsAt DEF RigType, Posting
  <2>2. Resolved(hub.named) \in Matches \cup {0}
    BY <2>1, CurrentIsNewest DEF Resolved
  <2>3. QED
    BY <1>2, <2>1, <2>2 DEF Requests
<1>3. ASSUME hub.pc = "end", EndMatch(hub.match)
      PROVE  Requests(Matches, ButtonEvents)
  <2>1. hub.match \in Matches
    BY <1>3, HubIsAt DEF RigType, Ending
  <2>2. QED
    BY <1>3, <2>1 DEF Requests
<1>4. CASE \E h \in Halves : Press(h) \/ PressKey(h) \/ Tap(h)
  BY <1>1, <1>4 DEF Press, PressKey, Tap, OnAir
<1>5. CASE PressBoth \/ HoldFob \/ FobExpires \/ SetSettings
  BY <1>1, <1>5 DEF PressBoth, HoldFob, FobExpires, SetSettings
<1>6. CASE \E frames \in air : Receive(frames)
  BY <1>1, <1>6 DEF Receive
<1>7. CASE \E w \in 1..Len(waits) : TimerFires(w) \/ TimerRuns(w)
  BY <1>1, <1>7 DEF TimerFires, TimerRuns
<1>8. CASE HubCall
  BY <1>1, <1>2, <1>3, <1>8 DEF HubCall, Ask, Look, Try, BothAsk, BothEnd, TryCheckIn
<1>9. CASE CallFails
  BY <1>1, <1>2, <1>3, <1>9 DEF CallFails
<1>10. QED
  BY <1>4, <1>5, <1>6, <1>7, <1>8, <1>9 DEF RigNext

LEMMA JobsGrow ==
  ASSUME MatchesInv, MatchesInv', Len(matches) <= Len(matches')
  PROVE  Matches \subseteq Matches' /\ HubJobs \subseteq HubJobs'
<1>1. Matches \subseteq Matches'
  BY DEF MatchesInv, Matches
<1>2. Posting \subseteq Posting' /\ Ending \subseteq Ending'
  BY <1>1 DEF Posting, Ending
<1>3. QED
  BY <1>1, <1>2 DEF HubJobs, Asking, CheckingIn

LEMMA RigTypeKept ==
  ASSUME RigType, UNCHANGED rigVars, Matches \subseteq Matches', HubJobs \subseteq HubJobs'
  PROVE  RigType'
BY DEF RigType, rigVars, AirType

LEMMA ReceiveTypes ==
  ASSUME RigType, NEW frames \in air, Receive(frames), Matches \subseteq Matches',
         HubJobs \subseteq HubJobs'
  PROVE  RigType'
<1> DEFINE f == Head(frames)
<1>1. frames \in Seq(Frame) /\ frames # <<>> /\ f \in Frame /\ Tail(frames) \in Seq(Frame)
      /\ (Len(frames) > 1 => Tail(frames) # <<>>)
  <2>1. frames \in Seq(Frame) /\ frames # <<>>
    BY DEF RigType, AirType
  <2>2. Len(Tail(frames)) = Len(frames) - 1 /\ Tail(frames) \in Seq(Frame) /\ f \in Frame
    BY <2>1
  <2>3. Len(frames) > 1 => Tail(frames) # <<>>
    <3>1. Len(frames) > 1 => Len(Tail(frames)) # 0
      BY <2>2
    <3>2. QED
      BY <3>1
  <2>4. QED
    BY <2>1, <2>2, <2>3
<1>2. f.half \in Halves /\ f.id \in Nat /\ f.gesture \in {"short", "long", "point", "undo"}
  BY <1>1 DEF Frame
<1> HIDE DEF f
<1>3. AirType'
  BY <1>1 DEF RigType, AirType, Receive
<1>4. hubSeen' \in [Halves -> Nat]
  BY <1>2 DEF RigType, Receive, f
<1> DEFINE Typed ==
      /\ hub' \in HubJobs' /\ waits' \in Seq(Long) /\ pending' \in 0..Len(waits') /\ fob' \in Nat
      /\ hubEvent' \in Nat /\ did' \subseteq Use /\ twice' \in BOOLEAN
<1>5. Typed
  <2>1. Known(f) \/ Acts(f)
    BY DEF Receive, f
  <2>2. CASE Known(f)
    BY <2>2 DEF Receive, RigType, f
  <2>3. CASE CheckIn(f)
    <3> DEFINE tries == IF settings.answerLost THEN 2 ELSE 1
    <3>1. hub' = [pc |-> "checkin", event |-> hubEvent + 1, fob |-> fob, half |-> f.half,
                  attempts |-> tries]
      BY <2>3 DEF CheckIn
    <3>6. hubEvent' = hubEvent + 1 /\ fob' = 0 /\ UNCHANGED <<waits, pending>>
      BY <2>3 DEF CheckIn, FobAfter
    <3>7. did' = did \cup {Taken(g, "check-in") : g \in {f}} /\ twice' \in BOOLEAN
      BY <2>3 DEF CheckIn, Took
    <3>2. tries \in {1, 2} /\ hubEvent \in Nat /\ fob \in Nat
      BY DEF RigType
    <3> HIDE DEF tries
    <3>3. hub' \in CheckingIn
      BY <1>2, <3>1, <3>2 DEF CheckingIn
    <3>4. did' \subseteq Use
      BY <1>2, <3>7 DEF Taken, RigType, Use
    <3>5. QED
      BY <3>2, <3>3, <3>4, <3>6, <3>7 DEF HubJobs, CheckingIn, RigType
  <2>4. ASSUME NEW what \in {"point", "undo"}, Asks(f, what)
        PROVE  Typed
    <3>1. hub' \in Asking
      BY <1>1, <2>4 DEF Asks, Asking, f
    <3>2. did' \subseteq Use /\ twice' \in BOOLEAN
      BY <1>2, <2>4 DEF Asks, Took, Taken, RigType, Use
    <3>3. UNCHANGED <<waits, pending, fob, hubEvent>>
      BY <2>4 DEF Asks
    <3>4. QED
      BY <3>1, <3>2, <3>3 DEF HubJobs, Asking, RigType
  <2>5. CASE Pairs(f) /\ BothLong(f)
    <3>1. pending \in 1..Len(waits) /\ waits \in Seq(Long) /\ waits[pending] \in Long
      BY <2>5 DEF Pairs, RigType
    <3> DEFINE t == IF waits[pending].timer = "set" THEN "stopped" ELSE waits[pending].timer
    <3>2. t \in {"set", "stopped", "fired", "done"} /\ waits[pending].frame \in Frame
      BY <3>1 DEF Long
    <3>3. waits' = [waits EXCEPT ![pending] = [waits[pending] EXCEPT !.timer = t]]
      BY <2>5 DEF BothLong
    <3> HIDE DEF t
    <3>4. [waits[pending] EXCEPT !.timer = t] \in Long
      BY <3>1, <3>2 DEF Long
    <3>5. waits' \in Seq(Long) /\ Len(waits') = Len(waits) /\ Len(waits) \in Nat
      BY <3>1, <3>3, <3>4
    <3>6. waits[pending].frame.half \in Halves /\ waits[pending].frame.id \in Nat
      BY <3>2 DEF Frame
    <3>7. did' \subseteq Use /\ twice' \in BOOLEAN
      BY <1>2, <2>5, <3>6 DEF BothLong, Took, Taken, RigType, Use
    <3>8. hub' \in {Free, [pc |-> "both"]} /\ pending' = 0 /\ UNCHANGED <<fob, hubEvent>>
      BY <2>5 DEF BothLong
    <3>9. hub' \in HubJobs'
      BY <3>8 DEF HubJobs, Free
    <3>10. QED
      BY <3>5, <3>7, <3>8, <3>9 DEF RigType
  <2>6. CASE Waits(f)
    <3>1. [frame |-> f, timer |-> "set"] \in Long
      BY <1>1 DEF Long, f
    <3>2. waits' \in Seq(Long) /\ Len(waits') = Len(waits) + 1 /\ Len(waits) \in Nat
      BY <2>6, <3>1 DEF Waits, RigType
    <3>3. pending' = Len(waits) + 1 /\ UNCHANGED <<hub, fob, hubEvent, did, twice>>
      BY <2>6 DEF Waits
    <3>4. QED
      BY <3>2, <3>3 DEF RigType
  <2>7. QED
    BY <1>2, <2>1, <2>2, <2>3, <2>4, <2>5, <2>6 DEF Acts
<1>6. QED
  BY <1>3, <1>4, <1>5 DEF RigType, Receive

LEMMA RigLeftFits ==
  /\ \A l \in RigLeft, k \in {1, 2} : [l EXCEPT !.presses = @ - k] \in RigLeft
  /\ \A l \in RigLeft : /\ l.fobs \in Nat
                        /\ l.fobs > 0 => [l EXCEPT !.fobs = @ - 1] \in RigLeft
                        /\ [l EXCEPT !.changes = @ - 1] \in RigLeft
                        /\ [l EXCEPT !.failures = @ - 1] \in RigLeft
BY DEF RigLeft

LEMMA TimerTypes ==
  ASSUME RigType, NEW w \in 1..Len(waits), TimerFires(w) \/ TimerRuns(w), Matches \subseteq Matches',
         HubJobs \subseteq HubJobs'
  PROVE  RigType'
<1>1. waits \in Seq(Long) /\ waits[w] \in Long /\ waits[w].frame \in Frame
  <2>1. waits \in Seq(Long)
    BY DEF RigType
  <2>2. waits[w] \in Long
    BY <2>1
  <2>3. QED
    BY <2>1, <2>2 DEF Long
<1>2. \A t \in {"fired", "done"} : waits' = [waits EXCEPT ![w].timer = t] =>
        waits' \in Seq(Long) /\ Len(waits') = Len(waits)
  <2> SUFFICES ASSUME NEW t \in {"fired", "done"}, waits' = [waits EXCEPT ![w].timer = t]
               PROVE  waits' \in Seq(Long) /\ Len(waits') = Len(waits)
    OBVIOUS
  <2>1. [waits[w] EXCEPT !.timer = t] \in Long
    BY <1>1 DEF Long
  <2>2. waits' = [waits EXCEPT ![w] = [waits[w] EXCEPT !.timer = t]]
    OBVIOUS
  <2>3. QED
    BY <1>1, <2>1, <2>2
<1>3. CASE TimerFires(w)
  BY <1>2, <1>3 DEF TimerFires, RigType, AirType
<1>4. CASE TimerRuns(w)
  <2>1. hub' \in HubJobs'
    BY <1>1, <1>4 DEF TimerRuns, UndoOf, Asking, HubJobs
  <2>2. did' \subseteq Use /\ twice' \in BOOLEAN
    <3>1. waits[w].frame.half \in Halves /\ waits[w].frame.id \in Nat
      BY <1>1 DEF Frame
    <3>2. QED
      BY <1>4, <3>1 DEF TimerRuns, Took, Taken, RigType, Use
  <2>3. waits' \in Seq(Long) /\ pending' \in 0..Len(waits')
    BY <1>2, <1>4 DEF TimerRuns, RigType
  <2>4. QED
    BY <1>4, <2>1, <2>2, <2>3 DEF TimerRuns, RigType, AirType
<1>5. QED
  BY <1>3, <1>4

LEMMA PostIsPosting ==
  ASSUME RigType, NEW e \in ButtonEvents, NEW i \in Matches \cup {0}
  PROVE  Post(e, i) \in Posting
BY DEF Post, Posting

LEMMA CallTypes ==
  ASSUME MatchesInv, RigType, HubCall \/ CallFails, Matches \subseteq Matches',
         HubJobs \subseteq HubJobs'
  PROVE  RigType'
<1> DEFINE Typed == /\ hub' \in HubJobs /\ lastMatch' \in Matches \cup {0}
                    /\ desk' \in Seq(CheckedIn)
                    /\ rigLeft' \in RigLeft
<1>1. Free \in HubJobs
  BY DEF HubJobs
<1>2. Resolves(hub) \in Seq(CheckedIn) \/ hub.pc # "checkin"
  <2> SUFFICES ASSUME hub.pc = "checkin" PROVE Resolves(hub) \in Seq(CheckedIn)
    OBVIOUS
  <2>1. hub.event \in Nat /\ hub.fob \in Nat /\ hub.half \in Halves
    BY HubIsAt DEF RigType, CheckingIn
  <2>2. [event |-> hub.event, fob |-> hub.fob, half |-> hub.half] \in CheckedIn
    BY <2>1 DEF CheckedIn
  <2>3. QED
    BY <2>2 DEF Resolves, RigType
<1>3. ASSUME Ask PROVE Typed
  <2>1. hub \in Asking /\ hub.frame \in Frame /\ hub.what \in {"point", "undo"}
    BY <1>3, HubIsAt DEF Ask, RigType, Asking
  <2>2. [hub EXCEPT !.pc = "look"] \in Asking
    BY <2>1 DEF Asking
  <2>3. Current \in Matches \cup {0}
    BY CurrentIsNewest
  <2>4. \A what \in {"point", "undo"} : \A n : Post(EventOf(hub.frame, what, n), 0) \in Posting
    BY <2>1, EventOfIsButtons, PostIsPosting
  <2>5. \/ \E what \in {"point", "undo"} : \E n : hub' = Post(EventOf(hub.frame, what, n), 0)
        \/ hub' = [hub EXCEPT !.pc = "look"]
        \/ hub' = Free
    BY <1>3 DEF Ask
  <2>6. lastMatch' \in {lastMatch, Current}
    BY <1>3 DEF Ask
  <2>7. hub' \in HubJobs
    BY <1>1, <2>2, <2>4, <2>5 DEF HubJobs
  <2>8. UNCHANGED <<desk, rigLeft>>
    BY <1>3 DEF Ask
  <2>9. QED
    BY <2>3, <2>6, <2>7, <2>8 DEF RigType
<1>4. ASSUME Look PROVE Typed
  <2>1. hub.frame \in Frame
    BY <1>4, HubIsAt DEF Look, RigType, Asking
  <2>2. hub' \in Posting
    BY <1>4, <2>1, EventOfIsButtons, PostIsPosting DEF Look, RigType
  <2>3. QED
    BY <1>4, <2>2 DEF Look, RigType, HubJobs
<1>5. ASSUME hub.pc \in {"post", "checkin"}, hub.attempts > 1 PROVE [hub EXCEPT !.attempts = @ - 1] \in HubJobs
  <2>1. CASE hub.pc = "post"
    <3>1. hub \in Posting
      BY <2>1, HubIsAt DEF RigType
    <3>2. [hub EXCEPT !.attempts = @ - 1] \in Posting
      BY <1>5, <3>1 DEF Posting
    <3>3. QED
      BY <3>2 DEF HubJobs
  <2>2. CASE hub.pc = "checkin"
    <3>1. hub \in CheckingIn
      BY <2>2, HubIsAt DEF RigType
    <3>2. [hub EXCEPT !.attempts = @ - 1] \in CheckingIn
      BY <1>5, <3>1 DEF CheckingIn
    <3>3. QED
      BY <3>2 DEF HubJobs
  <2>3. QED
    BY <1>5, <2>1, <2>2
<1>6. ASSUME Try PROVE Typed
  BY <1>1, <1>5, <1>6 DEF Try, RigType
<1>7. ASSUME TryCheckIn PROVE Typed
  BY <1>1, <1>2, <1>5, <1>7 DEF TryCheckIn, RigType
<1>8. ASSUME BothAsk PROVE Typed
  <2>1. Current # 0 => [pc |-> "end", match |-> Current] \in Ending
    BY CurrentIsNewest DEF Ending
  <2>2. QED
    BY <1>1, <1>8, <2>1 DEF BothAsk, RigType, HubJobs
<1>9. ASSUME BothEnd PROVE Typed
  BY <1>1, <1>9 DEF BothEnd, RigType
<1>10. ASSUME CallFails PROVE Typed
  <2>1. desk' \in Seq(CheckedIn)
    BY <1>2, <1>10 DEF CallFails, RigType
  <2>2. rigLeft' \in RigLeft
    BY <1>10, RigLeftFits DEF CallFails, RigType
  <2>3. QED
    BY <1>1, <1>10, <2>1, <2>2 DEF CallFails, RigType
<1>11. Typed
  BY <1>3, <1>4, <1>6, <1>7, <1>8, <1>9, <1>10 DEF HubCall
<1>12. HubOnly
  BY DEF HubCall, Ask, Look, Try, BothAsk, BothEnd, TryCheckIn, CallFails
<1>13. QED
  BY <1>11, <1>12 DEF RigType, HubOnly, AirType

LEMMA RigTypeStays ==
  ASSUME MatchesInv, MatchesInv', Len(matches) <= Len(matches'), RigType, RigNext
  PROVE  RigType'
<1>1. Matches \subseteq Matches' /\ HubJobs \subseteq HubJobs'
  BY JobsGrow
<1>2. ASSUME NEW h \in Halves, NEW g \in {"short", "long", "point", "undo"}, OnAir(h, g)
      PROVE  RigType'
  <2>1. FramesOf(h, g) \in Seq(Frame) /\ FramesOf(h, g) # <<>>
    BY FramesAreFrames
  <2>2. eventID' \in [Halves -> Nat]
    BY <1>2, SettingsKnown DEF OnAir, RigType
  <2>3. rigLeft' \in RigLeft
    BY <1>2, RigLeftFits DEF OnAir, RigType
  <2>4. AirType'
    BY <1>2, <2>1 DEF OnAir, RigType, AirType
  <2>5. QED
    BY <1>1, <1>2, <2>2, <2>3, <2>4 DEF OnAir, RigType
<1>3. CASE \E h \in Halves : Press(h) \/ PressKey(h) \/ Tap(h)
  BY <1>2, <1>3 DEF Press, PressKey, Tap
<1>4. CASE PressBoth
  <2>1. FramesOf("A", "long") \in Seq(Frame) /\ FramesOf("B", "long") \in Seq(Frame)
        /\ FramesOf("A", "long") # <<>>
    BY FramesAreFrames DEF Halves
  <2> DEFINE both == FramesOf("A", "long") \o FramesOf("B", "long")
  <2>2. both \in Seq(Frame) /\ both # <<>>
    <3> DEFINE a == FramesOf("A", "long")
               b == FramesOf("B", "long")
    <3>1. a \in Seq(Frame) /\ b \in Seq(Frame) /\ a # <<>>
      BY <2>1
    <3> HIDE DEF a, b
    <3>2. a \o b \in Seq(Frame) /\ Len(a \o b) = Len(a) + Len(b) /\ Len(a) > 0
      BY <3>1
    <3>3. QED
      BY <3>1, <3>2 DEF a, b
  <2>3. eventID' \in [Halves -> Nat]
    BY <1>4, SettingsKnown DEF PressBoth, RigType
  <2>4. rigLeft' \in RigLeft
    BY <1>4, RigLeftFits DEF PressBoth, RigType
  <2>5. AirType'
    BY <1>4, <2>2 DEF PressBoth, RigType, AirType
  <2>6. QED
    BY <1>1, <1>4, <2>3, <2>4, <2>5 DEF PressBoth, RigType
<1>5. CASE HoldFob
  <2>1. fob' \in Nat /\ rigLeft' \in RigLeft
    BY <1>5, RigLeftFits DEF HoldFob, RigType
  <2>2. QED
    BY <1>1, <1>5, <2>1 DEF HoldFob, RigType, AirType
<1>6. CASE FobExpires
  BY <1>1, <1>6 DEF FobExpires, RigType, AirType
<1>7. CASE SetSettings
  <2>1. settings' \in SettingsIn /\ deduped' \in BOOLEAN /\ (deduped' => settings'.dedup)
        /\ rigLeft' \in RigLeft
    BY <1>7, ButtonsAssumption, RigLeftFits DEF SetSettings, RigType
  <2>2. QED
    BY <1>1, <1>7, <2>1 DEF SetSettings, RigType, AirType
<1>8. QED
  BY <1>1, <1>3, <1>4, <1>5, <1>6, <1>7, ReceiveTypes, TimerTypes, CallTypes DEF RigNext

-----------------------------------------------------------------------------
(* The rig: a press is used once, a long one is answered.                  *)

SamePress(f, d) == f.half = d.half /\ f.id = d.id
Unused(f)       == \A d \in did : ~SamePress(f, d)
Waiting(w)      == waits[w].timer \in {"set", "fired"}

(* While the hub has told frames it knows, whatever it has taken lies at   *)
(* or below its watermarks, and what waits is no press of another's and    *)
(* not used yet.                                                           *)
UseInv ==
  deduped =>
    /\ ~twice
    /\ \A d \in did : d.id <= hubSeen[d.half]
    /\ \A w \in 1..Len(waits) :
         /\ waits[w].frame.id <= hubSeen[waits[w].frame.half]
         /\ Waiting(w) => Unused(waits[w].frame)
         /\ \A v \in 1..Len(waits) \ {w} : ~SamePress(waits[w].frame, waits[v].frame)

LongsInv == LongsAreAnswered

LEMMA UseInvKept ==
  ASSUME UseInv, LongsInv, UNCHANGED <<did, twice, waits, hubSeen>>, deduped' => deduped
  PROVE  UseInv' /\ LongsInv'
BY DEF UseInv, Unused, Waiting, LongsInv, LongsAreAnswered

LEMMA ReceiveUses ==
  ASSUME RigType, UseInv, LongsInv, NEW frames \in air, Receive(frames)
  PROVE  UseInv' /\ LongsInv'
<1> DEFINE f == Head(frames)
<1>1. f \in Frame
  <2>1. frames \in Seq(Frame) /\ frames # <<>>
    BY DEF RigType, AirType
  <2>2. QED
    BY <2>1
<1>2. f.half \in Halves /\ f.id \in Nat /\ f.gesture \in {"short", "long", "point", "undo"}
  BY <1>1 DEF Frame
<1> HIDE DEF f
<1>3. CASE Known(f)
  <2>1. UNCHANGED <<did, twice, waits, hubSeen, deduped>>
    BY <1>3 DEF Receive, f
  <2>2. QED
    BY <2>1, UseInvKept
<1>4. CASE ~Known(f)
  <2>1. Acts(f) /\ deduped' = deduped
        /\ hubSeen' = IF settings.dedup THEN [hubSeen EXCEPT ![f.half] = f.id] ELSE hubSeen
    BY <1>4 DEF Receive, f
  <2>2. hubSeen \in [Halves -> Nat] /\ did \subseteq Use /\ waits \in Seq(Long) /\ Len(waits) \in Nat
        /\ (deduped => settings.dedup) /\ deduped \in BOOLEAN /\ settings.dedup \in BOOLEAN
    BY SettingsKnown DEF RigType
  <2>3. \A d \in did : d.half \in Halves /\ d.id \in Nat
    BY <2>2 DEF Use
  <2>4. \A w \in 1..Len(waits) :
          /\ waits[w] \in Long /\ waits[w].frame \in Frame
          /\ waits[w].frame.half \in Halves /\ waits[w].frame.id \in Nat
    <3>1. \A w \in 1..Len(waits) : waits[w] \in Long
      BY <2>2
    <3>2. \A x \in Long : x.frame \in Frame /\ x.frame.half \in Halves /\ x.frame.id \in Nat
      BY DEF Long, Frame
    <3>3. QED
      BY <3>1, <3>2
  <2>5. deduped => f.id > hubSeen[f.half]
    BY <1>2, <1>4, <2>2 DEF Known
  <2>6. deduped => hubSeen' \in [Halves -> Nat] /\ hubSeen'[f.half] = f.id
                   /\ \A h \in Halves : hubSeen[h] <= hubSeen'[h] /\ hubSeen[h] \in Nat
                                        /\ hubSeen'[h] \in Nat
    BY <1>2, <2>1, <2>2, <2>5
  <2>7. deduped => Unused(f) /\ \A w \in 1..Len(waits) : ~SamePress(f, waits[w].frame)
    <3> SUFFICES ASSUME deduped
                 PROVE  Unused(f) /\ \A w \in 1..Len(waits) : ~SamePress(f, waits[w].frame)
      OBVIOUS
    <3>1. f.id > hubSeen[f.half] /\ hubSeen[f.half] \in Nat
      BY <1>2, <2>5, <2>6
    <3>2. \A d \in did : ~SamePress(f, d)
      <4> SUFFICES ASSUME NEW d \in did, f.half = d.half, f.id = d.id PROVE FALSE
        BY DEF SamePress
      <4>1. d.id <= hubSeen[d.half]
        BY DEF UseInv
      <4>2. QED
        BY <1>2, <3>1, <4>1
    <3>3. \A w \in 1..Len(waits) : ~SamePress(f, waits[w].frame)
      <4> SUFFICES ASSUME NEW w \in 1..Len(waits), f.half = waits[w].frame.half, f.id = waits[w].frame.id
                   PROVE  FALSE
        BY DEF SamePress
      <4>1. waits[w].frame.id <= hubSeen[waits[w].frame.half]
        BY DEF UseInv
      <4>2. QED
        BY <1>2, <3>1, <4>1
    <3>4. QED
      BY <3>2, <3>3 DEF Unused
  <2>8. deduped => \A d \in did : d.id <= hubSeen'[d.half]
    <3> SUFFICES ASSUME deduped, NEW d \in did PROVE d.id <= hubSeen'[d.half]
      OBVIOUS
    <3>1. d.id <= hubSeen[d.half] /\ d.half \in Halves /\ d.id \in Nat
      BY <2>3 DEF UseInv
    <3>2. QED
      BY <2>6, <3>1
  <2>9. deduped => \A w \in 1..Len(waits) : waits[w].frame.id <= hubSeen'[waits[w].frame.half]
    <3> SUFFICES ASSUME deduped, NEW w \in 1..Len(waits)
                 PROVE  waits[w].frame.id <= hubSeen'[waits[w].frame.half]
      OBVIOUS
    <3>1. waits[w].frame.id <= hubSeen[waits[w].frame.half] /\ waits[w].frame.half \in Halves
          /\ waits[w].frame.id \in Nat
      BY <2>4 DEF UseInv
    <3>2. QED
      BY <2>6, <3>1
  <2>10. ASSUME NEW what, UNCHANGED waits,
                did' = did \cup {Taken(g, what) : g \in {f}},
                twice' = (twice \/ \E g \in {f}, d \in did : g.half = d.half /\ g.id = d.id)
         PROVE  UseInv' /\ LongsInv'
    <3>1. did' = did \cup {Taken(f, what)}
      BY <2>10
    <3>2. Taken(f, what).half = f.half /\ Taken(f, what).id = f.id
      BY DEF Taken
    <3>3. deduped => ~twice'
      BY <2>7, <2>10 DEF UseInv, Unused, SamePress
    <3>4. deduped => \A d \in did' : d.id <= hubSeen'[d.half]
      BY <1>2, <2>6, <2>8, <3>1, <3>2
    <3>5. deduped => \A w \in 1..Len(waits) : Waiting(w) => \A d \in did' : ~SamePress(waits[w].frame, d)
      BY <2>7, <3>1, <3>2 DEF UseInv, Unused, SamePress
    <3>6. UseInv'
      BY <2>1, <2>9, <2>10, <3>3, <3>4, <3>5 DEF UseInv, Unused, Waiting
    <3>7. LongsInv'
      BY <2>10, <3>1 DEF LongsInv, LongsAreAnswered
    <3>8. QED
      BY <3>6, <3>7
  <2>11. CASE CheckIn(f)
    <3>1. UNCHANGED waits /\ Took({f}, "check-in")
      BY <2>11 DEF CheckIn
    <3>2. QED
      BY <2>10, <3>1 DEF Took
  <2>12. ASSUME NEW what, Asks(f, what) PROVE UseInv' /\ LongsInv'
    <3>1. UNCHANGED waits /\ Took({f}, what)
      BY <2>12 DEF Asks
    <3>2. QED
      BY <2>10, <3>1 DEF Took
  <2>13. CASE Pairs(f) /\ BothLong(f)
    <3> DEFINE g == waits[pending].frame
    <3>1. pending \in 1..Len(waits) /\ waits[pending].timer = "set" /\ g.half # f.half
      BY <2>2, <2>13 DEF Pairs, RigType
    <3>2. waits' = [waits EXCEPT ![pending].timer = "stopped"]
      BY <2>13, <3>1 DEF BothLong
    <3>3. Len(waits') = Len(waits) /\ waits'[pending].timer = "stopped"
          /\ \A w \in 1..Len(waits) : /\ waits'[w].frame = waits[w].frame
                                      /\ w # pending => waits'[w].timer = waits[w].timer
      <4>1. \A w \in 1..Len(waits) :
              waits'[w] = IF w = pending THEN [waits[w] EXCEPT !.timer = "stopped"] ELSE waits[w]
        BY <2>2, <3>1, <3>2
      <4>2. Len(waits') = Len(waits)
        BY <2>2, <3>1, <3>2
      <4>3. waits[pending] \in Long
        BY <2>4, <3>1
      <4>4. [waits[pending] EXCEPT !.timer = "stopped"].timer = "stopped"
            /\ [waits[pending] EXCEPT !.timer = "stopped"].frame = waits[pending].frame
        BY <4>3 DEF Long
      <4>5. QED
        BY <3>1, <4>1, <4>2, <4>4
    <3> HIDE DEF g
    <3>4. g = waits[pending].frame /\ g.half \in Halves /\ g.id \in Nat
      BY <2>4, <3>1 DEF g
    <3>5. did' = did \cup {Taken(g, "both"), Taken(f, "both")}
          /\ twice' = (twice \/ \E x \in {g, f}, d \in did : SamePress(x, d))
      BY <2>13 DEF BothLong, Took, SamePress, g
    <3>6. Taken(f, "both").half = f.half /\ Taken(f, "both").id = f.id
          /\ Taken(g, "both").half = g.half /\ Taken(g, "both").id = g.id
      BY DEF Taken
    <3>7. deduped => Unused(g) /\ g.id <= hubSeen'[g.half]
      BY <2>9, <3>1, <3>4 DEF UseInv, Waiting
    <3>8. deduped => ~twice'
      BY <2>7, <3>5, <3>7 DEF UseInv, Unused
    <3>9. deduped => \A d \in did' : d.id <= hubSeen'[d.half]
      BY <1>2, <2>6, <2>8, <3>5, <3>6, <3>7
    <3>10. deduped => \A w \in 1..Len(waits) \ {pending} :
             Waiting(w) => \A d \in did' : ~SamePress(waits[w].frame, d)
      <4> SUFFICES ASSUME deduped, NEW w \in 1..Len(waits) \ {pending}, Waiting(w), NEW d \in did'
                   PROVE  ~SamePress(waits[w].frame, d)
        OBVIOUS
      <4>1. \A c \in did : ~SamePress(waits[w].frame, c)
        BY DEF UseInv, Unused
      <4>2. ~SamePress(waits[w].frame, g)
        BY <3>1, <3>4 DEF UseInv
      <4>3. ~SamePress(f, waits[w].frame)
        BY <2>7
      <4>4. QED
        BY <3>5, <3>6, <4>1, <4>2, <4>3 DEF SamePress
    <3>11. \A w \in 1..Len(waits) : Waiting(w)' => w # pending /\ Waiting(w)
      BY <3>1, <3>3 DEF Waiting
    <3>12. UseInv'
      <4> SUFFICES ASSUME deduped' PROVE UseInv'
        BY DEF UseInv
      <4>1. deduped
        BY <2>1
      <4>2. \A w \in 1..Len(waits) : Waiting(w)' => \A d \in did' : ~SamePress(waits'[w].frame, d)
        BY <3>3, <3>10, <3>11, <4>1
      <4>3. \A w \in 1..Len(waits') :
              /\ waits'[w].frame.id <= hubSeen'[waits'[w].frame.half]
              /\ \A v \in 1..Len(waits') \ {w} : ~SamePress(waits'[w].frame, waits'[v].frame)
        BY <2>9, <3>3, <4>1 DEF UseInv
      <4>4. QED
        BY <3>3, <3>8, <3>9, <4>1, <4>2, <4>3 DEF UseInv, Unused, Waiting, SamePress
    <3>13. LongsInv'
      <4>1. Taken(waits'[pending].frame, "both") \in did'
        BY <3>1, <3>3, <3>4, <3>5
      <4>2. did \subseteq did'
        BY <3>5
      <4>3. QED
        BY <3>1, <3>3, <4>1, <4>2 DEF LongsInv, LongsAreAnswered
    <3>14. QED
      BY <3>12, <3>13
  <2>14. CASE Waits(f)
    <3> DEFINE n == Len(waits) + 1
    <3>1. waits' = Append(waits, [frame |-> f, timer |-> "set"]) /\ UNCHANGED <<did, twice>>
      BY <2>14 DEF Waits
    <3>2. Len(waits') = n /\ waits'[n].frame = f /\ waits'[n].timer = "set"
          /\ \A w \in 1..Len(waits) : waits'[w] = waits[w]
      BY <2>2, <3>1
    <3>3. \A w \in 1..Len(waits') : w \in 1..Len(waits) \/ w = n
      BY <2>2, <3>2
    <3>4. UseInv'
      <4> SUFFICES ASSUME deduped' PROVE UseInv'
        BY DEF UseInv
      <4>1. deduped
        BY <2>1
      <4>2. \A w \in 1..Len(waits') : waits'[w].frame.id <= hubSeen'[waits'[w].frame.half]
        BY <1>2, <2>6, <2>9, <3>2, <3>3, <4>1
      <4>3. \A w \in 1..Len(waits') : Waiting(w)' => \A d \in did' : ~SamePress(waits'[w].frame, d)
        BY <2>7, <3>1, <3>2, <3>3, <4>1 DEF UseInv, Unused, Waiting
      <4>4. \A w \in 1..Len(waits') : \A v \in 1..Len(waits') \ {w} :
              ~SamePress(waits'[w].frame, waits'[v].frame)
        BY <2>7, <3>2, <3>3, <4>1 DEF UseInv, SamePress
      <4>5. QED
        BY <2>8, <3>1, <4>1, <4>2, <4>3, <4>4 DEF UseInv, Unused, Waiting, SamePress
    <3>5. LongsInv'
      BY <3>1, <3>2, <3>3 DEF LongsInv, LongsAreAnswered
    <3>6. QED
      BY <3>4, <3>5
  <2>15. QED
    BY <1>2, <2>1, <2>11, <2>12, <2>13, <2>14 DEF Acts
<1>5. QED
  BY <1>3, <1>4

LEMMA TimerUses ==
  ASSUME RigType, UseInv, LongsInv, NEW w \in 1..Len(waits), TimerFires(w) \/ TimerRuns(w)
  PROVE  UseInv' /\ LongsInv'
<1>1. waits \in Seq(Long) /\ \A v \in 1..Len(waits) : waits[v] \in Long
  BY DEF RigType
<1>2. \A t : waits' = [waits EXCEPT ![w].timer = t] =>
        /\ Len(waits') = Len(waits) /\ waits'[w].timer = t
        /\ \A v \in 1..Len(waits) : /\ waits'[v].frame = waits[v].frame
                                    /\ v # w => waits'[v].timer = waits[v].timer
  <2> SUFFICES ASSUME NEW t, waits' = [waits EXCEPT ![w].timer = t]
               PROVE  /\ Len(waits') = Len(waits) /\ waits'[w].timer = t
                      /\ \A v \in 1..Len(waits) : /\ waits'[v].frame = waits[v].frame
                                                  /\ v # w => waits'[v].timer = waits[v].timer
    OBVIOUS
  <2>1. Len(waits') = Len(waits)
        /\ \A v \in 1..Len(waits) :
             waits'[v] = IF v = w THEN [waits[v] EXCEPT !.timer = t] ELSE waits[v]
    BY <1>1
  <2>2. [waits[w] EXCEPT !.timer = t].timer = t
        /\ [waits[w] EXCEPT !.timer = t].frame = waits[w].frame
    BY <1>1 DEF Long
  <2>3. QED
    BY <2>1, <2>2
<1>3. CASE TimerFires(w)
  <2>1. waits' = [waits EXCEPT ![w].timer = "fired"] /\ waits[w].timer = "set"
        /\ UNCHANGED <<did, twice, hubSeen, deduped>>
    BY <1>3 DEF TimerFires
  <2>2. Len(waits') = Len(waits) /\ waits'[w].timer = "fired"
        /\ \A v \in 1..Len(waits) : /\ waits'[v].frame = waits[v].frame
                                    /\ v # w => waits'[v].timer = waits[v].timer
    BY <1>2, <2>1
  <2>3. \A v \in 1..Len(waits) : Waiting(v)' => Waiting(v)
    BY <2>1, <2>2 DEF Waiting
  <2>4. UseInv'
    BY <2>1, <2>2, <2>3 DEF UseInv, Unused, SamePress
  <2>5. LongsInv'
    BY <2>1, <2>2 DEF LongsInv, LongsAreAnswered
  <2>6. QED
    BY <2>4, <2>5
<1>4. CASE TimerRuns(w)
  <2> DEFINE f == waits[w].frame
  <2>1. waits' = [waits EXCEPT ![w].timer = "done"] /\ waits[w].timer = "fired"
        /\ UNCHANGED <<hubSeen, deduped>>
    BY <1>4 DEF TimerRuns
  <2>2. Len(waits') = Len(waits) /\ waits'[w].timer = "done"
        /\ \A v \in 1..Len(waits) : /\ waits'[v].frame = waits[v].frame
                                    /\ v # w => waits'[v].timer = waits[v].timer
    BY <1>2, <2>1
  <2>3. hub' # Free
    <3>1. hub'.pc = "ask" /\ Free.pc = "free"
      BY <1>4 DEF TimerRuns, UndoOf, Free
    <3>2. QED
      BY <3>1
  <2>4. did' = did \cup {Taken(f, "undo")} /\ twice' = (twice \/ \E d \in did : SamePress(f, d))
    BY <1>4, <2>3 DEF TimerRuns, Took, SamePress
  <2> HIDE DEF f
  <2>5. Taken(f, "undo").half = f.half /\ Taken(f, "undo").id = f.id /\ f = waits[w].frame
    BY DEF Taken, f
  <2>6. \A v \in 1..Len(waits) : Waiting(v)' => v # w /\ Waiting(v)
    BY <2>1, <2>2 DEF Waiting
  <2>7. UseInv'
    <3> SUFFICES ASSUME deduped' PROVE UseInv'
      BY DEF UseInv
    <3>1. deduped
      BY <2>1
    <3>2. ~twice'
      BY <2>1, <2>4, <2>5, <3>1 DEF UseInv, Unused, Waiting
    <3>3. \A d \in did' : d.id <= hubSeen'[d.half]
      BY <2>1, <2>4, <2>5, <3>1 DEF UseInv
    <3>4. \A v \in 1..Len(waits') : Waiting(v)' => \A d \in did' : ~SamePress(waits'[v].frame, d)
      <4> SUFFICES ASSUME NEW v \in 1..Len(waits'), Waiting(v)', NEW d \in did'
                   PROVE  ~SamePress(waits'[v].frame, d)
        OBVIOUS
      <4>1. v # w /\ Waiting(v) /\ waits'[v].frame = waits[v].frame
        BY <2>2, <2>6
      <4>2. \A c \in did : ~SamePress(waits[v].frame, c)
        BY <2>2, <3>1, <4>1 DEF UseInv, Unused
      <4>3. ~SamePress(waits[v].frame, f)
        BY <2>2, <2>5, <3>1, <4>1 DEF UseInv
      <4>4. QED
        BY <2>4, <2>5, <4>1, <4>2, <4>3 DEF SamePress
    <3>5. \A v \in 1..Len(waits') :
            /\ waits'[v].frame.id <= hubSeen'[waits'[v].frame.half]
            /\ \A u \in 1..Len(waits') \ {v} : ~SamePress(waits'[v].frame, waits'[u].frame)
      BY <2>1, <2>2, <3>1 DEF UseInv
    <3>6. QED
      BY <3>1, <3>2, <3>3, <3>4, <3>5 DEF UseInv, Unused, Waiting, SamePress
  <2>8. LongsInv'
    <3>1. Taken(waits'[w].frame, "undo") \in did' /\ did \subseteq did'
      BY <2>2, <2>4, <2>5
    <3>2. QED
      BY <2>2, <3>1 DEF LongsInv, LongsAreAnswered
  <2>9. QED
    BY <2>7, <2>8
<1>5. QED
  BY <1>3, <1>4

LEMMA RigUses ==
  ASSUME RigType, UseInv, LongsInv, RigNext
  PROVE  UseInv' /\ LongsInv'
<1>1. CASE \E h \in Halves : Press(h) \/ PressKey(h) \/ Tap(h)
  BY <1>1, UseInvKept DEF Press, PressKey, Tap, OnAir
<1>2. CASE PressBoth \/ HoldFob \/ FobExpires \/ SetSettings
  <2>1. UNCHANGED <<did, twice, waits, hubSeen>>
    BY <1>2 DEF PressBoth, HoldFob, FobExpires, SetSettings
  <2>2. deduped' => deduped
    BY <1>2, Zenon DEF PressBoth, HoldFob, FobExpires, SetSettings
  <2>3. QED
    BY <2>1, <2>2, UseInvKept
<1>3. CASE HubCall \/ CallFails
  <2>1. HubOnly
    BY <1>3 DEF HubCall, Ask, Look, Try, BothAsk, BothEnd, TryCheckIn, CallFails
  <2>2. QED
    BY <2>1, UseInvKept DEF HubOnly
<1>4. QED
  BY <1>1, <1>2, <1>3, ReceiveUses, TimerUses DEF RigNext

(* A fob is in one place: held to the reader, on its way or checked in;    *)
(* those held later have smaller names.                                    *)
FobInv ==
  /\ fob # 0 => fob > rigLeft.fobs
  /\ hub.pc = "checkin" => hub.fob > rigLeft.fobs /\ hub.fob # fob /\ hub.event <= hubEvent
  /\ \A n \in 1..Len(desk) :
       /\ desk[n].fob > rigLeft.fobs /\ desk[n].fob # fob /\ desk[n].event <= hubEvent
       /\ hub.pc = "checkin" => (desk[n].event = hub.event <=> desk[n].fob = hub.fob)
  /\ \A n, k \in 1..Len(desk) : n # k => desk[n].fob # desk[k].fob

LEMMA FobInvKept ==
  ASSUME FobInv, UNCHANGED <<fob, hubEvent, desk>>, rigLeft'.fobs = rigLeft.fobs,
         hub' = hub \/ hub'.pc # "checkin"
  PROVE  FobInv'
BY DEF FobInv

LEMMA ResolvesOnce ==
  ASSUME RigType, FobInv, hub.pc = "checkin", desk' = Resolves(hub), UNCHANGED <<fob, hubEvent>>,
         rigLeft'.fobs = rigLeft.fobs,
         \/ hub'.pc # "checkin"
         \/ hub'.event = hub.event /\ hub'.fob = hub.fob
  PROVE  FobInv'
<1>1. hub.event \in Nat /\ hub.fob \in Nat
  BY HubIsAt DEF RigType, CheckingIn
<1>2. desk \in Seq(CheckedIn)
  BY DEF RigType
<1> DEFINE r == [event |-> hub.event, fob |-> hub.fob, half |-> hub.half]
<1>3. r.event = hub.event /\ r.fob = hub.fob
  OBVIOUS
<1>4. CASE \E n \in 1..Len(desk) : desk[n].event = hub.event
  BY <1>4 DEF FobInv, Resolves
<1>5. CASE ~\E n \in 1..Len(desk) : desk[n].event = hub.event
  <2>1. desk' = Append(desk, r)
    BY <1>5 DEF Resolves
  <2> HIDE DEF r
  <2>2. Len(desk') = Len(desk) + 1 /\ Len(desk) \in Nat /\ desk'[Len(desk) + 1] = r
        /\ \A n \in 1..Len(desk) : desk'[n] = desk[n]
    BY <1>2, <2>1
  <2>3. \A n \in 1..Len(desk') : n \in 1..Len(desk) \/ n = Len(desk) + 1
    BY <2>2
  <2>4. \A n \in 1..Len(desk) : desk[n].fob # hub.fob
    BY <1>5 DEF FobInv
  <2>5. \A n, k \in 1..Len(desk') : n # k => desk'[n].fob # desk'[k].fob
    BY <1>3, <2>2, <2>3, <2>4 DEF FobInv
  <2>6. \A n \in 1..Len(desk') :
          /\ desk'[n].fob > rigLeft'.fobs /\ desk'[n].fob # fob' /\ desk'[n].event <= hubEvent'
          /\ hub'.pc = "checkin" => (desk'[n].event = hub'.event <=> desk'[n].fob = hub'.fob)
    <3> SUFFICES ASSUME NEW n \in 1..Len(desk')
                 PROVE  /\ desk'[n].fob > rigLeft'.fobs /\ desk'[n].fob # fob' /\ desk'[n].event <= hubEvent'
                        /\ hub'.pc = "checkin" => (desk'[n].event = hub'.event <=> desk'[n].fob = hub'.fob)
      OBVIOUS
    <3>1. CASE n \in 1..Len(desk)
      BY <2>2, <3>1 DEF FobInv
    <3>2. CASE n = Len(desk) + 1
      BY <1>3, <2>2, <3>2 DEF FobInv
    <3>3. QED
      BY <2>3, <3>1, <3>2
  <2>7. QED
    BY <2>5, <2>6 DEF FobInv
<1>6. QED
  BY <1>4, <1>5

LEMMA RigFobs ==
  ASSUME RigType, FobInv, RigNext
  PROVE  FobInv'
<1>1. rigLeft \in RigLeft /\ rigLeft.fobs \in Nat /\ fob \in Nat /\ hubEvent \in Nat
  BY DEF RigType, RigLeft
<1>2. \A n \in 1..Len(desk) : desk[n].fob \in Nat /\ desk[n].event \in Nat
  <2>1. \A n \in 1..Len(desk) : desk[n] \in CheckedIn
    BY DEF RigType
  <2>2. QED
    BY <2>1 DEF CheckedIn
<1>3. hub.pc = "checkin" => hub.fob \in Nat /\ hub.event \in Nat
  BY HubIsAt DEF RigType, CheckingIn
<1>4. /\ \A l : rigLeft' = [rigLeft EXCEPT !.presses = l] => rigLeft'.fobs = rigLeft.fobs
      /\ \A l : rigLeft' = [rigLeft EXCEPT !.changes = l] => rigLeft'.fobs = rigLeft.fobs
      /\ \A l : rigLeft' = [rigLeft EXCEPT !.failures = l] => rigLeft'.fobs = rigLeft.fobs
      /\ \A l : rigLeft' = [rigLeft EXCEPT !.fobs = l] => rigLeft'.fobs = l
  BY <1>1 DEF RigLeft
<1>5. CASE \E h \in Halves : Press(h) \/ PressKey(h) \/ Tap(h)
  BY <1>4, <1>5, FobInvKept DEF Press, PressKey, Tap, OnAir
<1>6. CASE PressBoth \/ SetSettings
  BY <1>4, <1>6, FobInvKept DEF PressBoth, SetSettings
<1>7. CASE HoldFob
  <2>1. rigLeft.fobs > 0 /\ fob' = rigLeft.fobs /\ rigLeft'.fobs = rigLeft.fobs - 1
        /\ UNCHANGED <<hub, hubEvent, desk>>
    BY <1>4, <1>7 DEF HoldFob
  <2>2. QED
    BY <1>1, <1>2, <1>3, <2>1 DEF FobInv
<1>8. CASE FobExpires
  <2>1. fob' = 0 /\ UNCHANGED <<hub, hubEvent, desk, rigLeft>>
    BY <1>8 DEF FobExpires
  <2>2. QED
    BY <1>1, <1>2, <1>3, <2>1 DEF FobInv
<1>9. ASSUME NEW frames \in air, Receive(frames) PROVE FobInv'
  <2> DEFINE f == Head(frames)
  <2>1. UNCHANGED <<desk, rigLeft>> /\ hub = Free /\ (Known(f) => UNCHANGED <<hub, fob, hubEvent>>)
        /\ (Known(f) \/ Acts(f))
    BY <1>9 DEF Receive
  <2> HIDE DEF f
  <2>2. hub.pc # "checkin"
    BY <2>1 DEF Free
  <2>3. CASE Known(f)
    BY <2>1, <2>3, FobInvKept
  <2>4. CASE CheckIn(f) /\ fob # 0
    <3>1. hub'.pc = "checkin" /\ hub'.event = hubEvent + 1 /\ hub'.fob = fob
      BY <2>4 DEF CheckIn
    <3>2. hubEvent' = hubEvent + 1 /\ fob' = 0
      BY <2>4 DEF CheckIn, FobAfter
    <3>3. \A n \in 1..Len(desk) : desk[n].event <= hubEvent /\ desk[n].fob # fob
                                  /\ desk[n].fob > rigLeft.fobs
      BY DEF FobInv
    <3>4. fob > rigLeft.fobs /\ UNCHANGED <<desk, rigLeft>>
      BY <2>1, <2>4 DEF FobInv
    <3>5. \A n \in 1..Len(desk) :
            /\ desk[n].event # hubEvent + 1 /\ desk[n].event <= hubEvent + 1 /\ desk[n].fob # 0
      BY <1>1, <1>2, <3>3
    <3>6. QED
      BY <1>1, <2>4, <3>1, <3>2, <3>3, <3>4, <3>5 DEF FobInv
  <2>5. ASSUME NEW what, Asks(f, what) PROVE FobInv'
    <3>1. hub'.pc # "checkin" /\ UNCHANGED <<fob, hubEvent>>
      BY <2>5 DEF Asks
    <3>2. QED
      BY <2>1, <3>1, FobInvKept
  <2>6. CASE BothLong(f)
    <3>1. hub'.pc # "checkin" /\ UNCHANGED <<fob, hubEvent>>
      BY <2>6 DEF BothLong, Free
    <3>2. QED
      BY <2>1, <3>1, FobInvKept
  <2>7. CASE Waits(f)
    BY <2>1, <2>7, FobInvKept DEF Waits
  <2>8. f.gesture \in {"short", "long", "point", "undo"}
    <3>1. frames \in Seq(Frame) /\ frames # <<>>
      BY DEF RigType, AirType
    <3>2. f \in Frame
      BY <3>1 DEF f
    <3>3. QED
      BY <3>2 DEF Frame
  <2>9. QED
    BY <2>1, <2>3, <2>4, <2>5, <2>6, <2>7, <2>8 DEF Acts
<1>10. ASSUME NEW w \in 1..Len(waits), TimerFires(w) \/ TimerRuns(w) PROVE FobInv'
  <2>1. UNCHANGED <<fob, hubEvent, desk, rigLeft>> /\ (hub' = hub \/ hub'.pc # "checkin")
    BY <1>10 DEF TimerFires, TimerRuns, UndoOf
  <2>2. QED
    BY <2>1, FobInvKept
<1>11. ASSUME UNCHANGED <<fob, hubEvent, desk>>, rigLeft'.fobs = rigLeft.fobs,
              hub'.pc # "checkin"
       PROVE  FobInv'
  BY <1>11, FobInvKept
<1>12. CASE Ask
  <2>1. UNCHANGED <<fob, hubEvent, desk, rigLeft>>
    BY <1>12 DEF Ask, HubOnly
  <2>2. hub' = Free \/ hub' = [hub EXCEPT !.pc = "look"] \/ \E e : hub' = Post(e, 0)
    BY <1>12 DEF Ask
  <2>3. hub \in Asking
    BY <1>12, HubIsAt DEF Ask, RigType
  <2>4. hub'.pc # "checkin"
    BY <2>2, <2>3 DEF Free, Post, Asking
  <2>5. QED
    BY <2>1, <2>4, <1>11
<1>13. CASE Look
  <2>1. UNCHANGED <<fob, hubEvent, desk, rigLeft>> /\ hub'.pc # "checkin"
    BY <1>13 DEF Look, HubOnly, Post
  <2>2. QED
    BY <2>1, <1>11
<1>14. ASSUME hub.pc = "post" PROVE [hub EXCEPT !.attempts = @ - 1].pc = "post"
  BY <1>14, HubIsAt DEF RigType, Posting
<1>15. CASE Try
  <2>1. UNCHANGED <<fob, hubEvent, desk, rigLeft>> /\ hub'.pc # "checkin"
    BY <1>14, <1>15 DEF Try, HubOnly, Free
  <2>2. QED
    BY <2>1, <1>11
<1>16. CASE BothAsk \/ BothEnd
  <2>1. UNCHANGED <<fob, hubEvent, desk, rigLeft>> /\ hub'.pc # "checkin"
    BY <1>16 DEF BothAsk, BothEnd, HubOnly, Free
  <2>2. QED
    BY <2>1, <1>11
<1>17. CASE TryCheckIn
  <2>1. hub \in CheckingIn
    BY <1>17, HubIsAt DEF TryCheckIn, RigType
  <2>2. hub'.pc # "checkin" \/ (hub'.event = hub.event /\ hub'.fob = hub.fob)
    BY <1>17, <2>1 DEF TryCheckIn, Free, CheckingIn
  <2>3. QED
    BY <1>17, <2>2, ResolvesOnce DEF TryCheckIn, HubOnly
<1>18. CASE CallFails
  <2>1. rigLeft'.fobs = rigLeft.fobs /\ UNCHANGED <<fob, hubEvent>> /\ hub'.pc # "checkin"
    BY <1>4, <1>18 DEF CallFails, HubOnly, Free
  <2>2. UNCHANGED desk \/ (hub.pc = "checkin" /\ desk' = Resolves(hub))
    BY <1>18 DEF CallFails
  <2>3. QED
    BY <1>11, <2>1, <2>2, ResolvesOnce
<1>19. QED
  BY <1>5, <1>6, <1>7, <1>8, <1>9, <1>10, <1>12, <1>13, <1>15, <1>16, <1>17, <1>18 DEF RigNext, HubCall

-----------------------------------------------------------------------------
(* The board: types, and what it asks of zaehlwerk.                        *)

InAMatch == {"look", "final", "pause", "rally", "send", "again", "undo", "countedTwice"}
Sending  == board.pc \in {"send", "again"}

SetNumbers == {1} \cup {SetNumber(x) : x \in TableMatch}
Answers    == {NoScore} \cup {ScoreOf(x) : x \in TableMatch}

Places == [pc : {"create", "join", "gaveUp"} \cup InAMatch, match : Matches \cup {0},
           set : SetNumbers, event : Nat, kind : {"point", "miss", "undo"},
           player : Players, score : Answers, undoes : BOOLEAN]

BoardType ==
  /\ board \in Places /\ (board.pc \in InAMatch => board.match \in Matches)
  /\ boardID \in Nat /\ board.event <= boardID
  /\ touched \in BOOLEAN

BoardAsks == IF Sending THEN {board.match} ELSE {}

LEMMA PlacesGrow ==
  ASSUME Matches \subseteq Matches'
  PROVE  Places \subseteq Places'
BY DEF Places

LEMMA BoardTypeKept ==
  ASSUME BoardType, UNCHANGED <<board, boardID>>, Matches \subseteq Matches', touched' \in BOOLEAN
  PROVE  BoardType'
<1>1. Places \subseteq Places'
  BY PlacesGrow
<1>2. QED
  BY <1>1 DEF BoardType

LEMMA BoardMoves ==
  ASSUME BoardType,
         NEW pc \in {"create", "join", "gaveUp"} \cup InAMatch
  PROVE  /\ [board EXCEPT !.pc = pc] \in Places
         /\ [board EXCEPT !.pc = pc].pc = pc
         /\ [board EXCEPT !.pc = pc].match = board.match
         /\ [board EXCEPT !.pc = pc].event = board.event
         /\ [board EXCEPT !.pc = pc].score = board.score
BY DEF BoardType, Places

LEMMA BoardNumbers ==
  ASSUME NEW b \in Places, NEW e \in Nat, NEW kind \in {"point", "miss", "undo"}, NEW p \in Players
  PROVE  /\ [b EXCEPT !.pc = "send", !.event = e, !.kind = kind] \in Places
         /\ [b EXCEPT !.pc = "send", !.event = e, !.kind = kind, !.player = p] \in Places
BY DEF Places, InAMatch

LEMMA BoardEventIsOne ==
  ASSUME BoardType
  PROVE  BoardEvent \in Event /\ BoardEvent.source = PiezoSource /\ BoardEvent.id = board.event
<1>1. board \in Places /\ PiezoSource \in Senders
  BY BoardAssumption DEF BoardType
<1>2. board.event \in Nat /\ board.kind \in {"point", "miss", "undo"} /\ board.player \in Players
  BY <1>1 DEF Places
<1>3. QED
  BY <1>1, <1>2 DEF BoardEvent, Event

LEMMA BoardRequests ==
  ASSUME MatchesInv, BoardType, BoardNext
  PROVE  Requests(BoardAsks, {BoardEvent}) /\ BoardAsks \subseteq Matches
<1>1. BoardAsks \subseteq Matches
  BY DEF BoardAsks, Sending, BoardType, InAMatch
<1>2. CASE matches' = matches
  BY <1>1, <1>2 DEF Requests
<1>3. CASE StartMatch(FALSE, FALSE)
  BY <1>1, <1>3 DEF Requests
<1>4. CASE Sending /\ Ingest(board.match, BoardEvent)
  BY <1>1, <1>4 DEF Requests, BoardAsks
<1>5. matches' = matches \/ StartMatch(FALSE, FALSE) \/ (Sending /\ Ingest(board.match, BoardEvent))
  <2>1. CASE Create
    BY <2>1 DEF Create
  <2>2. CASE Join \/ LookAgain \/ Final \/ WaitWhilePaused \/ Correct
    BY <2>2 DEF Join, LookAgain, Final, WaitWhilePaused, Correct
  <2>3. CASE \E half \in Players, kind \in {"point", "miss"} : Rally(half, kind)
    BY <2>3 DEF Rally
  <2>4. CASE Send
    BY <2>4 DEF Send, Sending, BoardMatch
  <2>5. CASE Unanswered
    BY <2>5 DEF Unanswered, Sending, BoardMatch
  <2>6. CASE \E form \in {"pause", "resume", "knobs"} : ReadControl(form)
    BY <2>6 DEF ReadControl
  <2>7. CASE \E e \in edits : SetControl(e)
    BY <2>7 DEF SetControl
  <2>8. QED
    BY <2>1, <2>2, <2>3, <2>4, <2>5, <2>6, <2>7 DEF BoardNext
<1>6. QED
  BY <1>2, <1>3, <1>4, <1>5
-----------------------------------------------------------------------------
(* The board: a rally counts in one match.                                 *)

PiezoIds(x) == {x.counted[n].id : n \in {k \in 1..Len(x.counted) : x.counted[k].source = PiezoSource}}

(* What has counted of the board's is of its counter so far, and the event *)
(* it is sending only in the match it names.                               *)
RallyInv ==
  /\ \A i \in Matches : \A d \in PiezoIds(matches[i]) :
       d <= boardID /\ (Sending /\ d = board.event => i = board.match)
  /\ \A i, j \in Matches : i # j => PiezoIds(matches[i]) \cap PiezoIds(matches[j]) = {}

LEMMA PiezoIdsGrow ==
  ASSUME MatchesInv, NEW I, NEW E, NEW i \in Matches, Served(I, E, i)
  PROVE  PiezoIds(matches'[i]) \subseteq
           PiezoIds(matches[i]) \cup {e.id : e \in {c \in E : i \in I /\ c.source = PiezoSource}}
<1>1. CASE matches'[i].counted = matches[i].counted
  BY <1>1 DEF PiezoIds
<1>2. ASSUME i \in I, NEW e \in E, Counts(matches[i], e, matches'[i])
      PROVE  PiezoIds(matches'[i]) \subseteq
               PiezoIds(matches[i]) \cup {c.id : c \in {c \in E : i \in I /\ c.source = PiezoSource}}
  <2>1. CASE matches'[i].counted = matches[i].counted
    BY <2>1 DEF PiezoIds
  <2>2. CASE matches'[i].counted = Append(matches[i].counted, e)
    <3> DEFINE c == matches[i].counted
    <3>1. c \in Seq(Event)
      BY DEF MatchesInv, Keeps, TableMatch
    <3>2. matches'[i].counted = Append(c, e)
      BY <2>2
    <3> HIDE DEF c
    <3>3. Len(Append(c, e)) = Len(c) + 1 /\ Append(c, e)[Len(c) + 1] = e /\ Len(c) \in Nat
          /\ \A n \in 1..Len(c) : Append(c, e)[n] = c[n]
      BY <3>1
    <3>4. ASSUME NEW d \in PiezoIds(matches'[i])
          PROVE  d \in PiezoIds(matches[i]) \/ (d = e.id /\ e.source = PiezoSource)
      <4>1. PICK n \in 1..Len(Append(c, e)) : Append(c, e)[n].source = PiezoSource /\ d = Append(c, e)[n].id
        BY <3>2, <3>4 DEF PiezoIds
      <4>2. CASE n \in 1..Len(c)
        BY <3>3, <4>1, <4>2 DEF PiezoIds, c
      <4>3. CASE n = Len(c) + 1
        BY <3>3, <4>1, <4>3
      <4>4. QED
        BY <3>3, <4>1, <4>2, <4>3
    <3>5. QED
      BY <1>2, <3>4
  <2>3. QED
    BY <1>2, <2>1, <2>2 DEF Counts
<1>3. QED
  BY <1>1, <1>2 DEF Served

(* A step that counts nothing of the board's, and leaves it where it is or *)
(* no longer or not yet sending.                                           *)
LEMMA RallyInvKept ==
  ASSUME MatchesInv, RallyInv, NEW I, NEW E, \A e \in E : e.source # PiezoSource,
         Progress(I, E), boardID' = boardID,
         ~Sending' \/ (Sending /\ UNCHANGED board)
  PROVE  RallyInv'
<1>1. \A i \in Matches : PiezoIds(matches'[i]) \subseteq PiezoIds(matches[i])
  <2> SUFFICES ASSUME NEW i \in Matches PROVE PiezoIds(matches'[i]) \subseteq PiezoIds(matches[i])
    OBVIOUS
  <2>1. Served(I, E, i)
    BY DEF Progress
  <2>2. QED
    BY <2>1, PiezoIdsGrow
<1>2. \A i \in Matches' : i \notin Matches => PiezoIds(matches'[i]) = {}
  <2> SUFFICES ASSUME NEW i \in Matches', i \notin Matches PROVE PiezoIds(matches'[i]) = {}
    OBVIOUS
  <2>1. Len(matches) \in Nat /\ Len(matches') \in Nat
    BY DEF MatchesInv, Progress
  <2>2. i = Len(matches') /\ Started(matches'[i])
    BY <2>1 DEF Progress, Matches
  <2>3. matches'[i].counted = <<>>
    BY <2>2 DEF Started
  <2>4. QED
    BY <2>3 DEF PiezoIds
<1>3. \A i \in Matches' : \A d \in PiezoIds(matches'[i]) : i \in Matches /\ d \in PiezoIds(matches[i])
  BY <1>1, <1>2
<1>4. \A i \in Matches' : \A d \in PiezoIds(matches'[i]) :
        d <= boardID' /\ (Sending' /\ d = board'.event => i = board'.match)
  BY <1>3 DEF RallyInv, Sending
<1>5. \A i, j \in Matches' : i # j => PiezoIds(matches'[i]) \cap PiezoIds(matches'[j]) = {}
  BY <1>3 DEF RallyInv
<1>6. QED
  BY <1>4, <1>5 DEF RallyInv, PiezoIds

(* The board may send its event again once the match has it, and its score *)
(* is what the board was answered unless somebody else has scored since.   *)
QuietInv ==
  /\ board.pc = "again" =>
       /\ board.event <= matches[board.match].seen[PiezoSource]
       /\ touched \/ board.score = ScoreOf(matches[board.match])
  /\ ResendIsQuiet

BoardInv == BoardType /\ RallyInv /\ QuietInv

LEMMA SeenGrows ==
  ASSUME MatchesInv, NEW I, NEW E, E \subseteq Event, Progress(I, E), NEW i \in Matches,
         NEW s \in Senders, NEW n \in Nat, n <= matches[i].seen[s]
  PROVE  n <= matches'[i].seen[s]
<1>1. matches[i].seen \in [Senders \cup {Page} -> Nat]
  BY DEF MatchesInv, Keeps, TableMatch
<1>2. CASE matches'[i].seen = matches[i].seen
  BY <1>2
<1>3. ASSUME NEW e \in E, Counts(matches[i], e, matches'[i]) PROVE n <= matches'[i].seen[s]
  <2>1. e.id \in Nat /\ e.id > matches[i].seen[e.source]
        /\ matches'[i].seen = [matches[i].seen EXCEPT ![e.source] = e.id]
    BY <1>3 DEF Counts, Event
  <2> DEFINE w == matches[i].seen
  <2> HIDE DEF w
  <2>2. matches'[i].seen[s] = IF s = e.source THEN e.id ELSE w[s]
    BY <1>1, <2>1 DEF w
  <2>3. n <= w[s] /\ w[s] \in Nat /\ (s = e.source => e.id > w[s])
    BY <1>1, <2>1 DEF w
  <2>4. QED
    BY <2>1, <2>2, <2>3
<1>4. QED
  BY <1>2, <1>3 DEF Progress, Served

(* Whatever the others do.                                                 *)
LEMMA BoardInvStays ==
  ASSUME MatchesInv, BoardInv, NEW I, NEW E, E \subseteq Event, \A e \in E : e.source # PiezoSource,
         Progress(I, E), BoardStays
  PROVE  BoardInv'
<1>1. Matches \subseteq Matches'
  BY DEF Progress, MatchesInv, Matches
<1>2. UNCHANGED <<board, boardID>> /\ Touched
  BY DEF BoardStays
<1>3. touched' = (touched \/ (board.match # 0 /\ ScoreOf(matches'[board.match])
                                                   # ScoreOf(matches[board.match])))
  BY <1>2 DEF Touched
<1>4. touched' \in BOOLEAN /\ (touched => touched')
  BY <1>3 DEF BoardInv, BoardType
<1>5. BoardType'
  BY <1>1, <1>2, <1>4, BoardTypeKept DEF BoardInv
<1>6. RallyInv'
  BY <1>2, RallyInvKept DEF BoardInv, Sending
<1>7. board.pc = "again" =>
        /\ board.event <= matches'[board.match].seen[PiezoSource]
        /\ touched' \/ board.score = ScoreOf(matches'[board.match])
  <2> SUFFICES ASSUME board.pc = "again"
               PROVE  /\ board.event <= matches'[board.match].seen[PiezoSource]
                      /\ touched' \/ board.score = ScoreOf(matches'[board.match])
    OBVIOUS
  <2>1. board.match \in Matches /\ board.event \in Nat
    BY DEF BoardInv, BoardType, InAMatch, Places
  <2>2. board.match # 0
    BY <2>1 DEF MatchesInv, Matches
  <2>3. board.event <= matches'[board.match].seen[PiezoSource]
    BY <2>1, SeenGrows, BoardAssumption DEF BoardInv, QuietInv
  <2>4. QED
    BY <1>3, <2>2, <2>3 DEF BoardInv, QuietInv
<1>8. QuietInv'
  BY <1>2, <1>4, <1>7 DEF BoardInv, QuietInv, ResendIsQuiet
<1>9. QED
  BY <1>5, <1>6, <1>8 DEF BoardInv

LEMMA AtIsAPlace ==
  ASSUME MatchesInv, NEW pc \in {"create", "join", "gaveUp"} \cup InAMatch, NEW i \in Matches \cup {0}
  PROVE  /\ At(pc, i) \in Places /\ At(pc, i).pc = pc /\ At(pc, i).match = i
         /\ At(pc, i).event = 0
BY DEF At, Places, Players, SetNumbers, Answers

(* Steps that count nothing: only Create touches the matches.              *)
LEMMA BoardIdles ==
  ASSUME MatchesInv, BoardInv, MatchesInv', Len(matches) <= Len(matches'),
         Create \/ Join \/ LookAgain \/ Final \/ WaitWhilePaused
  PROVE  BoardInv'
<1>1. Matches \subseteq Matches' /\ Len(matches) \in Nat
  BY DEF MatchesInv, Matches
<1>2. Requests({}, {})
  <2>1. UNCHANGED matches \/ StartMatch(FALSE, FALSE)
    BY DEF Create, Join, LookAgain, Final, WaitWhilePaused
  <2>2. QED
    BY <2>1 DEF Requests
<1>3. Progress({}, {})
  BY <1>2, RequestsProgress
<1>4. boardID' = boardID /\ touched' = touched
  BY DEF Create, Join, LookAgain, Final, WaitWhilePaused
<1>5. Places \subseteq Places'
  BY <1>1, PlacesGrow
<1>6. Current # 0 => Current \in Matches
  BY CurrentIsNewest
<1> DEFINE Idles ==
      /\ board' \in Places /\ (board'.pc \in InAMatch => board'.match \in Matches)
      /\ board'.event <= boardID
      /\ board'.pc \in {"create", "join", "gaveUp", "look", "pause", "rally", "final"}
<1>7. Idles
  <2>1. boardID \in Nat /\ board \in Places /\ board.event <= boardID
    BY DEF BoardInv, BoardType
  <2>2. ASSUME NEW pc \in {"join", "gaveUp", "create"}, board' = At(pc, 0)
        PROVE  Idles
    BY <2>1, <2>2, AtIsAPlace DEF InAMatch
  <2>3. ASSUME Create PROVE Idles
    BY <2>2, <2>3 DEF Create
  <2>4. ASSUME Join PROVE Idles
    <3>1. board' = At("look", Current) /\ Current # 0
      BY <2>4 DEF Join, Joinable
    <3>2. QED
      BY <1>6, <2>1, <3>1, AtIsAPlace DEF InAMatch
  <2>5. ASSUME Final PROVE Idles
    BY <2>2, <2>5 DEF Final
  <2>6. board.pc \in {"look", "pause"} => board.match \in Matches
    BY DEF BoardInv, BoardType, InAMatch
  <2>7. ASSUME WaitWhilePaused PROVE Idles
    BY <2>1, <2>6, <2>7, BoardMoves DEF WaitWhilePaused, BoardInv, InAMatch
  <2>8. ASSUME LookAgain PROVE Idles
    <3>1. CASE Current = board.match
      <4> DEFINE n == SetNumber(matches[board.match])
      <4>1. board.match \in Matches /\ matches[board.match] \in TableMatch
        BY <2>6, <2>8 DEF LookAgain, MatchesInv, Keeps
      <4>2. board' = [board EXCEPT !.pc = "pause", !.set = n]
        BY <2>8, <3>1 DEF LookAgain
      <4>3. n \in SetNumbers
        BY <4>1 DEF SetNumbers
      <4> HIDE DEF n
      <4>4. board' \in Places /\ board'.pc = "pause" /\ board'.match = board.match
            /\ board'.event = board.event
        BY <2>1, <4>2, <4>3 DEF Places, InAMatch
      <4>5. QED
        BY <2>1, <4>1, <4>4
    <3>2. CASE Current # board.match
      BY <2>1, <2>6, <2>8, <3>2, BoardMoves DEF LookAgain, BoardInv, InAMatch
    <3>3. QED
      BY <3>1, <3>2
  <2>9. QED
    BY <2>3, <2>4, <2>5, <2>7, <2>8
<1>8. BoardType'
  BY <1>1, <1>4, <1>5, <1>7 DEF BoardInv, BoardType
<1>9. RallyInv'
  BY <1>3, <1>4, <1>7, RallyInvKept DEF BoardInv, Sending
<1>10. QuietInv'
  BY <1>7 DEF QuietInv, ResendIsQuiet
<1>11. QED
  BY <1>8, <1>9, <1>10 DEF BoardInv

(* A new event has counted nowhere.                                        *)
LEMMA BoardCounts ==
  ASSUME MatchesInv, BoardInv,
         (\E half \in Players, kind \in {"point", "miss"} : Rally(half, kind)) \/ Correct
  PROVE  BoardInv'
<1>1. UNCHANGED <<matches, touched>> /\ boardID' = boardID + 1
  BY DEF Rally, Correct
<1>2. boardID \in Nat /\ board \in Places
  BY DEF BoardInv, BoardType
<1>3. board.match \in Matches
  BY DEF Rally, Correct, BoardInv, BoardType, InAMatch
<1> DEFINE Numbered == board' \in Places /\ board'.pc = "send" /\ board'.match = board.match
                       /\ board'.event = boardID + 1
<1>4. Numbered
  <2>1. boardID + 1 \in Nat /\ "A" \in Players
    BY <1>2 DEF Players
  <2>2. ASSUME NEW kind \in {"point", "miss", "undo"}, NEW p \in Players,
               \/ board' = [board EXCEPT !.pc = "send", !.event = boardID + 1, !.kind = kind]
               \/ board' = [board EXCEPT !.pc = "send", !.event = boardID + 1, !.kind = kind,
                                        !.player = p]
        PROVE  Numbered
    <3>1. /\ [board EXCEPT !.pc = "send", !.event = boardID + 1, !.kind = kind] \in Places
          /\ [board EXCEPT !.pc = "send", !.event = boardID + 1, !.kind = kind, !.player = p] \in Places
      BY <1>2, <2>1, BoardNumbers
    <3>2. board'.pc = "send" /\ board'.match = board.match /\ board'.event = boardID + 1
      BY <1>2, <2>2 DEF Places
    <3>3. board' \in Places
      BY <2>2, <3>1
    <3>4. QED
      BY <3>2, <3>3
  <2>3. ASSUME Correct PROVE Numbered
    BY <2>1, <2>2, <2>3 DEF Correct
  <2>4. ASSUME NEW half \in Players, NEW kind \in {"point", "miss"}, Rally(half, kind)
        PROVE  Numbered
    <3> DEFINE p == PlayerAtHalf(half, board.set)
    <3>1. p \in Players
      BY DEF PlayerAtHalf, Players
    <3>2. board' = [board EXCEPT !.pc = "send", !.event = boardID + 1, !.kind = kind, !.player = p]
      BY <2>4 DEF Rally
    <3> HIDE DEF p
    <3>3. QED
      BY <2>2, <3>1, <3>2
  <2>5. QED
    BY <2>3, <2>4
<1>5. Matches' = Matches /\ Places' = Places
  BY <1>1 DEF Matches, Places
<1>6. BoardType'
  BY <1>1, <1>2, <1>3, <1>4, <1>5 DEF BoardInv, BoardType
<1>7. \A i \in Matches : \A d \in PiezoIds(matches[i]) : d \in Nat
  <2> SUFFICES ASSUME NEW i \in Matches, NEW n \in 1..Len(matches[i].counted)
               PROVE  matches[i].counted[n].id \in Nat
    BY DEF PiezoIds
  <2>1. matches[i].counted \in Seq(Event)
    BY DEF MatchesInv, Keeps, TableMatch
  <2>2. matches[i].counted[n] \in Event
    BY <2>1
  <2>3. QED
    BY <2>2 DEF Event
<1>8. RallyInv'
  <2>1. \A i \in Matches : \A d \in PiezoIds(matches[i]) : d <= boardID + 1 /\ d # boardID + 1
    <3> SUFFICES ASSUME NEW i \in Matches, NEW d \in PiezoIds(matches[i])
                 PROVE  d <= boardID + 1 /\ d # boardID + 1
      OBVIOUS
    <3>1. d <= boardID /\ d \in Nat
      BY <1>7 DEF BoardInv, RallyInv
    <3>2. QED
      BY <1>2, <3>1
  <2>2. \A i \in Matches : PiezoIds(matches[i])' = PiezoIds(matches[i])
    BY <1>1 DEF PiezoIds
  <2>3. QED
    BY <1>1, <1>4, <1>5, <2>1, <2>2 DEF BoardInv, RallyInv
<1>9. QuietInv'
  BY <1>4 DEF QuietInv, ResendIsQuiet
<1>10. QED
  BY <1>6, <1>8, <1>9 DEF BoardInv

(* What a call with the event at hand counts.                              *)
LEMMA CallCounts ==
  ASSUME MatchesInv, BoardInv, Sending, Ingest(board.match, BoardEvent), boardID' = boardID,
         ~Sending' \/ (board'.event = board.event /\ board'.match = board.match)
  PROVE  /\ Matches' = Matches /\ RallyInv'
         /\ ~Refuses(matches[board.match], BoardEvent)
              => board.event <= matches'[board.match].seen[PiezoSource]
         /\ board.event <= matches[board.match].seen[PiezoSource] => matches' = matches
<1> DEFINE i == board.match
<1>1. i \in Matches /\ i # 0
  BY DEF Sending, BoardInv, BoardType, InAMatch, MatchesInv, Matches
<1>2. BoardEvent \in Event /\ BoardEvent.source = PiezoSource /\ BoardEvent.id = board.event
  BY BoardEventIsOne DEF BoardInv
<1>3. matches' = [matches EXCEPT ![i] = Ingested(matches[i], BoardEvent)]
  BY <1>1 DEF Ingest
<1>4. matches \in Seq(TableMatch) /\ Keeps(matches[i])
  BY <1>1 DEF MatchesInv
<1>5. Len(matches') = Len(matches) /\ matches'[i] = Ingested(matches[i], BoardEvent)
      /\ \A j \in Matches \ {i} : matches'[j] = matches[j]
  BY <1>1, <1>3, <1>4 DEF Matches
<1>6. Matches' = Matches
  BY <1>5 DEF Matches
<1>7. ~Refuses(matches[i], BoardEvent) => board.event <= matches'[i].seen[PiezoSource]
  BY <1>2, <1>4, <1>5, IngestedKeeps
<1>8. board.event <= matches[i].seen[PiezoSource] => matches' = matches
  <2> SUFFICES ASSUME board.event <= matches[i].seen[PiezoSource] PROVE matches' = matches
    OBVIOUS
  <2>1. matches[i].seen[PiezoSource] \in Nat /\ board.event \in Nat
    BY <1>2, <1>4, BoardAssumption DEF Keeps, TableMatch, Event
  <2>2. ~Accepts(matches[i], BoardEvent)
    BY <1>2, <2>1 DEF Accepts
  <2>3. Ingested(matches[i], BoardEvent) = matches[i]
    BY <2>2 DEF Ingested
  <2>4. QED
    BY <1>1, <1>3, <1>4, <2>3 DEF Matches
<1>9. Served({i}, {BoardEvent}, i)
  <2>1. SameSetup(matches[i], matches'[i])
        /\ (matches'[i] = matches[i] \/ Counts(matches[i], BoardEvent, matches'[i]))
    BY <1>2, <1>4, <1>5, IngestedKeeps
  <2>2. QED
    BY <2>1 DEF Served
<1>10. PiezoIds(matches'[i]) \subseteq PiezoIds(matches[i]) \cup {board.event}
  BY <1>1, <1>2, <1>9, PiezoIdsGrow
<1>11. \A j \in Matches \ {i} : PiezoIds(matches'[j]) = PiezoIds(matches[j])
  BY <1>5
<1>12. \A j \in Matches \ {i} : board.event \notin PiezoIds(matches[j])
  BY DEF BoardInv, RallyInv
<1>13. board.event <= boardID
  BY DEF BoardInv, BoardType
<1>14. \A j \in Matches : \A d \in PiezoIds(matches'[j]) :
         d <= boardID' /\ (Sending' /\ d = board'.event => j = board'.match)
  <2> SUFFICES ASSUME NEW j \in Matches, NEW d \in PiezoIds(matches'[j])
               PROVE  d <= boardID' /\ (Sending' /\ d = board'.event => j = board'.match)
    OBVIOUS
  <2>1. CASE d \in PiezoIds(matches[j])
    BY <2>1 DEF BoardInv, RallyInv
  <2>2. CASE d = board.event /\ j = i
    BY <1>13, <2>2
  <2>3. QED
    BY <1>10, <1>11, <2>1, <2>2
<1>15. \A j, k \in Matches : j # k => PiezoIds(matches'[j]) \cap PiezoIds(matches'[k]) = {}
  <2>1. \A j, k \in Matches : j # k => PiezoIds(matches[j]) \cap PiezoIds(matches[k]) = {}
    BY DEF BoardInv, RallyInv
  <2>2. QED
    BY <1>10, <1>11, <1>12, <2>1
<1>16. RallyInv'
  BY <1>6, <1>14, <1>15 DEF RallyInv, PiezoIds
<1>17. QED
  BY <1>6, <1>7, <1>8, <1>16

LEMMA BoardSends ==
  ASSUME MatchesInv, BoardInv, Send
  PROVE  BoardInv'
<1> DEFINE i == board.match
           refused == Refuses(matches[i], BoardEvent)
           answered == [board EXCEPT !.score = ScoreOf(matches'[i]),
                                     !.undoes = board.kind = "point" /\ ~Complete(matches'[i])]
<1>1. Sending /\ Ingest(i, BoardEvent) /\ boardID' = boardID
  BY DEF Send, Sending, BoardMatch
<1>2. i \in Matches /\ i # 0 /\ boardID \in Nat /\ board \in Places /\ board.event <= boardID
  BY <1>1 DEF Sending, BoardInv, BoardType, InAMatch, MatchesInv, Matches
<1>3. Status(i, BoardEvent) = IF refused THEN 409 ELSE 200
  BY <1>2 DEF Status
<1> DEFINE Moved(b) == /\ b \in Places /\ b.match = i /\ b.event = board.event
                       /\ b.pc \in InAMatch
<1>4. \A pc \in InAMatch : Moved([board EXCEPT !.pc = pc])
  BY <1>2, BoardMoves DEF BoardInv
<1>5. MatchesInv'
  <2>1. Requests({i}, {BoardEvent}) /\ {i} \subseteq Matches
    BY <1>1, <1>2 DEF Requests
  <2>2. QED
    BY <2>1, BoardEventIsOne, RequestsProgress DEF Progress, BoardInv
<1>6. Matches \subseteq Matches'
  BY <1>1, <1>2 DEF Ingest, MatchesInv, Matches
<1>7. matches'[i] \in TableMatch
  BY <1>2, <1>5, <1>6 DEF MatchesInv, Keeps
<1>8. Moved(answered) /\ answered.score = ScoreOf(matches'[i]) /\ answered.pc = board.pc
  <2> DEFINE sc == ScoreOf(matches'[i])
             un == board.kind = "point" /\ ~Complete(matches'[i])
  <2>1. sc \in Answers /\ un \in BOOLEAN
    BY <1>7 DEF Answers
  <2> HIDE DEF sc, un
  <2>2. [board EXCEPT !.score = sc, !.undoes = un] \in Places
    BY <1>2, <2>1 DEF Places
  <2>3. /\ [board EXCEPT !.score = sc, !.undoes = un].match = i
        /\ [board EXCEPT !.score = sc, !.undoes = un].event = board.event
        /\ [board EXCEPT !.score = sc, !.undoes = un].score = sc
        /\ [board EXCEPT !.score = sc, !.undoes = un].pc = board.pc
    BY <1>2, <2>1 DEF Places
  <2>4. QED
    BY <1>1, <2>2, <2>3 DEF Sending, InAMatch, sc, un
<1> HIDE DEF answered
<1>9. \A pc \in {"look", "undo", "again"} :
        /\ Moved([answered EXCEPT !.pc = pc]) /\ [answered EXCEPT !.pc = pc].pc = pc
        /\ [answered EXCEPT !.pc = pc].score = answered.score
  <2> SUFFICES ASSUME NEW pc \in {"look", "undo", "again"}
               PROVE  /\ Moved([answered EXCEPT !.pc = pc]) /\ [answered EXCEPT !.pc = pc].pc = pc
                      /\ [answered EXCEPT !.pc = pc].score = answered.score
    OBVIOUS
  <2>1. answered \in Places /\ answered.match = i /\ answered.event = board.event
    BY <1>8
  <2>2. [answered EXCEPT !.pc = pc] \in Places
    BY <2>1 DEF Places, InAMatch
  <2>3. /\ [answered EXCEPT !.pc = pc].match = i /\ [answered EXCEPT !.pc = pc].event = board.event
        /\ [answered EXCEPT !.pc = pc].pc = pc
        /\ [answered EXCEPT !.pc = pc].score = answered.score
    BY <2>1 DEF Places
  <2>4. QED
    BY <2>2, <2>3 DEF InAMatch
<1>10. CASE refused
  <2>1. board' = [board EXCEPT !.pc = "look"]
    BY <1>3, <1>10 DEF Send, BoardMatch
  <2>2. Moved(board') /\ board'.pc = "look"
    BY <1>4, <2>1, BoardMoves DEF InAMatch, BoardInv
  <2>3. RallyInv'
    BY <1>1, <2>2, CallCounts DEF Sending
  <2>4. touched' \in BOOLEAN
    BY DEF Send
  <2>5. BoardType'
    BY <1>1, <1>2, <1>6, <2>2, <2>4, PlacesGrow DEF BoardType
  <2>6. QED
    BY <2>2, <2>3, <2>5 DEF BoardInv, QuietInv, ResendIsQuiet
<1>11. CASE ~refused /\ board.pc = "send"
  <2>1. board' \in Onwards(answered)
    BY <1>3, <1>11 DEF Send, BoardMatch, answered
  <2>2. \/ board' = [answered EXCEPT !.pc = "look"]
        \/ board' = [answered EXCEPT !.pc = "undo"]
        \/ board' = [answered EXCEPT !.pc = "again"]
    BY <2>1 DEF Onwards
  <2>3. Moved(board') /\ board'.score = ScoreOf(matches'[i])
        /\ board'.pc \in {"look", "undo", "again"}
    BY <1>8, <1>9, <2>2
  <2>4. RallyInv' /\ board.event <= matches'[i].seen[PiezoSource]
    BY <1>1, <1>11, <2>3, CallCounts
  <2>5. touched' \in BOOLEAN
    BY DEF Send
  <2>6. BoardType'
    BY <1>1, <1>2, <1>6, <2>3, <2>5, PlacesGrow DEF BoardType
  <2>7. QED
    BY <2>3, <2>4, <2>6 DEF BoardInv, QuietInv, ResendIsQuiet
<1>12. CASE ~refused /\ board.pc = "again"
  <2>1. board.event <= matches[i].seen[PiezoSource] /\ (touched \/ board.score = ScoreOf(matches[i]))
    BY <1>12 DEF BoardInv, QuietInv
  <2>2. IF ScoreOf(matches'[i]) # board.score
        THEN board' = [board EXCEPT !.pc = "countedTwice"] ELSE board' \in Onwards(board)
    BY <1>3, <1>12 DEF Send, BoardMatch
  <2>3. Moved(board') /\ (board'.pc = "countedTwice" => ScoreOf(matches'[i]) # board.score)
        /\ board'.pc \in {"look", "undo", "countedTwice"}
    <3>1. ASSUME NEW pc \in {"look", "undo", "countedTwice"}, board' = [board EXCEPT !.pc = pc]
          PROVE  Moved(board') /\ board'.pc = pc
      BY <1>4, <3>1, BoardMoves DEF InAMatch, BoardInv
    <3>2. ScoreOf(matches'[i]) = board.score =>
            board' = [board EXCEPT !.pc = "look"] \/ board' = [board EXCEPT !.pc = "undo"]
      BY <1>12, <2>2 DEF Onwards
    <3>3. QED
      BY <2>2, <3>1, <3>2
  <2>4. RallyInv' /\ matches' = matches
    BY <1>1, <2>1, <2>3, CallCounts
  <2>5. touched' = (touched /\ board'.pc = "countedTwice")
    BY DEF Send
  <2>6. BoardType'
    BY <1>1, <1>2, <1>6, <2>3, <2>5, PlacesGrow DEF BoardType
  <2>7. board'.pc = "countedTwice" => touched'
    BY <2>1, <2>3, <2>4, <2>5 DEF BoardInv, BoardType
  <2>8. QED
    BY <2>3, <2>4, <2>6, <2>7 DEF BoardInv, QuietInv, ResendIsQuiet
<1>13. QED
  BY <1>1, <1>10, <1>11, <1>12 DEF Sending

LEMMA BoardUnanswered ==
  ASSUME MatchesInv, BoardInv, Unanswered
  PROVE  BoardInv'
<1>1. Sending /\ Ingest(board.match, BoardEvent) /\ UNCHANGED <<board, boardID, touched>>
  BY DEF Unanswered, Sending, BoardMatch
<1>2. Matches' = Matches /\ RallyInv'
      /\ (board.event <= matches[board.match].seen[PiezoSource] => matches' = matches)
  BY <1>1, CallCounts
<1>3. BoardType'
  BY <1>1, <1>2, BoardTypeKept DEF BoardInv, BoardType
<1>4. QuietInv'
  BY <1>1, <1>2 DEF BoardInv, QuietInv, ResendIsQuiet
<1>5. QED
  BY <1>2, <1>3, <1>4 DEF BoardInv

LEMMA BoardSteps ==
  ASSUME MatchesInv, BoardInv, MatchesInv', Len(matches) <= Len(matches'), BoardNext
  PROVE  BoardInv'
<1>1. CASE UNCHANGED <<matches, board, boardID, touched>>
  <2>1. Matches' = Matches /\ Sending' = Sending /\ UNCHANGED BoardEvent
    BY <1>1 DEF Matches, Sending, BoardEvent
  <2>2. BoardType'
    BY <1>1, <2>1, BoardTypeKept DEF BoardInv, BoardType
  <2>3. RallyInv'
    <3>1. \A i : PiezoIds(matches[i])' = PiezoIds(matches[i])
      BY <1>1 DEF PiezoIds
    <3>2. QED
      BY <1>1, <2>1, <3>1 DEF BoardInv, RallyInv
  <2>4. QuietInv'
    BY <1>1 DEF BoardInv, QuietInv, ResendIsQuiet
  <2>5. QED
    BY <2>2, <2>3, <2>4 DEF BoardInv
<1>2. CASE \E form \in {"pause", "resume", "knobs"} : ReadControl(form)
  BY <1>1, <1>2 DEF ReadControl
<1>3. CASE \E e \in edits : SetControl(e)
  BY <1>1, <1>3 DEF SetControl
<1>4. QED
  BY <1>2, <1>3, BoardIdles, BoardCounts, BoardSends, BoardUnanswered DEF BoardNext

-----------------------------------------------------------------------------
(* The screens: since when a match is over.                                *)

PageShows  == [match : Matches \cup {0}, shows : {"nothing", "sides", "saver"}, loads : BOOLEAN]
ScreenLeft == [open : SUBSET Pages, asks : Int, claims : Int, ticks : Int, sides : BOOLEAN,
               saver : BOOLEAN]

ScreensType ==
  /\ page \in [Pages -> PageShows]
  /\ now \in Nat /\ screenLeft \in ScreenLeft
  /\ over \in [Ids -> {Never} \cup 0..now] /\ overFrom \in [Ids -> {Never} \cup 0..now]

(* With the side select on, the screens nobody touches show no demo.       *)
RealOnly ==
  Sides => \A p \in Pages : PageKind[p] # "score" /\ page[p].match # 0
                              => ~matches[page[p].match].demo

(* A real match that runs although a demo was started after it has been    *)
(* reopened.                                                               *)
DemosComeAlone ==
  \A i, j \in Matches :
    i < j /\ matches[j].demo /\ ~matches[i].demo /\ Running(matches[i]) => i \in reopened

OverFromInv == \A i \in Ids : overFrom[i] # Never => i \in Matches /\ ~Running(matches[i])

(* The hold of a match starts no sooner than its end, unless an undo has   *)
(* reopened it.                                                            *)
HoldInv ==
  \A i \in Ids : over[i] # Never =>
    i \in Matches /\ (i \in reopened \/ (overFrom[i] # Never /\ overFrom[i] <= over[i]))

ScreensInv == ScreensType /\ RealOnly /\ DemosComeAlone /\ OverFromInv /\ HoldInv

LEMMA MatchesAreIds ==
  ASSUME MatchesInv
  PROVE  Matches \subseteq Ids /\ 0 \notin Matches
BY ZaehlwerkAssumption DEF MatchesInv, Matches, Ids

(* What every step sees of the table.                                      *)
LEMMA TableWatched ==
  ASSUME MatchesInv, ScreensInv, NEW I, NEW E, Progress(I, E), WatchTheTable
  PROVE  /\ overFrom' \in [Ids -> {Never} \cup 0..now] /\ OverFromInv' /\ DemosComeAlone'
         /\ reopened \subseteq reopened'
         /\ \A i \in Matches : \/ i \in reopened'
                               \/ overFrom[i] = Never \/ overFrom'[i] = overFrom[i]
         /\ \A i \in Matches : ~Running(matches'[i]) => overFrom'[i] # Never
<1>1. Len(matches) \in Nat /\ Len(matches') \in Nat /\ now \in Nat /\ Matches \subseteq Matches'
      /\ Matches \subseteq Ids
  BY MatchesAreIds DEF Progress, MatchesInv, Matches, ScreensInv, ScreensType
<1>2. overFrom \in [Ids -> {Never} \cup 0..now] /\ Ids \subseteq Nat /\ Never \notin 0..now
  BY <1>1 DEF ScreensInv, ScreensType, Ids, Never
<1>3. \A i \in Ids : overFrom'[i] = IF i > Len(matches) \/ RunsIn(matches', i) THEN Never
                                    ELSE IF overFrom[i] = Never THEN now ELSE overFrom[i]
  BY DEF WatchTheTable
<1>4. overFrom' \in [Ids -> {Never} \cup 0..now]
  <2> DEFINE F(i) == IF i > Len(matches) \/ RunsIn(matches', i) THEN Never
                     ELSE IF overFrom[i] = Never THEN now ELSE overFrom[i]
  <2>1. \A i \in Ids : F(i) \in {Never} \cup 0..now
    BY <1>1, <1>2
  <2>2. overFrom' = [i \in Ids |-> F(i)]
    BY DEF WatchTheTable
  <2> HIDE DEF F
  <2>3. QED
    BY <2>1, <2>2
<1>5. \A i \in Matches : ~Running(matches[i]) /\ Running(matches'[i]) => i \in reopened'
  BY DEF WatchTheTable
<1>6. reopened \subseteq reopened'
  BY DEF WatchTheTable
<1>7. \A i \in Ids : i \in Matches <=> i <= Len(matches)
  BY <1>1 DEF Matches, Ids
<1>8. OverFromInv'
  <2> SUFFICES ASSUME NEW i \in Ids, overFrom'[i] # Never PROVE i \in Matches' /\ ~Running(matches'[i])
    BY DEF OverFromInv, Ids
  <2>1. ~(i > Len(matches)) /\ ~RunsIn(matches', i)
    BY <1>3
  <2>2. i \in Matches'
    BY <1>1, <1>2, <1>7, <2>1
  <2>3. QED
    BY <2>1, <2>2 DEF RunsIn, Matches
<1>9. DemosComeAlone'
  <2> SUFFICES ASSUME NEW i \in Matches', NEW j \in Matches', i < j, matches'[j].demo, ~matches'[i].demo,
                      Running(matches'[i])
               PROVE  i \in reopened'
    BY DEF DemosComeAlone
  <2>1. i \in Matches
    BY <1>1 DEF Progress, Matches
  <2>2. matches'[i].demo = matches[i].demo
    BY <2>1 DEF Progress, Served, SameSetup
  <2>3. CASE ~Running(matches[i])
    BY <1>5, <2>1, <2>3
  <2>4. CASE Running(matches[i]) /\ j \in Matches
    <3>1. matches'[j].demo = matches[j].demo
      BY <2>4 DEF Progress, Served, SameSetup
    <3>2. QED
      BY <1>6, <2>1, <2>2, <2>4, <3>1 DEF ScreensInv, DemosComeAlone
  <2>5. CASE Running(matches[i]) /\ j \notin Matches
    <3>1. Started(matches'[j])
      BY <1>1, <2>5 DEF Progress, Matches
    <3>2. QED
      BY <2>1, <2>2, <2>5, <3>1 DEF Started
  <2>6. QED
    BY <2>3, <2>4, <2>5
<1>10. \A i \in Matches : \/ i \in reopened'
                          \/ overFrom[i] = Never \/ overFrom'[i] = overFrom[i]
  <2> SUFFICES ASSUME NEW i \in Matches, overFrom[i] # Never, i \notin reopened'
               PROVE  overFrom'[i] = overFrom[i]
    OBVIOUS
  <2>1. i \in Ids /\ ~Running(matches[i])
    BY <1>1 DEF ScreensInv, OverFromInv
  <2>2. ~RunsIn(matches', i)
    BY <1>5, <2>1 DEF RunsIn
  <2>3. ~(i > Len(matches))
    BY <1>1, <1>2, <1>7, <2>1
  <2>4. QED
    BY <1>3, <2>1, <2>2, <2>3
<1>11. \A i \in Matches : ~Running(matches'[i]) => overFrom'[i] # Never
  <2> SUFFICES ASSUME NEW i \in Matches, ~Running(matches'[i]) PROVE overFrom'[i] # Never
    OBVIOUS
  <2>1. i \in Ids /\ ~RunsIn(matches', i) /\ ~(i > Len(matches))
    BY <1>1, <1>2, <1>7 DEF RunsIn
  <2>2. now # Never
    BY <1>1 DEF Never
  <2>3. QED
    BY <1>3, <2>1, <2>2
<1>12. QED
  BY <1>4, <1>6, <1>8, <1>9, <1>10, <1>11

(* A step that starts no hold.                                             *)
LEMMA HoldKept ==
  ASSUME MatchesInv, ScreensInv, NEW I, NEW E, Progress(I, E), WatchTheTable, over' = over
  PROVE  HoldInv'
<1> SUFFICES ASSUME NEW i \in Ids, over[i] # Never
             PROVE  i \in Matches' /\ (i \in reopened' \/ (overFrom'[i] # Never /\ overFrom'[i] <= over[i]))
  BY DEF HoldInv, Ids
<1>1. i \in Matches /\ (i \in reopened \/ (overFrom[i] # Never /\ overFrom[i] <= over[i]))
  BY DEF ScreensInv, HoldInv
<1>2. Matches \subseteq Matches'
  BY DEF Progress, MatchesInv, Matches
<1>3. QED
  BY <1>1, <1>2, TableWatched

(* What the others do leaves the screens.                                  *)
LEMMA ScreensKept ==
  ASSUME MatchesInv, ScreensInv, NEW I, NEW E, Progress(I, E), ScreensStay
  PROVE  ScreensInv'
<1>1. UNCHANGED <<page, now, over, screenLeft>> /\ WatchTheTable
  BY DEF ScreensStay
<1>2. Matches \subseteq Matches'
  BY DEF Progress, MatchesInv, Matches
<1>3. PageShows \subseteq PageShows'
  BY <1>2 DEF PageShows
<1>4. page \in [Pages -> PageShows]
  BY DEF ScreensInv, ScreensType
<1>5. ScreensType'
  BY <1>1, <1>3, <1>4, TableWatched DEF ScreensInv, ScreensType, Ids, ScreenLeft
<1>6. RealOnly'
  <2>1. \A p \in Pages : page[p].match \in Matches \cup {0}
    BY <1>4 DEF PageShows
  <2>2. \A i \in Matches : matches'[i].demo = matches[i].demo
    BY DEF Progress, Served, SameSetup
  <2>3. QED
    BY <1>1, <2>1, <2>2 DEF ScreensInv, RealOnly, Sides
<1>7. QED
  BY <1>1, <1>5, <1>6, TableWatched, HoldKept DEF ScreensInv

(* A step of the screens: no page nobody touches turns to a demo.          *)
LEMMA ScreensMove ==
  ASSUME MatchesInv, ScreensInv, NEW I, NEW E, Progress(I, E), WatchTheTable,
         page' \in [Pages -> PageShows'], now' \in Nat, now <= now', screenLeft' \in ScreenLeft,
         Sides' = Sides,
         \A p \in Pages : PageKind[p] # "score" =>
           \/ page'[p].match = page[p].match
           \/ Sides /\ page'[p].match # 0 => ~matches'[page'[p].match].demo,
         over' \in [Ids -> {Never} \cup 0..now'], HoldInv'
  PROVE  ScreensInv'
<1>1. overFrom' \in [Ids -> {Never} \cup 0..now]
  BY TableWatched
<1>2. 0..now \subseteq 0..now' /\ now \in Nat
  BY DEF ScreensInv, ScreensType
<1>3. overFrom' \in [Ids -> {Never} \cup 0..now']
  BY <1>1, <1>2
<1>4. ScreensType'
  BY <1>3 DEF ScreensType, Ids, ScreenLeft
<1>5. RealOnly'
  <2> SUFFICES ASSUME Sides, NEW p \in Pages, PageKind[p] # "score", page'[p].match # 0
               PROVE  ~matches'[page'[p].match].demo
    BY DEF RealOnly
  <2>1. CASE page'[p].match = page[p].match
    <3>1. page[p] \in PageShows
      BY DEF ScreensInv, ScreensType
    <3>2. page[p].match \in Matches
      BY <2>1, <3>1 DEF PageShows
    <3>3. matches'[page[p].match].demo = matches[page[p].match].demo
      BY <3>2 DEF Progress, Served, SameSetup
    <3>4. QED
      BY <2>1, <3>3 DEF ScreensInv, RealOnly
  <2>2. QED
    BY <2>1
<1>6. QED
  BY <1>4, <1>5, TableWatched DEF ScreensInv

LEMMA PageTurns ==
  ASSUME ScreensInv, Matches \subseteq Matches', NEW p \in Pages, NEW x \in PageShows',
         page' = [page EXCEPT ![p] = x]
  PROVE  /\ page' \in [Pages -> PageShows'] /\ page'[p] = x
         /\ \A q \in Pages : q # p => page'[q] = page[q]
<1>1. page \in [Pages -> PageShows]
  BY DEF ScreensInv, ScreensType
<1>2. PageShows \subseteq PageShows'
  BY DEF PageShows
<1>3. QED
  BY <1>1, <1>2

LEMMA AskedFits ==
  ASSUME ScreensInv, Asked
  PROVE  screenLeft' \in ScreenLeft /\ Sides' = Sides
<1>1. screenLeft \in ScreenLeft
  BY DEF ScreensInv, ScreensType
<1>2. screenLeft.asks \in Int
  BY <1>1 DEF ScreenLeft
<1>3. screenLeft' = [screenLeft EXCEPT !.asks = screenLeft.asks - 1]
  BY DEF Asked
<1>4. QED
  BY <1>1, <1>2, <1>3 DEF ScreenLeft, Sides

(* With the side select on, what a screen nobody touches follows is real.  *)
LEMMA FollowedIsReal ==
  ASSUME MatchesInv, NEW p \in Pages
  PROVE  /\ Followed(p) \in Matches \cup {0}
         /\ PageKind[p] # "score" /\ Sides /\ Followed(p) # 0 => ~matches[Followed(p)].demo
         /\ PageKind[p] # "score" /\ Followed(p) = 0 => Current = 0 \/ matches[Current].demo
BY CurrentIsNewest DEF Followed

(* What a screen left for the side select is over, unless it was reopened. *)
LEMMA LeftIsOver ==
  ASSUME MatchesInv, ScreensInv, NEW p \in Pages, PageKind[p] # "score", Sides,
         Followed(p) = 0, page[p].match # 0
  PROVE  /\ page[p].match \in Matches
         /\ page[p].match \in reopened \/ ~Running(matches[page[p].match])
<1> DEFINE i == page[p].match
<1>1. page[p] \in PageShows
  BY DEF ScreensInv, ScreensType
<1>2. i \in Matches
  BY <1>1 DEF PageShows
<1>3. ~matches[i].demo
  BY DEF ScreensInv, RealOnly
<1>4. ASSUME Running(matches[i])
      PROVE  i \in reopened
  <2>1. Current >= i /\ Current \in Matches \cup {0}
    BY <1>2, <1>4, CurrentIsNewest
  <2>2. i \in Nat /\ i > 0 /\ Current \in Nat
    BY <1>2, <2>1 DEF Matches, MatchesInv
  <2>3. Current # 0 /\ Current \in Matches
    BY <2>1, <2>2
  <2>4. matches[Current].demo
    BY <2>3, FollowedIsReal
  <2>5. i # Current
    BY <1>3, <2>4
  <2>6. i < Current
    BY <2>1, <2>2, <2>5
  <2>7. QED
    BY <1>2, <1>3, <1>4, <2>3, <2>4, <2>6 DEF ScreensInv, DemosComeAlone
<1>5. QED
  BY <1>2, <1>4

LEMMA HoldStarts ==
  ASSUME MatchesInv, ScreensInv, NEW I, NEW E, Progress(I, E), WatchTheTable, matches' = matches,
         NEW p \in Pages, PageKind[p] # "score", Sides, Followed(p) = 0, page[p].match # 0,
         over' = [over EXCEPT ![page[p].match] = OverSince(page[p].match)]
  PROVE  over' \in [Ids -> {Never} \cup 0..now] /\ HoldInv'
<1> DEFINE shown == page[p].match
<1>1. shown \in Matches /\ (shown \in reopened \/ ~Running(matches[shown]))
  BY LeftIsOver
<1>2. shown \in Ids /\ Matches \subseteq Ids /\ Matches' = Matches
  BY <1>1, MatchesAreIds DEF Matches
<1>3. over \in [Ids -> {Never} \cup 0..now] /\ now \in Nat /\ now # Never
  BY DEF ScreensInv, ScreensType, Never
<1>4. OverSince(shown) \in {Never} \cup 0..now
  BY <1>2, <1>3 DEF OverSince
<1>5. over' = [over EXCEPT ![shown] = OverSince(shown)]
  OBVIOUS
<1> HIDE DEF shown
<1>6. over' \in [Ids -> {Never} \cup 0..now]
  BY <1>3, <1>4, <1>5
<1>7. over'[shown] = OverSince(shown) /\ \A i \in Ids : i # shown => over'[i] = over[i]
  BY <1>2, <1>3, <1>5
<1>8. /\ reopened \subseteq reopened' /\ overFrom' \in [Ids -> {Never} \cup 0..now]
      /\ \A i \in Matches : \/ i \in reopened'
                            \/ overFrom[i] = Never \/ overFrom'[i] = overFrom[i]
      /\ \A i \in Matches : ~Running(matches'[i]) => overFrom'[i] # Never
  BY TableWatched
<1>9. ASSUME NEW i \in Ids, over'[i] # Never
      PROVE  i \in Matches' /\ (i \in reopened' \/ (overFrom'[i] # Never /\ overFrom'[i] <= over'[i]))
  <2>1. CASE over'[i] = over[i]
    <3>1. i \in Matches /\ (i \in reopened \/ (overFrom[i] # Never /\ overFrom[i] <= over[i]))
      BY <1>9, <2>1 DEF ScreensInv, HoldInv
    <3>2. QED
      BY <1>2, <1>8, <2>1, <3>1
  <2>2. CASE over'[i] # over[i]
    <3>1. i = shown
      BY <1>7, <1>9, <2>2
    <3>2. over'[i] = now
      BY <1>7, <2>2, <3>1 DEF OverSince
    <3>3. ~Running(matches[i]) => overFrom'[i] # Never /\ overFrom'[i] <= now
      BY <1>1, <1>2, <1>3, <1>8, <3>1
    <3>4. QED
      BY <1>1, <1>2, <1>8, <3>1, <3>2, <3>3
  <2>3. QED
    BY <2>1, <2>2
<1>10. HoldInv'
  BY <1>9 DEF HoldInv, Ids
<1>11. QED
  BY <1>6, <1>10

LEMMA ScreenRequests ==
  ASSUME MatchesInv, ScreensNext
  PROVE  Requests({}, {}) /\ Progress({}, {})
<1>1. matches' = matches \/ \E demo, wanted \in BOOLEAN : StartMatch(demo, wanted)
  <2>1. CASE \E p \in screenLeft.open : \/ LoadScore(p) \/ LoadWatch(p) \/ ScoreNext(p)
                                        \/ WatchNext(p) \/ WatchSides(p)
    BY <2>1 DEF LoadScore, LoadWatch, ScoreNext, WatchNext, WatchSides
  <2>2. CASE \E p \in screenLeft.open : \E wanted \in BOOLEAN : CreateOnPage(p, wanted)
    BY <2>2 DEF CreateOnPage
  <2>3. CASE Claim
    BY <2>3 DEF Claim
  <2>4. CASE Elsewhere
    BY <2>4 DEF Elsewhere
  <2>5. CASE ClockTicks
    BY <2>5 DEF ClockTicks
  <2>6. QED
    BY <2>1, <2>2, <2>3, <2>4, <2>5 DEF ScreensNext
<1>2. Requests({}, {})
  BY <1>1 DEF Requests
<1>3. QED
  BY <1>2, RequestsProgress

(* A step that loads no page.                                              *)
LEMMA TableSteps ==
  ASSUME MatchesInv, ScreensInv, Progress({}, {}), WatchTheTable, Claim \/ Elsewhere \/ ClockTicks
  PROVE  ScreensInv'
<1>1. Matches \subseteq Matches' /\ now \in Nat /\ screenLeft \in ScreenLeft
      /\ page \in [Pages -> PageShows] /\ over \in [Ids -> {Never} \cup 0..now]
  BY DEF Progress, MatchesInv, Matches, ScreensInv, ScreensType
<1>2. page' = page /\ over' = over /\ HoldInv'
  BY HoldKept DEF Claim, Elsewhere, ClockTicks
<1>3. PageShows \subseteq PageShows'
  BY <1>1 DEF PageShows
<1>4. now' \in Nat /\ now <= now'
  <2>1. now' = now \/ now' = now + 1
    BY DEF Claim, Elsewhere, ClockTicks
  <2>2. QED
    BY <1>1, <2>1
<1>5. 0..now \subseteq 0..now'
  BY <1>1, <1>4
<1>6. over' \in [Ids -> {Never} \cup 0..now']
  BY <1>1, <1>2, <1>5
<1>7. screenLeft' \in ScreenLeft /\ Sides' = Sides
  <2>1. CASE screenLeft' = screenLeft
    BY <1>1, <2>1 DEF Sides
  <2>2. CASE screenLeft' = [screenLeft EXCEPT !.claims = @ - 1]
    <3>1. screenLeft.claims \in Int
      BY <1>1 DEF ScreenLeft
    <3>2. QED
      BY <1>1, <2>2, <3>1 DEF ScreenLeft, Sides
  <2>3. QED
    BY <2>1, <2>2 DEF Claim, Elsewhere, ClockTicks
<1>8. QED
  BY <1>1, <1>2, <1>3, <1>4, <1>6, <1>7, ScreensMove

(* A step at one page.                                                     *)
LEMMA PageSteps ==
  ASSUME MatchesInv, ScreensInv, Progress({}, {}), WatchTheTable, NEW p \in Pages,
         \/ LoadScore(p) \/ LoadWatch(p) \/ ScoreNext(p) \/ WatchNext(p) \/ WatchSides(p)
         \/ \E wanted \in BOOLEAN : CreateOnPage(p, wanted)
  PROVE  ScreensInv'
<1>1. Matches \subseteq Matches' /\ now \in Nat /\ screenLeft \in ScreenLeft
      /\ page \in [Pages -> PageShows] /\ over \in [Ids -> {Never} \cup 0..now]
      /\ Len(matches) \in Nat /\ Len(matches') \in Nat
  BY DEF Progress, MatchesInv, Matches, ScreensInv, ScreensType
<1>2. page[p] \in PageShows /\ page[p] \in PageShows'
  BY <1>1 DEF PageShows
<1>3. now' = now
  BY DEF LoadScore, LoadWatch, ScoreNext, WatchNext, WatchSides, CreateOnPage
<1>4. screenLeft' \in ScreenLeft /\ Sides' = Sides
  <2>1. CASE screenLeft' = screenLeft
    BY <1>1, <2>1 DEF Sides
  <2>2. CASE screenLeft' = [screenLeft EXCEPT !.claims = @ - 1]
    <3>1. screenLeft.claims \in Int
      BY <1>1 DEF ScreenLeft
    <3>2. QED
      BY <1>1, <2>2, <3>1 DEF ScreenLeft, Sides
  <2>3. CASE Asked
    BY <2>3, AskedFits
  <2>4. QED
    BY <2>1, <2>2, <2>3
    DEF LoadScore, LoadWatch, ScoreNext, WatchNext, WatchSides, CreateOnPage
<1>5. over' \in [Ids -> {Never} \cup 0..now] /\ HoldInv'
  <2>1. CASE over' = over
    BY <1>1, <2>1, HoldKept
  <2>2. CASE over' # over
    <3>1. WatchNext(p)
      BY <2>2 DEF LoadScore, LoadWatch, ScoreNext, WatchSides, CreateOnPage
    <3>2. /\ Followed(p) = 0 /\ page[p].match # 0 /\ Sides /\ PageKind[p] # "score"
          /\ over' = [over EXCEPT ![page[p].match] = OverSince(page[p].match)]
          /\ matches' = matches
      BY <2>2, <3>1 DEF WatchNext
    <3>3. QED
      BY <3>2, HoldStarts
  <2>3. QED
    BY <2>1, <2>2
<1> DEFINE Turns(x) ==
      /\ x \in PageShows' /\ page' = [page EXCEPT ![p] = x]
      /\ PageKind[p] # "score" =>
           \/ x.match = page[p].match
           \/ Sides /\ x.match # 0 => ~matches'[x.match].demo
<1>6. ASSUME NEW x, Turns(x)
      PROVE  ScreensInv'
  <2>1. /\ page' \in [Pages -> PageShows'] /\ page'[p] = x
        /\ \A q \in Pages : q # p => page'[q] = page[q]
    BY <1>1, <1>6, PageTurns
  <2>2. \A q \in Pages : PageKind[q] # "score" =>
          \/ page'[q].match = page[q].match
          \/ Sides /\ page'[q].match # 0 => ~matches'[page'[q].match].demo
    BY <1>6, <2>1
  <2>3. QED
    BY <1>1, <1>3, <1>4, <1>5, <2>1, <2>2, ScreensMove
<1> HIDE DEF Turns
<1>7. ASSUME NEW i \in Matches \cup {0}, NEW what \in {"nothing", "sides", "saver"}
      PROVE  [match |-> i, shows |-> what, loads |-> FALSE] \in PageShows'
  BY <1>1 DEF PageShows
<1>8. CASE LoadScore(p)
  <2>1. Turns([match |-> Current, shows |-> "nothing", loads |-> FALSE])
    BY <1>7, <1>8, CurrentIsNewest DEF LoadScore, Shows, Turns
  <2>2. QED
    BY <1>6, <2>1
<1>9. CASE LoadWatch(p)
  <2>1. CASE Followed(p) = 0 /\ Sides
    <3>1. Turns([match |-> 0, shows |-> SidesNow(p), loads |-> FALSE])
      BY <1>7, <1>9, <2>1 DEF LoadWatch, Shows, SidesNow, Turns
    <3>2. QED
      BY <1>6, <3>1
  <2>2. CASE ~(Followed(p) = 0 /\ Sides)
    <3> DEFINE x == [match |-> Followed(p), shows |-> "nothing", loads |-> FALSE]
    <3>1. x \in PageShows' /\ x.match = Followed(p)
      BY <1>7, FollowedIsReal
    <3>2. page' = [page EXCEPT ![p] = x] /\ matches' = matches /\ PageKind[p] # "score"
      BY <1>9, <2>2 DEF LoadWatch, Shows
    <3>3. Turns(x)
      BY <3>1, <3>2, FollowedIsReal DEF Turns
    <3>4. QED
      BY <1>6, <3>3
  <2>3. QED
    BY <2>1, <2>2
<1>10. ASSUME NEW b \in BOOLEAN, page' = [page EXCEPT ![p].loads = b]
       PROVE  ScreensInv'
  <2>1. [page[p] EXCEPT !.loads = b] \in PageShows' /\ [page[p] EXCEPT !.loads = b].match = page[p].match
    BY <1>2 DEF PageShows
  <2>2. Turns([page[p] EXCEPT !.loads = b])
    BY <1>10, <2>1 DEF Turns
  <2>3. QED
    BY <1>6, <2>2
<1>11. CASE ScoreNext(p) \/ WatchNext(p)
  BY <1>10, <1>11 DEF ScoreNext, WatchNext
<1>12. CASE WatchSides(p)
  <2>1. CASE page' = [page EXCEPT ![p].loads = TRUE]
    BY <1>10, <2>1
  <2>2. CASE page' = [page EXCEPT ![p].shows = SidesNow(p)]
    <3> DEFINE x == [page[p] EXCEPT !.shows = SidesNow(p)]
    <3>1. SidesNow(p) \in {"nothing", "sides", "saver"}
      BY DEF SidesNow
    <3>2. x \in PageShows' /\ x.match = page[p].match
      BY <1>2, <3>1 DEF PageShows
    <3>3. Turns(x)
      BY <2>2, <3>2 DEF Turns
    <3>4. QED
      BY <1>6, <3>3
  <2>3. QED
    BY <1>12, <2>1, <2>2 DEF WatchSides
<1>13. CASE \E wanted \in BOOLEAN : CreateOnPage(p, wanted)
  <2> DEFINE x == [page[p] EXCEPT !.match = Len(matches')]
  <2>1. Len(matches') \in Matches' \cup {0}
    BY <1>1 DEF Matches
  <2>2. x \in PageShows'
    BY <1>2, <2>1 DEF PageShows
  <2>3. Turns(x)
    BY <1>13, <2>2 DEF CreateOnPage, Turns
  <2>4. QED
    BY <1>6, <2>3
<1>14. QED
  BY <1>8, <1>9, <1>11, <1>12, <1>13

LEMMA ScreenSteps ==
  ASSUME MatchesInv, ScreensInv, ScreensNext
  PROVE  ScreensInv'
<1>1. Progress({}, {}) /\ WatchTheTable /\ screenLeft.open \subseteq Pages
  BY ScreenRequests DEF ScreensNext, ScreensInv, ScreensType, ScreenLeft
<1>2. CASE Claim \/ Elsewhere \/ ClockTicks
  BY <1>1, <1>2, TableSteps
<1>3. ASSUME NEW p \in screenLeft.open,
             \/ LoadScore(p) \/ LoadWatch(p) \/ ScoreNext(p) \/ WatchNext(p) \/ WatchSides(p)
             \/ \E wanted \in BOOLEAN : CreateOnPage(p, wanted)
      PROVE  ScreensInv'
  BY <1>1, <1>3, PageSteps
<1>4. QED
  BY <1>2, <1>3 DEF ScreensNext
-----------------------------------------------------------------------------
(* The chain.                                                              *)

ChainInv ==
  MatchesInv /\ RigType /\ UseInv /\ LongsInv /\ FobInv /\ BoardInv /\ ScreensInv

LEMMA TableStarts ==
  ASSUME ZaehlwerkInit
  PROVE  /\ MatchesInv
         /\ \A i \in Matches : matches[i].counted = <<>>
         /\ \A i, j \in Matches : ~(i < j)
<1>1. \A demo \in BOOLEAN :
        LET x == Fresh(demo, FALSE)
        IN  x \in TableMatch /\ x.counted = <<>> /\ x.back = 0 /\ x.log = <<>>
  BY DEF Fresh, TableMatch
<1>2. matches = <<>> \/ \E demo \in BOOLEAN : matches = <<Fresh(demo, FALSE)>>
  BY DEF ZaehlwerkInit
<1>3. CASE matches = <<>>
  BY <1>3, ZaehlwerkAssumption DEF MatchesInv, Matches
<1>4. ASSUME NEW demo \in BOOLEAN, matches = <<Fresh(demo, FALSE)>>
      PROVE  /\ MatchesInv
             /\ \A i \in Matches : matches[i].counted = <<>>
             /\ \A i, j \in Matches : ~(i < j)
  <2> DEFINE x == Fresh(demo, FALSE)
  <2>1. x \in TableMatch /\ x.counted = <<>> /\ x.back = 0 /\ x.log = <<>> /\ matches = <<x>>
    BY <1>1, <1>4
  <2> HIDE DEF x
  <2>2. matches \in Seq(TableMatch) /\ Len(matches) = 1 /\ Matches = {1} /\ matches[1] = x
    BY <2>1 DEF Matches
  <2>3. Keeps(x)
    BY <2>1 DEF Keeps, CountedOnceIn
  <2>4. QED
    BY <2>1, <2>2, <2>3, ZaehlwerkAssumption DEF MatchesInv
<1>5. QED
  BY <1>2, <1>3, <1>4

LEMMA RigStarts ==
  ASSUME RigInit
  PROVE  RigType /\ UseInv /\ LongsInv /\ FobInv
<1>1. rigLeft \in RigLeft
  BY ButtonsAssumption DEF RigInit, RigLeft
<1>2. settings.dedup \in BOOLEAN
  BY ButtonsAssumption DEF RigInit
<1>3. hub = Free /\ Free.pc = "free"
  BY DEF RigInit, Free
<1>4. hub \in HubJobs
  BY <1>3 DEF HubJobs
<1>5. waits = <<>> /\ desk = <<>> /\ Len(waits) = 0 /\ Len(desk) = 0
  BY DEF RigInit
<1>6. RigType
  <2>1. /\ settings \in SettingsIn /\ deduped = settings.dedup /\ twice = FALSE
        /\ eventID = [h \in Halves |-> 0] /\ hubSeen = [h \in Halves |-> 0]
        /\ air = {} /\ pending = 0 /\ lastMatch = 0 /\ fob = 0 /\ hubEvent = 0 /\ did = {}
    BY DEF RigInit
  <2>2. waits \in Seq(Long) /\ desk \in Seq(CheckedIn) /\ pending \in 0..Len(waits)
    BY <1>5, <2>1
  <2>3. QED
    BY <1>1, <1>2, <1>4, <2>1, <2>2 DEF RigType, AirType
<1>7. UseInv /\ LongsInv
  BY <1>5 DEF RigInit, UseInv, LongsInv, LongsAreAnswered
<1>8. FobInv
  BY <1>3, <1>5 DEF RigInit, FobInv
<1>9. QED
  BY <1>6, <1>7, <1>8

LEMMA BoardStarts ==
  ASSUME MatchesInv, BoardInit, \A i \in Matches : matches[i].counted = <<>>
  PROVE  BoardInv
<1>1. PICK pc \in {"create", "join"} : board = At(pc, 0)
  BY DEF BoardInit
<1>2. board \in Places /\ board.pc = pc /\ board.event = 0
  BY <1>1, AtIsAPlace
<1>3. ~Sending /\ board.pc \notin InAMatch /\ board.pc # "countedTwice" /\ board.pc # "again"
  BY <1>2 DEF Sending, InAMatch
<1>4. BoardType
  <2>1. boardID = 0 /\ touched = FALSE
    BY DEF BoardInit
  <2>2. touched \in BOOLEAN /\ boardID \in Nat
    BY <2>1
  <2>3. board.event <= boardID
    BY <1>2, <2>1
  <2>4. QED
    BY <1>2, <1>3, <2>2, <2>3, Zenon DEF BoardType
<1>5. \A i \in Matches : PiezoIds(matches[i]) = {}
  BY DEF PiezoIds
<1>6. RallyInv
  BY <1>5 DEF RallyInv
<1>7. QuietInv
  BY <1>3 DEF QuietInv, ResendIsQuiet
<1>8. QED
  BY <1>4, <1>6, <1>7 DEF BoardInv

LEMMA ScreensStart ==
  ASSUME \A i, j \in Matches : ~(i < j), ScreensInit
  PROVE  ScreensInv
<1>1. page \in [Pages -> PageShows] /\ \A p \in Pages : page[p].match = 0
  BY DEF ScreensInit, PageShows
<1>2. screenLeft \in ScreenLeft
  BY ScreensAssumption DEF ScreensInit, ScreenLeft
<1>3. ScreensType
  BY <1>1, <1>2 DEF ScreensInit, ScreensType
<1>4. RealOnly /\ DemosComeAlone
  BY <1>1 DEF RealOnly, DemosComeAlone
<1>5. OverFromInv /\ HoldInv
  BY DEF ScreensInit, OverFromInv, HoldInv
<1>6. QED
  BY <1>3, <1>4, <1>5 DEF ScreensInv

(* A step of the buttons' or of a page's: whatever the rig then does, the  *)
(* board and the screens follow.                                           *)
LEMMA OthersFollow ==
  ASSUME ChainInv, NEW I, I \subseteq Matches, NEW E, E \subseteq Event,
         \A e \in E : e.source # PiezoSource, Requests(I, E), BoardStays, ScreensStay
  PROVE  MatchesInv' /\ Len(matches) <= Len(matches') /\ BoardInv' /\ ScreensInv'
<1>1. Progress(I, E)
  BY RequestsProgress DEF ChainInv
<1>2. MatchesInv' /\ Len(matches) <= Len(matches')
  BY <1>1 DEF Progress, MatchesInv, ChainInv
<1>3. QED
  BY <1>1, <1>2, BoardInvStays, ScreensKept DEF ChainInv

LEMMA RigKept ==
  ASSUME ChainInv, UNCHANGED rigVars, MatchesInv', Len(matches) <= Len(matches')
  PROVE  RigType' /\ UseInv' /\ LongsInv' /\ FobInv'
<1>1. Matches \subseteq Matches' /\ HubJobs \subseteq HubJobs'
  BY JobsGrow DEF ChainInv
<1>2. UNCHANGED <<did, twice, waits, hubSeen, deduped, fob, hubEvent, desk, rigLeft, hub>>
  BY DEF rigVars
<1>3. QED
  BY <1>1, <1>2, RigTypeKept, UseInvKept, FobInvKept DEF ChainInv

(* Each step keeps the invariant.                                          *)
LEMMA ChainSteps ==
  ASSUME ChainInv, [ChainNext]_chainVars
  PROVE  ChainInv'
<1>1. CASE Rig
  <2>1. Requests(Matches, ButtonEvents)
    BY <1>1, RigRequests DEF Rig, ChainInv
  <2>2. ButtonEvents \subseteq Event /\ \A e \in ButtonEvents : e.source # PiezoSource
    BY ChainAssumption, ButtonsAssumption DEF ButtonEvents
  <2>3. MatchesInv' /\ Len(matches) <= Len(matches') /\ BoardInv' /\ ScreensInv'
    BY <1>1, <2>1, <2>2, OthersFollow DEF Rig
  <2>4. RigType'
    BY <1>1, <2>3, RigTypeStays DEF Rig, ChainInv
  <2>5. UseInv' /\ LongsInv' /\ FobInv'
    BY <1>1, RigUses, RigFobs DEF Rig, ChainInv
  <2>6. QED
    BY <2>3, <2>4, <2>5 DEF ChainInv
<1>2. CASE PiezoBoard
  <2>1. Requests(BoardAsks, {BoardEvent}) /\ BoardAsks \subseteq Matches
    BY <1>2, BoardRequests DEF PiezoBoard, ChainInv, BoardInv
  <2>2. {BoardEvent} \subseteq Event
    BY BoardEventIsOne DEF ChainInv, BoardInv
  <2>3. Progress(BoardAsks, {BoardEvent})
    BY <2>1, <2>2, RequestsProgress DEF ChainInv
  <2>4. MatchesInv' /\ Len(matches) <= Len(matches')
    BY <2>3 DEF Progress, MatchesInv, ChainInv
  <2>5. BoardInv'
    BY <1>2, <2>4, BoardSteps DEF PiezoBoard, ChainInv
  <2>6. ScreensInv'
    BY <1>2, <2>3, ScreensKept DEF PiezoBoard, ChainInv
  <2>7. RigType' /\ UseInv' /\ LongsInv' /\ FobInv'
    BY <1>2, <2>4, RigKept DEF PiezoBoard
  <2>8. QED
    BY <2>4, <2>5, <2>6, <2>7 DEF ChainInv
<1>3. CASE Watching
  <2>1. Progress({}, {})
    BY <1>3, ScreenRequests DEF Watching, ChainInv
  <2>2. MatchesInv' /\ Len(matches) <= Len(matches')
    BY <2>1 DEF Progress, MatchesInv, ChainInv
  <2>3. BoardInv'
    BY <1>3, <2>1, BoardInvStays DEF Watching, ChainInv
  <2>4. ScreensInv'
    BY <1>3, ScreenSteps DEF Watching, ChainInv
  <2>5. RigType' /\ UseInv' /\ LongsInv' /\ FobInv'
    BY <1>3, <2>2, RigKept DEF Watching
  <2>6. QED
    BY <2>2, <2>3, <2>4, <2>5 DEF ChainInv
<1>4. CASE PageRequest
  <2> DEFINE E == {e \in Event : e.source = Page}
  <2>1. Requests(Matches, E)
    <3>1. ASSUME NEW i \in Matches, NEW p \in Players, PagePoint(i, p)
          PROVE  Requests(Matches, E)
      <4> DEFINE e == [source |-> Page, id |-> matches[i].seen[Page] + 1,
                       kind |-> "point", player |-> p]
      <4>1. matches[i].seen \in [Senders \cup {Page} -> Nat]
        BY DEF ChainInv, MatchesInv, Keeps, TableMatch
      <4>2. matches[i].seen[Page] + 1 \in Nat
        BY <4>1
      <4>3. e \in Event /\ e.source = Page
        BY <4>2 DEF Event
      <4>4. Ingest(i, e)
        BY <3>1 DEF PagePoint
      <4> HIDE DEF e
      <4>5. QED
        BY <4>3, <4>4 DEF Requests
    <3> HIDE DEF E
    <3>2. QED
      BY <1>4, <3>1 DEF PageRequest, Requests
  <2>2. E \subseteq Event /\ \A e \in E : e.source # PiezoSource
    BY ZaehlwerkAssumption, BoardAssumption
  <2> HIDE DEF E
  <2>3. MatchesInv' /\ Len(matches) <= Len(matches') /\ BoardInv' /\ ScreensInv'
    BY <1>4, <2>1, <2>2, OthersFollow DEF PageRequest
  <2>4. RigType' /\ UseInv' /\ LongsInv' /\ FobInv'
    BY <1>4, <2>3, RigKept DEF PageRequest
  <2>5. QED
    BY <2>3, <2>4 DEF ChainInv
<1>5. CASE UNCHANGED chainVars
  <2>1. MatchesInv' /\ Len(matches) <= Len(matches') /\ UNCHANGED rigVars
    <3>1. UNCHANGED <<matches, rigVars>>
      BY <1>5 DEF chainVars
    <3>2. Progress({}, {})
      BY <3>1, RequestsProgress DEF Requests, ChainInv
    <3>3. QED
      BY <3>1, <3>2 DEF Progress, MatchesInv, ChainInv
  <2>2. RigType' /\ UseInv' /\ LongsInv' /\ FobInv'
    BY <2>1, RigKept
  <2>3. BoardInv'
    <3>1. UNCHANGED <<matches, board, boardID, touched>>
      BY <1>5 DEF chainVars, boardVars
    <3>2. \A i : PiezoIds(matches[i])' = PiezoIds(matches[i])
      BY <3>1 DEF PiezoIds
    <3>3. UNCHANGED <<Matches, Sending>>
      BY <3>1 DEF Matches, Sending
    <3>4. BoardType'
      BY <2>1, <3>1, <3>3, BoardTypeKept DEF ChainInv, BoardInv, BoardType
    <3>5. QED
      BY <3>1, <3>2, <3>3, <3>4 DEF ChainInv, BoardInv, RallyInv, QuietInv, ResendIsQuiet
  <2>4. ScreensInv'
    <3>1. UNCHANGED <<matches, page, now, over, overFrom, reopened, screenLeft>>
      BY <1>5 DEF chainVars, screenVars
    <3>2. UNCHANGED <<Matches, PageShows>>
      BY <3>1 DEF Matches, PageShows
    <3>3. ScreensType'
      BY <3>1, <3>2 DEF ChainInv, ScreensInv, ScreensType, Ids, ScreenLeft
    <3>4. RealOnly' /\ DemosComeAlone' /\ OverFromInv' /\ HoldInv'
      BY <3>1, <3>2 DEF ChainInv, ScreensInv, RealOnly, Sides, DemosComeAlone, OverFromInv,
                        HoldInv, Ids, Running, Complete
    <3>5. QED
      BY <3>3, <3>4 DEF ScreensInv
  <2>5. QED
    BY <2>1, <2>2, <2>3, <2>4 DEF ChainInv
<1>6. QED
  BY <1>1, <1>2, <1>3, <1>4, <1>5 DEF ChainNext

(* The counters, the watermarks and the clocks of the table fit together   *)
(* in every state, whoever's request comes when (ingest.go's watermark,    *)
(* buttons.go's dedup and takeFob, piezo.go's resend, watch.go's held).    *)
THEOREM ChainInvariant == ChainSpec => []ChainInv
<1>1. ChainInit => ChainInv
  <2> SUFFICES ASSUME ChainInit PROVE ChainInv
    OBVIOUS
  <2>1. /\ MatchesInv
        /\ \A i \in Matches : matches[i].counted = <<>>
        /\ \A i, j \in Matches : ~(i < j)
    BY TableStarts DEF ChainInit
  <2>2. QED
    BY <2>1, RigStarts, BoardStarts, ScreensStart DEF ChainInit, ChainInv
<1>2. ChainInv /\ [ChainNext]_chainVars => ChainInv'
  BY ChainSteps
<1>3. QED
  BY <1>1, <1>2, PTL DEF ChainSpec

(* A press is used for one thing, once, while the hub has deduplicated all *)
(* the time, and a fob checks in once (buttons.go, take and takeFob).      *)
THEOREM UsedOnceHolds == ChainSpec => []UsedOnce
<1>1. ChainInv => UsedOnce
  BY DEF ChainInv, UseInv, FobInv, UsedOnce
<1>2. QED
  BY <1>1, ChainInvariant, PTL

(* A long press whose timer was stopped has gone into a both-long, and one *)
(* whose timer has run has gone out as its undo (buttons.go, long).        *)
THEOREM LongsAreAnsweredHolds == ChainSpec => []LongsAreAnswered
<1>1. ChainInv => LongsAreAnswered
  BY DEF ChainInv, LongsInv
<1>2. QED
  BY <1>1, ChainInvariant, PTL

(* Nobody but another scorer moves the score between an event and its      *)
(* resend (piezo.go, verifyResend).                                        *)
THEOREM ResendIsQuietHolds == ChainSpec => []ResendIsQuiet
<1>1. ChainInv => ResendIsQuiet
  BY DEF ChainInv, BoardInv, QuietInv
<1>2. QED
  BY <1>1, ChainInvariant, PTL

(* A press and a rally change a match's score once, and a rally no other   *)
(* match's (ADR-0002 and ADR-0012; registry.go, ingest.go's watermark).    *)
THEOREM CountsOnceHolds == ChainSpec => []CountsOnce
<1>1. ASSUME ChainInv, NEW i \in Matches, NEW e \in ToSet(matches[i].counted)
      PROVE  CountedIn(i, e) = 1
  <2> DEFINE c == matches[i].counted
  <2>1. c \in Seq(Event)
    BY <1>1 DEF ChainInv, MatchesInv, Keeps, TableMatch
  <2>2. PICK n \in 1..Len(c) : c[n] = e
    BY <1>1, <2>1 DEF ToSet
  <2>3. \A k \in 1..Len(c) : c[k].source = e.source /\ c[k].id = e.id => k = n
    BY <1>1, <2>2 DEF ChainInv, MatchesInv, Keeps, CountedOnceIn
  <2>4. {k \in 1..Len(c) : c[k].source = e.source /\ c[k].id = e.id} = {n}
    BY <2>2, <2>3
  <2>5. QED
    BY <2>4, FS_Singleton DEF CountedIn
<1>2. ASSUME ChainInv, NEW i \in Matches, NEW e \in ToSet(matches[i].counted),
             e.source = PiezoSource, NEW j \in Matches \ {i}
      PROVE  CountedIn(j, e) = 0
  <2> DEFINE c == matches[i].counted
             d == matches[j].counted
  <2>1. c \in Seq(Event)
    BY <1>2 DEF ChainInv, MatchesInv, Keeps, TableMatch
  <2>2. PICK n \in 1..Len(c) : c[n] = e
    BY <1>2, <2>1 DEF ToSet
  <2>3. e.id \in PiezoIds(matches[i])
    BY <1>2, <2>2 DEF PiezoIds
  <2>4. e.id \notin PiezoIds(matches[j])
    BY <1>2, <2>3 DEF ChainInv, BoardInv, RallyInv
  <2>5. \A k \in 1..Len(d) : ~(d[k].source = e.source /\ d[k].id = e.id)
    BY <1>2, <2>4 DEF PiezoIds
  <2>6. {k \in 1..Len(d) : d[k].source = e.source /\ d[k].id = e.id} = {}
    BY <2>5
  <2>7. QED
    BY <2>6, FS_EmptySet DEF CountedIn
<1>3. ChainInv => CountsOnce
  BY <1>1, <1>2 DEF CountsOnce
<1>4. QED
  BY <1>3, ChainInvariant, PTL

(* A screen that leaves a finished match has shown it through the hold,    *)
(* unless somebody has checked in or the match was won twice (watch.go,    *)
(* held).                                                                  *)
THEOREM ResultsStayUpHolds == ChainSpec => ResultsStayUp
<1> DEFINE Leaves(p) ==
      page'[p].loads /\ ~page[p].loads /\ PageKind[p] # "score" /\ Followed(p) = 0
           ShownThrough(i) == lone \/ i = 0 \/ i \in reopened \/ now - overFrom[i] >= ResultHold
           StaysUp == \A p \in Pages : Leaves(p) => ShownThrough(page[p].match)
<1>1. ASSUME ChainInv, ChainNext
      PROVE  StaysUp
  <2> SUFFICES ASSUME NEW p \in Pages, Leaves(p)
               PROVE  ShownThrough(page[p].match)
    OBVIOUS
  <2> DEFINE i == page[p].match
  <2>1. /\ page \in [Pages -> PageShows] /\ now \in Nat
        /\ over \in [Ids -> {Never} \cup 0..now] /\ overFrom \in [Ids -> {Never} \cup 0..now]
    BY <1>1 DEF ChainInv, ScreensInv, ScreensType
  <2>2. page' # page
    OBVIOUS
  <2>3. Watching
    BY <1>1, <2>2 DEF ChainNext, Rig, PiezoBoard, PageRequest, ScreensStay
  <2>4. PICK q \in Pages : \/ LoadScore(q) \/ LoadWatch(q) \/ ScoreNext(q) \/ WatchNext(q)
                           \/ WatchSides(q) \/ \E wanted \in BOOLEAN : CreateOnPage(q, wanted)
    <3>1. screenLeft.open \subseteq Pages
      BY <1>1 DEF ChainInv, ScreensInv, ScreensType, ScreenLeft
    <3>2. ~(Claim \/ Elsewhere \/ ClockTicks)
      BY <2>2 DEF Claim, Elsewhere, ClockTicks
    <3>3. QED
      BY <2>3, <3>1, <3>2 DEF Watching, ScreensNext
  <2>5. q = p
    <3> SUFFICES ASSUME q # p PROVE page'[p].loads = page[p].loads
      BY Zenon
    <3>1. PICK x : page' = [page EXCEPT ![q] = x]
      BY <2>4 DEF LoadScore, LoadWatch, ScoreNext, WatchNext, WatchSides, CreateOnPage, Shows
    <3>2. QED
      BY <2>1, <3>1
  <2>6. CASE WatchNext(p)
    <3>1. page'[p].loads = (i # 0 /\ Sides /\ (Claimed \/ ~Held(i)))
      <4>1. page[p] \in PageShows
        BY <2>1
      <4>2. page' = [page EXCEPT ![p].loads = i # 0 /\ Sides /\ (Claimed \/ ~Held(i))]
        BY <2>6 DEF WatchNext
      <4>3. QED
        BY <2>1, <4>1, <4>2 DEF PageShows
    <3>2. CASE Claimed
      BY <3>2 DEF Claimed
    <3>3. CASE i # 0 /\ ~Held(i)
      <4>1. i \in Matches \cup {0}
        BY <2>1 DEF PageShows
      <4>2. i \in Ids
        BY <1>1, <3>3, <4>1, MatchesAreIds DEF ChainInv
      <4>3. now - OverSince(i) >= ResultHold /\ ResultHold \in Nat
        <5>1. OverSince(i) \in Int
          BY <2>1, <4>2 DEF OverSince, Never
        <5>2. ~(now - OverSince(i) < ResultHold)
          BY <3>3 DEF Held
        <5>3. QED
          BY <2>1, <5>1, <5>2, ScreensAssumption
      <4>4. overFrom[i] \in Int /\ overFrom[i] <= now /\ over[i] \in Int
        BY <2>1, <4>2 DEF Never
      <4>5. CASE over[i] = Never
        BY <2>1, <4>3, <4>4, <4>5 DEF OverSince
      <4>6. CASE over[i] # Never
        <5>1. i \in reopened \/ overFrom[i] <= over[i]
          BY <1>1, <4>2, <4>6 DEF ChainInv, ScreensInv, HoldInv
        <5>2. QED
          BY <2>1, <4>3, <4>4, <4>6, <5>1 DEF OverSince
      <4>7. QED
        BY <4>5, <4>6
    <3>4. QED
      BY <3>1, <3>2, <3>3
  <2>7. ~LoadScore(p) /\ ~LoadWatch(p) /\ ~ScoreNext(p) /\ ~(\E wanted \in BOOLEAN : CreateOnPage(p, wanted))
    BY DEF LoadScore, LoadWatch, ScoreNext, CreateOnPage
  <2>8. ~WatchSides(p)
    <3> SUFFICES ASSUME WatchSides(p) PROVE page'[p].loads = page[p].loads
      BY Zenon
    <3>1. page' = [page EXCEPT ![p].shows = SidesNow(p)]
      BY DEF WatchSides
    <3>2. page[p] \in PageShows
      BY <2>1
    <3>3. QED
      BY <2>1, <3>1, <3>2 DEF PageShows
  <2>9. QED
    BY <2>4, <2>5, <2>6, <2>7, <2>8
<1>2. ChainInv /\ [ChainNext]_chainVars => [StaysUp]_screenVars
  <2> HIDE DEF StaysUp
  <2>1. UNCHANGED chainVars => UNCHANGED screenVars
    BY DEF chainVars
  <2>2. QED
    BY <1>1, <2>1
<1>3. [StaysUp]_screenVars <=>
        [\A p \in Pages :
           page'[p].loads /\ ~page[p].loads /\ PageKind[p] # "score" /\ Followed(p) = 0 =>
             LET i == page[p].match
             IN  lone \/ i = 0 \/ i \in reopened \/ now - overFrom[i] >= ResultHold]_screenVars
  OBVIOUS
<1> HIDE DEF StaysUp
<1>4. QED
  BY <1>2, <1>3, ChainInvariant, PTL DEF ChainSpec, ResultsStayUp
=============================================================================
