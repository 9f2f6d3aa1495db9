--------------------------- MODULE ObserverProofs ---------------------------
(***************************************************************************)
(* Theorems about the two observers that pass on what the scorer tells     *)
(* them: the panel's Sink, for every format, any number of matches and     *)
(* transitions, and every size of the queue; and the hub with its streams  *)
(* (Live), for any number of streams and matches and every buffer.         *)
(***************************************************************************)
EXTENDS Sink, Live, FiniteSetTheorems, SequenceTheorems, WellFoundedInduction, TLAPS

-----------------------------------------------------------------------------
(* What the rules make of a point.                                         *)

(* A match that is not over has no set decided and no player with all the  *)
(* sets there are to win.                                                  *)
InPlay(y) == \A p \in Player : ~Takes(y.points, p) /\ y.sets[p] < SetsToWin
Sound(y)  == y \in Match /\ (~y.complete => InPlay(y))

LEMMA PlayersAreTwo ==
  ASSUME NEW p \in Player
  PROVE  Opponent(p) \in Player /\ Opponent(p) # p /\ \A q \in Player : q = p \/ q = Opponent(p)
BY DEF Player, Opponent

LEMMA FormatIsNatural ==
  /\ PointsPerSet \in Nat /\ PointsPerSet >= 2 /\ SetsToWin \in Nat /\ SetsToWin >= 1
  /\ ChangeEnds \in BOOLEAN
<1>1. BestOf \in Nat
  BY RulesAssumption
<1>2. BestOf \div 2 \in Nat
  BY <1>1
<1>3. SetsToWin \in Nat /\ SetsToWin >= 1
  BY <1>2 DEF SetsToWin
<1>4. QED
  BY <1>3, RulesAssumption

LEMMA LoveIsUndecided == Love \in Score /\ \A p \in Player : ~Takes(Love, p)
<1>1. Love \in Score /\ \A p \in Player : Love[p] = 0
  BY DEF Love, Score
<1>2. ~(0 >= PointsPerSet)
  BY FormatIsNatural
<1>3. QED
  BY <1>1, <1>2 DEF Takes

LEMMA NewMatchIsSound == Sound(NewMatch)
<1>1. (Start = "warmup") \in BOOLEAN /\ FirstServer \in Player \cup {None}
  BY RulesAssumption
<1>2. Love \in Score /\ <<>> \in Seq(Score) /\ {} \in SUBSET Half /\ 0 \in Nat
  BY LoveIsUndecided
<1>3. NewMatch \in Match
  BY <1>1, <1>2 DEF NewMatch, Match
<1>4. \A p \in Player : NewMatch.sets[p] = 0
  BY DEF NewMatch, Love
<1>5. InPlay(NewMatch)
  BY <1>4, LoveIsUndecided, FormatIsNatural DEF InPlay, NewMatch
<1>6. QED
  BY <1>3, <1>5 DEF Sound

(* The points after a point or a correction.                               *)
LEMMA PointsMove ==
  ASSUME NEW x \in Match, NEW p \in Player, NEW delta \in {1, -1}
  PROVE  /\ PointsAfter(x, p, delta) \in Score
         /\ delta = 1 => PointsAfter(x, p, delta)[p] = x.points[p] + 1
         /\ delta = -1 => PointsAfter(x, p, delta)[p] <= x.points[p]
                         /\ PointsAfter(x, p, delta)[p] >= x.points[p] - 1
         /\ PointsAfter(x, p, delta)[Opponent(p)] = x.points[Opponent(p)]
<1> DEFINE n == IF x.points[p] + delta < 0 THEN 0 ELSE x.points[p] + delta
<1>1. x.points \in Score /\ x.points[p] \in Nat
  BY DEF Match, Score
<1>2. n \in Nat /\ (delta = 1 => n = x.points[p] + 1)
      /\ (delta = -1 => n <= x.points[p] /\ n >= x.points[p] - 1)
  BY <1>1
<1>3. PointsAfter(x, p, delta) = [x.points EXCEPT ![p] = n]
  BY <1>1 DEF PointsAfter
<1> HIDE DEF n
<1>4. QED
  BY <1>1, <1>2, <1>3, PlayersAreTwo DEF Score

(* Whoever takes the set, by a point or by a correction, had it at stake;  *)
(* only one player has; and a point for the one who has it takes it.       *)
LEMMA OnlyTheStakedTakes ==
  ASSUME NEW x \in Match, NEW p \in Player, NEW delta \in {1, -1}, InPlay(x), Phase(x) = "playing"
  PROVE  /\ \A w \in Player : /\ Takes(PointsAfter(x, p, delta), w) => Stake(x, w)
                              /\ Stake(x, w) => ~Stake(x, Opponent(w))
         /\ delta = 1 /\ Stake(x, p) => Takes(PointsAfter(x, p, delta), p)
<1> DEFINE q == Opponent(p)
           pts == PointsAfter(x, p, delta)
<1>1. q \in Player /\ Opponent(q) = p /\ \A w \in Player : w = p \/ w = q
  BY DEF Opponent, Player
<1>2. pts \in Score /\ pts[q] = x.points[q] /\ (delta = 1 => pts[p] = x.points[p] + 1)
      /\ (delta = -1 => pts[p] <= x.points[p] /\ pts[p] >= x.points[p] - 1)
  BY PointsMove
<1>3. x.points[p] \in Nat /\ x.points[q] \in Nat /\ PointsPerSet \in Nat
  BY <1>1, FormatIsNatural DEF Match, Score
<1> HIDE DEF pts
<1>4. pts[p] \in Nat /\ pts[q] \in Nat
  BY <1>1, <1>2 DEF Score
<1>5. /\ ~(x.points[q] >= PointsPerSet /\ x.points[q] - x.points[p] >= 2)
      /\ ~(x.points[p] >= PointsPerSet /\ x.points[p] - x.points[q] >= 2)
  BY <1>1 DEF InPlay, Takes, WinBy
<1>6. Stake(x, p) <=> x.points[p] + 1 >= PointsPerSet /\ x.points[p] + 1 - x.points[q] >= 2
  BY DEF Stake, WinBy
<1>7. Stake(x, q) <=> x.points[q] + 1 >= PointsPerSet /\ x.points[q] + 1 - x.points[p] >= 2
  BY <1>1 DEF Stake, WinBy
<1>8. Takes(pts, p) <=> pts[p] >= PointsPerSet /\ pts[p] - pts[q] >= 2
  BY DEF Takes, WinBy
<1>9. Takes(pts, q) <=> pts[q] >= PointsPerSet /\ pts[q] - pts[p] >= 2
  BY <1>1 DEF Takes, WinBy
<1> HIDE DEF q
<1>10. Takes(pts, p) => Stake(x, p)
  BY <1>2, <1>3, <1>4, <1>5, <1>6, <1>8
<1>11. Takes(pts, q) => Stake(x, q)
  BY <1>2, <1>3, <1>4, <1>5, <1>7, <1>9
<1>12. Stake(x, p) => ~Stake(x, q)
  BY <1>3, <1>6, <1>7
<1>13. delta = 1 /\ Stake(x, p) => Takes(pts, p)
  BY <1>2, <1>3, <1>6, <1>8
<1>14. \A w \in Player : (Takes(pts, w) => Stake(x, w)) /\ (Stake(x, w) => ~Stake(x, Opponent(w)))
  BY <1>1, <1>10, <1>11, <1>12 DEF q
<1>15. QED
  BY <1>13, <1>14 DEF pts

LEMMA SetWonMakes ==
  ASSUME NEW x, Sound(x), NEW w \in Player, NEW pts \in Score, ~x.complete
  PROVE  /\ Sound(SetWon(x, pts, w))
         /\ SetWon(x, pts, w).complete <=> x.sets[w] + 1 = SetsToWin
         /\ SetWon(x, pts, w).complete => SetWon(x, pts, w).winner = w
         /\ ~SetWon(x, pts, w).complete => SetWon(x, pts, w).setIndex # x.setIndex
<1> DEFINE sets == [x.sets EXCEPT ![w] = @ + 1]
           y == [x EXCEPT !.points = pts, !.completed = Append(@, pts), !.sets[w] = @ + 1]
           z == [y EXCEPT !.setIndex = @ + 1, !.points = Love]
<1>1. x \in Match /\ InPlay(x) /\ x.sets \in Score /\ x.setIndex \in Nat /\ x.completed \in Seq(Score)
  BY DEF Sound, Match
<1>2. sets \in Score /\ sets[w] = x.sets[w] + 1 /\ (\A q \in Player : q # w => sets[q] = x.sets[q])
  BY <1>1 DEF Score
<1>3. \A q \in Player : x.sets[q] \in Nat /\ x.sets[q] < SetsToWin
  BY <1>1 DEF InPlay, Score
<1>4. Append(x.completed, pts) \in Seq(Score)
  BY <1>1
<1>5. y \in Match /\ y.sets = sets /\ y.setIndex = x.setIndex /\ y.complete = x.complete
  BY <1>1, <1>2, <1>4 DEF Match
<1>6. SetWon(x, pts, w) = IF y.sets[w] >= SetsToWin THEN [y EXCEPT !.complete = TRUE, !.winner = w]
                          ELSE ChangedEnds(z)
  BY DEF SetWon
<1> HIDE DEF y, sets
<1>7. y.sets[w] >= SetsToWin <=> x.sets[w] + 1 = SetsToWin
  BY <1>2, <1>3, <1>5, FormatIsNatural
<1>8. CASE y.sets[w] >= SetsToWin
  <2> DEFINE decided == [y EXCEPT !.complete = TRUE, !.winner = w]
  <2>1. decided \in Match /\ decided.complete /\ decided.winner = w
    BY <1>5 DEF Match
  <2>2. QED
    BY <1>6, <1>7, <1>8, <2>1 DEF Sound
<1>9. CASE ~(y.sets[w] >= SetsToWin)
  <2>1. z \in Match /\ z.setIndex = x.setIndex + 1 /\ z.points = Love /\ z.sets = sets /\ z.complete = x.complete
    <3>1. y.setIndex + 1 \in Nat
      BY <1>1, <1>5
    <3>2. QED
      BY <1>5, <3>1, LoveIsUndecided DEF Match
  <2> HIDE DEF z
  <2> DEFINE next == ChangedEnds(z)
  <2>2. next \in Match /\ next.setIndex = z.setIndex /\ next.points = z.points /\ next.sets = z.sets
        /\ next.complete = z.complete
    BY <2>1 DEF ChangedEnds, Match
  <2> HIDE DEF next
  <2>3. \A q \in Player : next.sets[q] < SetsToWin
    <3> SUFFICES ASSUME NEW q \in Player PROVE next.sets[q] < SetsToWin
      OBVIOUS
    <3>1. next.sets[q] = sets[q] /\ sets[q] \in Nat
      BY <1>2, <2>1, <2>2 DEF Score
    <3>2. CASE q = w
      BY <1>5, <1>9, <3>1, <3>2, FormatIsNatural
    <3>3. CASE q # w
      BY <1>2, <1>3, <3>1, <3>3
    <3>4. QED
      BY <3>2, <3>3
  <2>4. InPlay(next)
    BY <2>1, <2>2, <2>3, LoveIsUndecided DEF InPlay
  <2>5. SetWon(x, pts, w) = next
    BY <1>6, <1>9 DEF next
  <2>6. next.setIndex # x.setIndex
    BY <1>1, <2>1, <2>2
  <2>7. QED
    BY <1>7, <1>9, <2>1, <2>2, <2>4, <2>5, <2>6 DEF Sound
<1>10. QED
  BY <1>8, <1>9

(* A point takes the set if it was at stake, the match if that was, and    *)
(* nothing else; and only for the player who made it.                      *)
(* What a point or a correction makes of a match, and whose it is.         *)
LEMMA PointMakes ==
  ASSUME NEW x, Sound(x), NEW p \in Player, NEW delta \in {1, -1}, Phase(x) = "playing",
         NEW after, after = Scored(x, p, delta), NEW w, w = SideOf(PointsAfter(x, p, delta), p, delta)
  PROVE  /\ Sound(after) /\ w \in Player \cup {None}
         /\ w \in Player =>
              /\ after.complete <=> MatchStake(x, w)
              /\ after.complete => after.winner = w
              /\ ~after.complete => (after.setIndex # x.setIndex <=> Stake(x, w))
         /\ w \notin Player => ~after.complete /\ after.setIndex = x.setIndex
<1> DEFINE pts == PointsAfter(x, p, delta)
           on  == [x EXCEPT !.points = pts]
<1>1. x \in Match /\ ~x.complete /\ InPlay(x)
  BY DEF Sound, Phase
<1>2. pts \in Score
  BY <1>1, PointsMove
<1>3. /\ \A v \in Player : (Takes(pts, v) => Stake(x, v)) /\ (Stake(x, v) => ~Stake(x, Opponent(v)))
      /\ delta = 1 /\ Stake(x, p) => Takes(pts, p)
  BY <1>1, OnlyTheStakedTakes
<1>4. after = IF Takes(pts, "a") THEN SetWon(x, pts, "a")
              ELSE IF Takes(pts, "b") THEN SetWon(x, pts, "b") ELSE on
  BY DEF Scored
<1>5. w = IF Takes(pts, "a") THEN "a" ELSE IF Takes(pts, "b") THEN "b" ELSE IF delta > 0 THEN p ELSE None
  BY DEF SideOf
<1>6. "a" \in Player /\ "b" \in Player /\ None \notin Player /\ \A v \in Player : v = "a" \/ v = "b"
  BY DEF Player, None
<1> HIDE DEF pts, on
<1>7. ASSUME NEW v \in Player, Takes(pts, v), w = v, after = SetWon(x, pts, v)
      PROVE  /\ Sound(after) /\ Stake(x, v)
             /\ (after.complete <=> MatchStake(x, v)) /\ (after.complete => after.winner = v)
             /\ (~after.complete => after.setIndex # x.setIndex)
  <2>1. Stake(x, v)
    BY <1>3, <1>7
  <2>2. Sound(SetWon(x, pts, v)) /\ (SetWon(x, pts, v).complete <=> x.sets[v] + 1 = SetsToWin)
        /\ (SetWon(x, pts, v).complete => SetWon(x, pts, v).winner = v)
        /\ (~SetWon(x, pts, v).complete => SetWon(x, pts, v).setIndex # x.setIndex)
    BY <1>1, <1>2, SetWonMakes
  <2>3. QED
    BY <1>7, <2>1, <2>2 DEF MatchStake
<1>8. CASE \E v \in Player : Takes(pts, v)
  <2>1. PICK v \in Player : Takes(pts, v) /\ w = v /\ after = SetWon(x, pts, v)
    BY <1>4, <1>5, <1>6, <1>8
  <2>2. QED
    BY <1>7, <2>1
<1>9. CASE ~\E v \in Player : Takes(pts, v)
  <2>1. after = on /\ w = IF delta > 0 THEN p ELSE None
    BY <1>4, <1>5, <1>6, <1>9
  <2>2. on \in Match /\ on.points = pts /\ on.sets = x.sets /\ on.complete = x.complete /\ on.setIndex = x.setIndex
    BY <1>1, <1>2 DEF Match, on
  <2>3. Sound(after) /\ ~after.complete /\ after.setIndex = x.setIndex
    BY <1>1, <1>9, <2>1, <2>2 DEF InPlay, Sound
  <2>4. w \in Player => ~Stake(x, w)
    <3>1. w \in Player => delta = 1 /\ w = p
      BY <1>6, <2>1
    <3>2. QED
      BY <1>3, <1>9, <3>1
  <2>5. w \in Player \cup {None}
    BY <2>1
  <2>6. QED
    BY <2>3, <2>4, <2>5 DEF MatchStake
<1>10. QED
  BY <1>8, <1>9

(* A press scores nothing, nor does the rally for the serve.               *)
LEMMA PressMakes ==
  ASSUME NEW x, Sound(x)
  PROVE  /\ \A h \in Half : h \notin x.pressed => Sound(Confirmed(x, h))
         /\ \A p \in Player : Sound(ServeDecided(x, p))
<1>1. x \in Match /\ (~x.complete => InPlay(x))
  BY DEF Sound
<1>2. ASSUME NEW y \in Match, y.points = x.points, y.sets = x.sets, y.complete = x.complete
      PROVE  Sound(y)
  BY <1>1, <1>2 DEF Sound, InPlay
<1>3. ASSUME NEW h \in Half PROVE Sound(Confirmed(x, h))
  <2> DEFINE y == [x EXCEPT !.pressed = @ \cup {h}]
  <2>1. y \in Match /\ y.points = x.points /\ y.sets = x.sets /\ y.complete = x.complete
    <3>1. x.pressed \cup {h} \in SUBSET Half
      BY <1>1 DEF Match
    <3>2. QED
      BY <1>1, <3>1 DEF Match
  <2> DEFINE z == [y EXCEPT !.pressed = {}, !.warmup = FALSE]
             v == [y EXCEPT !.pressed = {}, !.endsPending = FALSE]
  <2>2. Confirmed(x, h) = IF y.pressed # Half THEN y ELSE IF y.warmup THEN z ELSE v
    BY DEF Confirmed
  <2> HIDE DEF y
  <2>3. {} \in SUBSET Half
    OBVIOUS
  <2>4. z \in Match /\ z.points = x.points /\ z.sets = x.sets /\ z.complete = x.complete
    BY <2>1, <2>3 DEF Match
  <2>5. v \in Match /\ v.points = x.points /\ v.sets = x.sets /\ v.complete = x.complete
    BY <2>1, <2>3 DEF Match
  <2> HIDE DEF z, v
  <2>6. Sound(y) /\ Sound(z) /\ Sound(v)
    BY <1>2, <2>1, <2>4, <2>5
  <2>7. QED
    BY <2>2, <2>6
<1>4. ASSUME NEW p \in Player PROVE Sound(ServeDecided(x, p))
  <2> DEFINE y == [x EXCEPT !.firstServer = p]
  <2>1. y \in Match /\ y.points = x.points /\ y.sets = x.sets /\ y.complete = x.complete
    BY <1>1 DEF Match
  <2> HIDE DEF y
  <2>2. Sound(y)
    BY <1>2, <2>1
  <2>3. QED
    BY <2>2 DEF ServeDecided, y
<1>5. QED
  BY <1>3, <1>4

-----------------------------------------------------------------------------
(* The counters.                                                           *)

Observed == [at : {"idle"}] \cup [at : {"check", "send"}, t : Transition]

SinkType ==
  /\ \A x \in Matches : Sound(m[x])
  /\ m \in [Matches -> Match] /\ undo \in [Matches -> Seq({y \in Match : Sound(y)})]
  /\ observing \in [Matches -> Observed]
  /\ \A x \in Matches : observing[x].at # "idle" => observing[x].t.match = x
  /\ queue \in Seq(Transition) /\ Len(queue) <= QueueSize
  /\ hand \in Transition \cup {NoPitch}
  /\ worker \in {"running", "draining", "done"} /\ left \in 0..QueueSize
  /\ expired \in BOOLEAN /\ stopped \in BOOLEAN /\ closed \in BOOLEAN
  /\ dropped \in Nat /\ failed \in Nat /\ arrived \in Nat /\ missed \in Nat
  /\ count \in 0..MaxTransitions

Busy == {x \in Matches : observing[x].at # "idle"}
Held == IF hand = NoPitch THEN 0 ELSE 1

(* What has left its Observe and is not on the stream.                     *)
Settled == dropped + failed + Len(queue) + Held

(* Each transition is on its way, on the stream or in a counter; and but   *)
(* for one that arrived although it was refused, only once.                *)
CountInv ==
  /\ IsFiniteSet(Busy)
  /\ count <= arrived + Settled + Cardinality(Busy)
  /\ Settled + Cardinality(Busy) <= count
  /\ missed + Cardinality(Busy) <= count

(* What the drain will not take was queued after stop was closed.          *)
DrainInv ==
  /\ worker = "draining" => stopped /\ Len(queue) <= left + missed
  /\ worker = "done" => stopped /\ hand = NoPitch /\ Len(queue) <= missed
  /\ closed => worker = "done"

CounterInv == SinkType /\ CountInv /\ DrainInv

(* An Observe begins, goes on or returns.                                  *)
LEMMA BusyBegins ==
  ASSUME SinkType, CountInv, NEW x \in Matches, NEW o \in Observed,
         observing[x].at = "idle", o.at # "idle", observing' = [observing EXCEPT ![x] = o]
  PROVE  IsFiniteSet(Busy') /\ Cardinality(Busy') = Cardinality(Busy) + 1 /\ Cardinality(Busy) \in Nat
<1>1. Busy' = Busy \cup {x} /\ x \notin Busy
  BY DEF Busy, SinkType
<1>2. IsFiniteSet(Busy)
  BY DEF CountInv
<1>3. QED
  BY <1>1, <1>2, FS_AddElement, FS_CardinalityType

LEMMA BusyReturns ==
  ASSUME SinkType, CountInv, NEW x \in Matches, observing[x].at # "idle", Returns(x)
  PROVE  /\ IsFiniteSet(Busy') /\ Cardinality(Busy') = Cardinality(Busy) - 1
         /\ Cardinality(Busy) \in Nat /\ Cardinality(Busy') \in Nat
<1>1. Busy' = Busy \ {x} /\ x \in Busy
  BY DEF Busy, SinkType, Returns
<1>2. IsFiniteSet(Busy)
  BY DEF CountInv
<1>3. IsFiniteSet(Busy') /\ Cardinality(Busy') = Cardinality(Busy) - 1
  BY <1>1, <1>2, FS_RemoveElement
<1>4. QED
  BY <1>2, <1>3, FS_CardinalityType

LEMMA BusyStays ==
  ASSUME CountInv, \A x \in Matches : observing'[x].at # "idle" <=> observing[x].at # "idle"
  PROVE  Busy' = Busy /\ IsFiniteSet(Busy') /\ Cardinality(Busy) \in Nat
<1>1. Busy' = Busy
  BY DEF Busy
<1>2. QED
  BY <1>1, FS_CardinalityType DEF CountInv

LEMMA SizesAreNatural ==
  ASSUME SinkType
  PROVE  Len(queue) \in Nat /\ Held \in {0, 1} /\ QueueSize \in Nat
         /\ (queue # <<>> => Head(queue) \in Transition /\ Tail(queue) \in Seq(Transition)
                             /\ Len(Tail(queue)) = Len(queue) - 1)
BY SinkAssumption DEF SinkType, Held

(* A match moves on and its Observe begins.                                *)
LEMMA EmitsKeeps ==
  ASSUME CounterInv, NEW x \in Matches, NEW kind \in Kind \ {None},
         NEW side \in Player \cup {None}, NEW state, Sound(state), Emits(x, kind, side, state),
         undo' \in [Matches -> Seq({y \in Match : Sound(y)})]
  PROVE  CounterInv'
<1> DEFINE t == [match |-> x, n |-> count + 1, kind |-> kind, side |-> side, state |-> state]
           o == [at |-> "check", t |-> t]
<1>1. SinkType /\ CountInv /\ DrainInv /\ count \in Nat /\ MaxTransitions \in Nat
  BY SinkAssumption DEF CounterInv, SinkType
<1>2. observing[x].at = "idle" /\ count < MaxTransitions /\ count' = count + 1 /\ m' = [m EXCEPT ![x] = state]
      /\ observing' = [observing EXCEPT ![x] = o]
      /\ UNCHANGED <<queue, hand, worker, closeVars, dropped, failed, outVars, missed>>
  BY DEF Emits
<1>3. t \in Transition /\ state \in Match
  <2>1. count + 1 \in Nat /\ state \in Match
    BY <1>1 DEF Sound
  <2>2. QED
    BY <2>1 DEF Transition
<1>4. o \in Observed /\ o.at = "check" /\ o.t.match = x
  BY <1>3 DEF Observed
<1> HIDE DEF t, o
<1>5. SinkType'
  <2>1. count' \in 0..MaxTransitions
    BY <1>1, <1>2
  <2>2. m' \in [Matches -> Match] /\ \A y \in Matches : Sound(m'[y])
    BY <1>1, <1>2, <1>3 DEF SinkType
  <2>3. observing' \in [Matches -> Observed]
        /\ \A y \in Matches : observing'[y].at # "idle" => observing'[y].t.match = y
    BY <1>1, <1>2, <1>4 DEF SinkType
  <2>4. QED
    BY <1>1, <1>2, <2>1, <2>2, <2>3 DEF SinkType, closeVars, outVars
<1>6. IsFiniteSet(Busy') /\ Cardinality(Busy') = Cardinality(Busy) + 1 /\ Cardinality(Busy) \in Nat
  BY <1>1, <1>2, <1>4, BusyBegins
<1>7. CountInv'
  <2>1. UNCHANGED <<queue, Held, dropped, failed, arrived, missed>>
    BY <1>2 DEF Held, outVars
  <2>2. dropped \in Nat /\ failed \in Nat /\ arrived \in Nat /\ missed \in Nat /\ Len(queue) \in Nat /\ Held \in Nat
    BY <1>1, SizesAreNatural DEF SinkType
  <2>3. /\ count <= arrived + Settled + Cardinality(Busy)
        /\ Settled + Cardinality(Busy) <= count
        /\ missed + Cardinality(Busy) <= count
    BY <1>1 DEF CountInv
  <2>4. Settled' = Settled /\ Settled \in Nat
    BY <2>1, <2>2 DEF Settled
  <2>5. /\ count' <= arrived' + Settled' + Cardinality(Busy')
        /\ Settled' + Cardinality(Busy') <= count'
        /\ missed' + Cardinality(Busy') <= count'
    BY <1>1, <1>2, <1>6, <2>1, <2>2, <2>3, <2>4
  <2>6. QED
    BY <1>6, <2>5 DEF CountInv
<1>8. DrainInv'
  BY <1>1, <1>2 DEF DrainInv, closeVars
<1>9. QED
  BY <1>5, <1>7, <1>8 DEF CounterInv

(* The counters as numbers, for steps that leave the matches alone.        *)
Numbers ==
  /\ dropped \in Nat /\ failed \in Nat /\ arrived \in Nat /\ missed \in Nat /\ count \in Nat
  /\ Len(queue) \in Nat /\ Held \in Nat /\ Settled \in Nat /\ Cardinality(Busy) \in Nat /\ left \in Nat
  /\ count <= arrived + Settled + Cardinality(Busy)
  /\ Settled + Cardinality(Busy) <= count
  /\ missed + Cardinality(Busy) <= count

LEMMA NumbersHold ==
  ASSUME CounterInv
  PROVE  Numbers
<1>1. SinkType /\ CountInv /\ Cardinality(Busy) \in Nat
  BY FS_CardinalityType DEF CounterInv, CountInv
<1>2. /\ dropped \in Nat /\ failed \in Nat /\ arrived \in Nat /\ missed \in Nat /\ count \in Nat
      /\ Len(queue) \in Nat /\ Held \in Nat /\ left \in Nat
  BY <1>1, SizesAreNatural, SinkAssumption DEF SinkType
<1>3. Settled \in Nat
  BY <1>2 DEF Settled
<1>4. QED
  BY <1>1, <1>2, <1>3 DEF Numbers, CountInv

(* What a step makes of the sum, by what it makes of its parts.            *)
LEMMA SettledMoves ==
  ASSUME NEW d \in Nat, NEW f \in Nat, NEW l \in Nat, NEW h \in Nat,
         NEW e \in Nat, NEW g \in Nat, NEW k \in Nat, NEW i \in Nat
  PROVE  /\ d + f + l + h \in Nat
         /\ e = d + 1 /\ g = f /\ k = l /\ i = h => e + g + k + i = d + f + l + h + 1
         /\ e = d /\ g = f /\ k = l + 1 /\ i = h => e + g + k + i = d + f + l + h + 1
         /\ e = d /\ g = f /\ k = l - 1 /\ i = h + 1 => e + g + k + i = d + f + l + h
         /\ e = d + 1 /\ g = f /\ k = l - 1 /\ i = h => e + g + k + i = d + f + l + h
         /\ e = d /\ g = f + 1 /\ k = l /\ h = i + 1 => e + g + k + i = d + f + l + h
         /\ e = d /\ g = f /\ k = l /\ h = i + 1 => e + g + k + i + 1 = d + f + l + h
OBVIOUS

LEMMA Gains ==
  ASSUME NEW a \in Nat, NEW s \in Nat, NEW a1 \in Nat, NEW s1 \in Nat,
         (a <= a1 /\ s1 = s) \/ (a1 = a + 1 /\ s1 + 1 = s)
  PROVE  a + s <= a1 + s1 /\ s1 <= s
OBVIOUS

LEMMA Balance ==
  ASSUME NEW a \in Nat, NEW b \in Nat, NEW c \in Nat, NEW s \in Nat, NEW a1 \in Nat, NEW s1 \in Nat,
         c <= a + s + b, s + b <= c, a + s <= a1 + s1, s1 <= s
  PROVE  c <= a1 + s1 + b /\ s1 + b <= c
OBVIOUS

LEMMA CheckKeeps ==
  ASSUME CounterInv, NEW x \in Matches, Check(x)
  PROVE  CounterInv'
<1>0. Numbers
  BY NumbersHold
<1>1. SinkType /\ CountInv /\ DrainInv /\ observing[x].at = "check" /\ observing[x] \in Observed
  BY DEF CounterInv, SinkType, Check
<1>2. UNCHANGED <<m, undo, count, queue, hand, worker, left, expired, stopped, closed, failed, arrived, missed, Held>>
  BY DEF Check, scorerVars, closeVars, outVars, Held
<1>3. DrainInv'
  BY <1>1, <1>2 DEF DrainInv
<1>4. CASE stopped
  <2>1. dropped' = dropped + 1 /\ Returns(x)
    BY <1>4 DEF Check
  <2>2. IsFiniteSet(Busy') /\ Cardinality(Busy') = Cardinality(Busy) - 1 /\ Cardinality(Busy') \in Nat
    BY <1>1, <2>1, BusyReturns
  <2>3. SinkType'
    <3>1. [at |-> "idle"] \in Observed /\ dropped' \in Nat
      BY <1>0, <2>1 DEF Numbers, Observed
    <3>2. observing' \in [Matches -> Observed]
          /\ \A y \in Matches : observing'[y].at # "idle" => observing'[y].t.match = y
      BY <1>1, <2>1, <3>1 DEF SinkType, Returns
    <3>3. QED
      BY <1>1, <1>2, <3>1, <3>2 DEF SinkType
  <2>4. /\ count' <= arrived' + Settled' + Cardinality(Busy')
        /\ Settled' + Cardinality(Busy') <= count'
        /\ missed' + Cardinality(Busy') <= count'
    <3>1. Settled' = Settled + 1
      BY <1>0, <1>2, <2>1, SettledMoves DEF Settled, Numbers
    <3>2. QED
      BY <1>0, <1>2, <2>2, <3>1 DEF Numbers
  <2>5. QED
    BY <1>3, <2>2, <2>3, <2>4 DEF CounterInv, CountInv
<1>5. CASE ~stopped
  <2>1. dropped' = dropped /\ observing' = [observing EXCEPT ![x].at = "send"]
    BY <1>5 DEF Check
  <2> DEFINE o == [observing[x] EXCEPT !.at = "send"]
  <2>2. o \in Observed /\ o.at = "send" /\ o.t = observing[x].t /\ observing[x].t.match = x
    BY <1>1 DEF Observed, SinkType
  <2>3. observing' = [observing EXCEPT ![x] = o]
    BY <2>1
  <2> HIDE DEF o
  <2>4. \A y \in Matches : observing'[y] = IF y = x THEN o ELSE observing[y]
    BY <1>1, <2>3 DEF SinkType
  <2>5. Busy' = Busy /\ IsFiniteSet(Busy')
    BY <1>1, <2>2, <2>4, BusyStays
  <2>6. SinkType'
    BY <1>1, <1>2, <2>1, <2>2, <2>3, <2>4 DEF SinkType
  <2>7. CountInv'
    <3>1. Settled' = Settled
      BY <1>2, <2>1 DEF Settled
    <3>2. QED
      BY <1>1, <1>2, <2>5, <3>1 DEF CountInv
  <2>8. QED
    BY <1>3, <2>6, <2>7 DEF CounterInv
<1>6. QED
  BY <1>4, <1>5

LEMMA SendKeeps ==
  ASSUME CounterInv, NEW x \in Matches, Send(x)
  PROVE  CounterInv'
<1>0. Numbers
  BY NumbersHold
<1>1. SinkType /\ CountInv /\ DrainInv /\ observing[x].at = "send" /\ observing[x] \in Observed /\ Returns(x)
  BY DEF CounterInv, SinkType, Send
<1>2. UNCHANGED <<m, undo, count, hand, worker, left, expired, stopped, closed, failed, arrived, Held>>
  BY DEF Send, scorerVars, closeVars, outVars, Held
<1>3. IsFiniteSet(Busy') /\ Cardinality(Busy') = Cardinality(Busy) - 1 /\ Cardinality(Busy') \in Nat
  BY <1>1, BusyReturns
<1>4. observing' \in [Matches -> Observed]
      /\ \A y \in Matches : observing'[y].at # "idle" => observing'[y].t.match = y
  <2>1. [at |-> "idle"] \in Observed
    BY DEF Observed
  <2>2. QED
    BY <1>1, <2>1 DEF SinkType, Returns
<1>5. CASE Len(queue) < QueueSize
  <2>1. queue' = Append(queue, observing[x].t) /\ dropped' = dropped
        /\ missed' = IF stopped THEN missed + 1 ELSE missed
    BY <1>5 DEF Send
  <2>2. observing[x].t \in Transition /\ queue \in Seq(Transition) /\ QueueSize \in Nat
    BY <1>1, SinkAssumption DEF SinkType, Observed
  <2>3. queue' \in Seq(Transition) /\ Len(queue') = Len(queue) + 1
    BY <2>1, <2>2
  <2>4. Len(queue') <= QueueSize /\ missed' \in Nat
    BY <1>0, <1>5, <2>1, <2>2, <2>3 DEF Numbers
  <2>5. SinkType'
    BY <1>1, <1>2, <1>4, <2>1, <2>3, <2>4 DEF SinkType
  <2>6. /\ count' <= arrived' + Settled' + Cardinality(Busy')
        /\ Settled' + Cardinality(Busy') <= count'
        /\ missed' + Cardinality(Busy') <= count'
    <3>1. Settled' = Settled + 1
      BY <1>0, <1>2, <2>1, <2>3, SettledMoves DEF Settled, Numbers
    <3>2. missed' <= missed + 1 /\ missed' \in Nat
      BY <1>0, <2>1 DEF Numbers
    <3>3. QED
      BY <1>0, <1>2, <1>3, <3>1, <3>2 DEF Numbers
  <2>7. DrainInv'
    BY <1>0, <1>1, <1>2, <2>1, <2>3 DEF Numbers, DrainInv
  <2>8. QED
    BY <1>3, <2>5, <2>6, <2>7 DEF CounterInv, CountInv
<1>6. CASE ~(Len(queue) < QueueSize)
  <2>1. UNCHANGED <<queue, missed>> /\ dropped' = dropped + 1
    BY <1>6 DEF Send
  <2>2. SinkType'
    BY <1>0, <1>1, <1>2, <1>4, <2>1 DEF Numbers, SinkType
  <2>3. /\ count' <= arrived' + Settled' + Cardinality(Busy')
        /\ Settled' + Cardinality(Busy') <= count'
        /\ missed' + Cardinality(Busy') <= count'
    <3>1. Settled' = Settled + 1
      BY <1>0, <1>2, <2>1, SettledMoves DEF Settled, Numbers
    <3>2. QED
      BY <1>0, <1>2, <1>3, <2>1, <3>1 DEF Numbers
  <2>4. DrainInv'
    BY <1>1, <1>2, <2>1 DEF DrainInv
  <2>5. QED
    BY <1>3, <2>2, <2>3, <2>4 DEF CounterInv, CountInv
<1>7. QED
  BY <1>5, <1>6

(* The worker leaves the matches and their Observes alone.                 *)
LEMMA WorkerKeeps ==
  ASSUME CounterInv, UNCHANGED <<scorerVars, observing, missed>>,
         queue' \in Seq(Transition), Len(queue') \in Nat, Len(queue') <= Len(queue),
         hand' \in Transition \cup {NoPitch}, left' \in 0..QueueSize,
         worker' \in {"running", "draining", "done"},
         expired' \in BOOLEAN, stopped' \in BOOLEAN, closed' \in BOOLEAN,
         dropped' \in Nat, failed' \in Nat, arrived' \in Nat,
         arrived + Settled <= arrived' + Settled', Settled' \in Nat,
         Settled' <= Settled,
         DrainInv'
  PROVE  CounterInv'
<1>1. Numbers /\ SinkType /\ CountInv
  BY NumbersHold DEF CounterInv
<1>2. UNCHANGED <<m, undo, count, observing, missed>>
  BY DEF scorerVars
<1>3. Busy' = Busy /\ IsFiniteSet(Busy')
  BY <1>1, <1>2, BusyStays
<1>4. Held' \in {0, 1}
  BY DEF Held
<1>5. SinkType'
  <2>1. Len(queue') <= QueueSize
    BY <1>1, SinkAssumption DEF SinkType
  <2>2. QED
    BY <1>1, <1>2, <2>1 DEF SinkType
<1>6. /\ count' <= arrived' + Settled' + Cardinality(Busy')
      /\ Settled' + Cardinality(Busy') <= count'
      /\ missed' + Cardinality(Busy') <= count'
  <2>1. Cardinality(Busy') = Cardinality(Busy) /\ count' = count /\ missed' = missed
    BY <1>2, <1>3
  <2>2. Cardinality(Busy) \in Nat /\ Settled \in Nat /\ arrived \in Nat /\ count \in Nat
        /\ count <= arrived + Settled + Cardinality(Busy) /\ Settled + Cardinality(Busy) <= count
        /\ missed + Cardinality(Busy) <= count
    BY <1>1 DEF Numbers
  <2>3. count <= arrived' + Settled' + Cardinality(Busy) /\ Settled' + Cardinality(Busy) <= count
    BY <2>2, Balance
  <2>4. QED
    BY <2>1, <2>2, <2>3
<1>7. QED
  BY <1>3, <1>5, <1>6 DEF CounterInv, CountInv

LEMMA NoPitchIsNone == \A t \in Transition : t # NoPitch
<1> SUFFICES ASSUME NEW t \in Transition PROVE t # NoPitch
  OBVIOUS
<1>1. "match" \in DOMAIN t /\ "match" \notin DOMAIN NoPitch
  BY DEF Transition, NoPitch
<1>2. QED
  BY <1>1

LEMMA TakeKeeps ==
  ASSUME CounterInv, Take
  PROVE  CounterInv'
<1>1. Numbers /\ SinkType /\ DrainInv
  BY NumbersHold DEF CounterInv
<1>2. worker = "running" /\ hand = NoPitch /\ queue # <<>> /\ hand' = Head(queue) /\ queue' = Tail(queue)
      /\ UNCHANGED <<scorerVars, observing, worker, closeVars, dropped, failed, outVars, missed>>
  BY DEF Take
<1>3. hand' \in Transition /\ queue' \in Seq(Transition) /\ Len(queue') = Len(queue) - 1 /\ Len(queue') \in Nat
  BY <1>1, <1>2, SizesAreNatural
<1>4. Held = 0 /\ Held' \in {0, 1}
  BY <1>2 DEF Held
<1>5. Held' = 1
  <2>1. hand' # NoPitch
    BY <1>3, NoPitchIsNone
  <2>2. QED
    BY <2>1 DEF Held
<1>6. DrainInv'
  BY <1>1, <1>2 DEF DrainInv, closeVars
<1>7. UNCHANGED <<worker, left, expired, stopped, closed, dropped, failed, arrived>>
  BY <1>2 DEF closeVars, outVars
<1>8. /\ arrived + Settled <= arrived' + Settled' /\ Settled' \in Nat
      /\ Settled' <= Settled
      /\ Len(queue') <= Len(queue)
  <2>1. Settled' = Settled
    BY <1>1, <1>3, <1>4, <1>5, <1>7, SettledMoves DEF Settled, Numbers
  <2>2. QED
    BY <1>1, <1>3, <1>7, <2>1 DEF Numbers
<1>9. left' \in 0..QueueSize /\ worker' \in {"running", "draining", "done"}
      /\ expired' \in BOOLEAN /\ stopped' \in BOOLEAN /\ closed' \in BOOLEAN
      /\ dropped' \in Nat /\ failed' \in Nat /\ arrived' \in Nat
  BY <1>1, <1>7 DEF SinkType
<1>10. QED
  BY <1>2, <1>3, <1>6, <1>8, <1>9, WorkerKeeps

LEMMA PitchKeeps ==
  ASSUME CounterInv, Pitch
  PROVE  CounterInv'
<1>1. Numbers /\ SinkType /\ DrainInv
  BY NumbersHold DEF CounterInv
<1>2. hand # NoPitch /\ hand' = NoPitch
      /\ UNCHANGED <<scorerVars, observing, queue, worker, closeVars, dropped, missed>>
  BY DEF Pitch
<1>3. Held = 1 /\ Held' = 0
  BY <1>2 DEF Held
<1>4. PICK there \in BOOLEAN, refused \in BOOLEAN : (there \/ refused) /\ Published(there, refused)
  BY DEF Pitch
<1>5. /\ arrived' = IF there THEN arrived + 1 ELSE arrived
      /\ failed' = IF refused THEN failed + 1 ELSE failed
  BY <1>4 DEF Published, outVars
<1>6. UNCHANGED <<queue, worker, left, expired, stopped, closed, dropped>>
  BY <1>2 DEF closeVars
<1>7. arrived' \in Nat /\ failed' \in Nat
      /\ arrived + failed + 1 <= arrived' + failed' /\ failed' <= failed + 1
  BY <1>1, <1>4, <1>5 DEF Numbers
<1>8. /\ arrived + Settled <= arrived' + Settled' /\ Settled' \in Nat
      /\ Settled' <= Settled
      /\ Len(queue') <= Len(queue) /\ Len(queue') \in Nat
  <2>1. UNCHANGED <<queue, dropped>> /\ Len(queue') = Len(queue)
    BY <1>6
  <2>2. CASE refused
    <3>1. Settled' = Settled
      BY <1>1, <1>3, <1>5, <2>1, <2>2, SettledMoves DEF Settled, Numbers
    <3>2. arrived <= arrived'
      BY <1>1, <1>5 DEF Numbers
    <3>3. Settled \in Nat /\ arrived \in Nat /\ Len(queue) \in Nat
      BY <1>1 DEF Numbers
    <3>4. arrived + Settled <= arrived' + Settled' /\ Settled' <= Settled
      BY <1>7, <3>1, <3>2, <3>3, Gains
    <3>5. QED
      BY <2>1, <3>1, <3>3, <3>4
  <2>3. CASE ~refused
    <3>1. Settled' + 1 = Settled /\ Settled' \in Nat
      BY <1>1, <1>3, <1>5, <2>1, <2>3, SettledMoves DEF Settled, Numbers
    <3>2. arrived' = arrived + 1
      BY <1>4, <1>5, <2>3
    <3>3. Settled \in Nat /\ arrived \in Nat /\ Len(queue) \in Nat
      BY <1>1 DEF Numbers
    <3>4. arrived + Settled <= arrived' + Settled' /\ Settled' <= Settled
      BY <1>7, <3>1, <3>2, <3>3, Gains
    <3>5. QED
      BY <2>1, <3>1, <3>3, <3>4
  <2>4. QED
    BY <2>2, <2>3
<1>9. DrainInv'
  BY <1>1, <1>2, <1>6 DEF DrainInv
<1>10. queue' \in Seq(Transition) /\ left' \in 0..QueueSize /\ worker' \in {"running", "draining", "done"}
       /\ expired' \in BOOLEAN /\ stopped' \in BOOLEAN /\ closed' \in BOOLEAN /\ dropped' \in Nat
       /\ hand' \in Transition \cup {NoPitch}
  BY <1>1, <1>2, <1>6 DEF SinkType
<1>11. QED
  BY <1>2, <1>7, <1>8, <1>9, <1>10, WorkerKeeps

LEMMA DrainKeeps ==
  ASSUME CounterInv, Drain
  PROVE  CounterInv'
<1>1. Numbers /\ SinkType /\ DrainInv
  BY NumbersHold DEF CounterInv
<1>2. worker = "draining" /\ hand = NoPitch /\ left > 0 /\ stopped
      /\ UNCHANGED <<scorerVars, observing, expired, stopped, closed, failed, outVars, missed, arrived>>
  BY <1>1 DEF Drain, DrainInv, outVars
<1>3. Held = 0
  BY <1>2 DEF Held
<1>4. left \in 0..QueueSize /\ QueueSize \in Nat /\ ~closed /\ Len(queue) <= left + missed
  BY <1>1, <1>2, SinkAssumption DEF SinkType, DrainInv
<1>5. CASE queue = <<>>
  <2>1. worker' = "done" /\ UNCHANGED <<left, queue, hand, dropped>>
    BY <1>2, <1>5 DEF Drain
  <2>2. Held' = Held
    BY <2>1 DEF Held
  <2>3. Len(queue) = 0
    BY <1>5
  <2>4. DrainInv'
    BY <1>1, <1>2, <1>4, <2>1, <2>3 DEF DrainInv, Numbers
  <2>5. queue' \in Seq(Transition) /\ hand' \in Transition \cup {NoPitch} /\ left' \in 0..QueueSize
        /\ expired' \in BOOLEAN /\ stopped' \in BOOLEAN /\ closed' \in BOOLEAN
        /\ dropped' \in Nat /\ failed' \in Nat /\ arrived' \in Nat
    BY <1>1, <1>2, <2>1 DEF SinkType
  <2>6. /\ arrived + Settled <= arrived' + Settled' /\ Settled' \in Nat
        /\ Settled' <= Settled
        /\ Len(queue') <= Len(queue) /\ Len(queue') \in Nat
    <3>1. Settled' = Settled
      BY <1>2, <2>1, <2>2 DEF Settled
    <3>2. QED
      BY <1>1, <1>2, <2>1, <3>1 DEF Numbers
  <2>7. QED
    BY <1>2, <2>1, <2>4, <2>5, <2>6, WorkerKeeps
<1>6. CASE queue # <<>>
  <2>1. left' = left - 1 /\ queue' = Tail(queue) /\ worker' = worker
        /\ (IF expired THEN dropped' = dropped + 1 /\ hand' = hand ELSE hand' = Head(queue) /\ dropped' = dropped)
    BY <1>2, <1>6 DEF Drain
  <2>2. Head(queue) \in Transition /\ queue' \in Seq(Transition) /\ Len(queue') = Len(queue) - 1 /\ Len(queue') \in Nat
    BY <1>1, <1>6, <2>1, SizesAreNatural
  <2>3. Head(queue) # NoPitch
    BY <2>2, NoPitchIsNone
  <2>4. dropped' \in Nat /\ ((dropped' = dropped + 1 /\ Held' = Held) \/ (dropped' = dropped /\ Held' = Held + 1)) /\ Held' \in {0, 1} /\ hand' \in Transition \cup {NoPitch}
    <3>1. CASE expired
      BY <1>1, <1>2, <2>1, <3>1 DEF Held, Numbers
    <3>2. CASE ~expired
      BY <1>1, <1>2, <2>1, <2>2, <2>3, <3>2 DEF Held, Numbers
    <3>3. QED
      BY <3>1, <3>2
  <2>5. left' \in 0..QueueSize /\ Len(queue') <= left' + missed
    BY <1>1, <1>2, <1>4, <2>1, <2>2 DEF Numbers
  <2>6. DrainInv'
    BY <1>2, <1>4, <2>1, <2>5 DEF DrainInv
  <2>7. expired' \in BOOLEAN /\ stopped' \in BOOLEAN /\ closed' \in BOOLEAN
        /\ failed' \in Nat /\ arrived' \in Nat /\ worker' \in {"running", "draining", "done"}
    BY <1>1, <1>2, <2>1 DEF SinkType
  <2>8. /\ arrived + Settled <= arrived' + Settled' /\ Settled' \in Nat
        /\ Settled' <= Settled
        /\ Len(queue') <= Len(queue)
    <3>1. failed' = failed /\ arrived' = arrived
      BY <1>2
    <3>2. Settled' = Settled
      <4>1. CASE dropped' = dropped + 1 /\ Held' = Held
        BY <1>1, <1>3, <2>2, <2>4, <3>1, <4>1, SettledMoves DEF Settled, Numbers
      <4>2. CASE dropped' = dropped /\ Held' = Held + 1
        BY <1>1, <1>3, <2>2, <2>4, <3>1, <4>2, SettledMoves DEF Settled, Numbers
      <4>3. QED
        BY <2>4, <4>1, <4>2
    <3>3. QED
      BY <1>1, <2>2, <3>1, <3>2 DEF Numbers
  <2>9. QED
    BY <1>2, <2>2, <2>4, <2>5, <2>6, <2>7, <2>8, WorkerKeeps
<1>7. QED
  BY <1>5, <1>6

(* The drain begins and ends, and what Close and its deadline set.         *)
LEMMA ClosingKeeps ==
  ASSUME CounterInv, StartDrain \/ Drained \/ DeadlinePasses \/ Stop \/ Close
  PROVE  CounterInv'
<1>1. Numbers /\ SinkType /\ DrainInv
  BY NumbersHold DEF CounterInv
<1>2. UNCHANGED <<scorerVars, observing, queue, hand, dropped, failed, arrived, missed>>
  BY DEF StartDrain, Drained, DeadlinePasses, Stop, Close, outVars, closeVars
<1>3. Held' = Held
  BY <1>2 DEF Held
<1>4. /\ left' \in 0..QueueSize /\ worker' \in {"running", "draining", "done"}
      /\ expired' \in BOOLEAN /\ stopped' \in BOOLEAN /\ closed' \in BOOLEAN
      /\ DrainInv'
  <2>1. CASE StartDrain
    BY <1>1, <2>1, SinkAssumption DEF StartDrain, SinkType, DrainInv, Numbers
  <2>2. CASE Drained
    BY <1>1, <2>2 DEF Drained, SinkType, DrainInv, closeVars, Numbers
  <2>3. CASE DeadlinePasses
    BY <1>1, <2>3 DEF DeadlinePasses, SinkType, DrainInv
  <2>4. CASE Stop
    BY <1>1, <2>4 DEF Stop, SinkType, DrainInv
  <2>5. CASE Close
    BY <1>1, <2>5 DEF Close, SinkType, DrainInv
  <2>6. QED
    BY <2>1, <2>2, <2>3, <2>4, <2>5
<1>5. queue' \in Seq(Transition) /\ hand' \in Transition \cup {NoPitch}
      /\ dropped' \in Nat /\ failed' \in Nat /\ arrived' \in Nat
  BY <1>1, <1>2 DEF SinkType
<1>6. /\ arrived + Settled <= arrived' + Settled' /\ Settled' \in Nat
      /\ Settled' <= Settled
      /\ Len(queue') <= Len(queue) /\ Len(queue') \in Nat
  <2>1. Settled' = Settled
    BY <1>2, <1>3 DEF Settled
  <2>2. QED
    BY <1>1, <1>2, <2>1 DEF Numbers
<1>7. QED
  BY <1>2, <1>4, <1>5, <1>6, WorkerKeeps

(* t is what one event made of a match in state y.                         *)
Made(y, t) ==
  \/ t.kind = "undo"
  \/ Phase(y) # "playing" /\ t.kind \in {"confirmed", "warmup_over", "ends_changed", "serve_decided"}
  \/ /\ Phase(y) = "playing" /\ t.kind = ScoredKind(y, t.state)
     /\ \E p \in Player, delta \in {1, -1} :
          t.state = Scored(y, p, delta) /\ t.side = SideOf(PointsAfter(y, p, delta), p, delta)

SoundOnes == {y \in Match : Sound(y)}

LEMMA PushKeeps ==
  ASSUME SinkType, NEW x \in Matches, Push(x)
  PROVE  undo' \in [Matches -> Seq(SoundOnes)]
<1>1. m[x] \in SoundOnes /\ undo[x] \in Seq(SoundOnes)
  BY DEF SinkType, Sound, SoundOnes
<1> HIDE DEF SoundOnes
<1>2. <<m[x]>> \in Seq(SoundOnes) /\ Append(undo[x], m[x]) \in Seq(SoundOnes)
  BY <1>1
<1>3. Stacked(undo[x], m[x]) \in Seq(SoundOnes)
  BY <1>2 DEF Stacked
<1>4. undo \in [Matches -> Seq(SoundOnes)]
  BY DEF SinkType, SoundOnes
<1>5. QED
  BY <1>3, <1>4 DEF Push

(* Every call of the scorer that changes something emits one transition.   *)
LEMMA ScoresEmit ==
  ASSUME CounterInv, NEW x \in Matches, Scores(x)
  PROVE  \E kind \in Kind \ {None}, side \in Player \cup {None}, state \in SoundOnes :
           /\ Emits(x, kind, side, state) /\ undo' \in [Matches -> Seq(SoundOnes)]
           /\ Made(m[x], [match |-> x, n |-> count + 1, kind |-> kind, side |-> side, state |-> state])
<1>1. SinkType /\ Sound(m[x]) /\ undo \in [Matches -> Seq(SoundOnes)]
  BY DEF CounterInv, SinkType, SoundOnes
<1>2. \A y : y \in SoundOnes <=> Sound(y)
  BY DEF SoundOnes, Sound
<1>3. ASSUME NEW h \in Half, Confirm(x, h)
      PROVE  \E kind \in Kind \ {None}, side \in Player \cup {None}, state \in SoundOnes :
               /\ Emits(x, kind, side, state) /\ undo' \in [Matches -> Seq(SoundOnes)]
               /\ Made(m[x], [match |-> x, n |-> count + 1, kind |-> kind, side |-> side, state |-> state])
  <2> DEFINE kind == ConfirmedKind(m[x], h)
             side == IF BothPressed(m[x], h) THEN None ELSE PlayerAt(m[x], h)
             state == Confirmed(m[x], h)
  <2>1. Phase(m[x]) # "playing" /\ h \notin m[x].pressed /\ Emits(x, kind, side, state) /\ undo' = undo
    BY <1>3 DEF Confirm
  <2>2. kind \in {"confirmed", "warmup_over", "ends_changed"}
    BY DEF ConfirmedKind
  <2>3. side \in Player \cup {None}
    BY DEF PlayerAt, Opponent, Player
  <2>4. state \in SoundOnes
    BY <1>1, <1>2, <2>1, PressMakes
  <2> HIDE DEF kind, side, state
  <2>5. kind \in Kind \ {None}
    BY <2>2 DEF Kind, None
  <2>6. Made(m[x], [match |-> x, n |-> count + 1, kind |-> kind, side |-> side, state |-> state])
    BY <2>1, <2>2 DEF Made
  <2>7. QED
    BY <1>1, <2>1, <2>3, <2>4, <2>5, <2>6
<1>4. ASSUME NEW p \in Player, DecideServe(x, p)
      PROVE  \E kind \in Kind \ {None}, side \in Player \cup {None}, state \in SoundOnes :
               /\ Emits(x, kind, side, state) /\ undo' \in [Matches -> Seq(SoundOnes)]
               /\ Made(m[x], [match |-> x, n |-> count + 1, kind |-> kind, side |-> side, state |-> state])
  <2> DEFINE state == ServeDecided(m[x], p)
  <2>1. Phase(m[x]) # "playing" /\ Emits(x, "serve_decided", p, state) /\ Push(x)
    BY <1>4 DEF DecideServe
  <2>2. state \in SoundOnes /\ "serve_decided" \in Kind \ {None}
    BY <1>1, <1>2, PressMakes DEF Kind, None
  <2> HIDE DEF state
  <2>3. Made(m[x], [match |-> x, n |-> count + 1, kind |-> "serve_decided", side |-> p, state |-> state])
    BY <2>1 DEF Made
  <2>4. undo' \in [Matches -> Seq(SoundOnes)]
    BY <1>1, <2>1, PushKeeps
  <2>5. QED
    BY <2>1, <2>2, <2>3, <2>4
<1>5. ASSUME NEW p \in Player, NEW delta \in {1, -1}, Point(x, p, delta)
      PROVE  \E kind \in Kind \ {None}, side \in Player \cup {None}, state \in SoundOnes :
               /\ Emits(x, kind, side, state) /\ undo' \in [Matches -> Seq(SoundOnes)]
               /\ Made(m[x], [match |-> x, n |-> count + 1, kind |-> kind, side |-> side, state |-> state])
  <2> DEFINE state == Scored(m[x], p, delta)
             side == SideOf(PointsAfter(m[x], p, delta), p, delta)
             kind == ScoredKind(m[x], state)
  <2>1. Phase(m[x]) = "playing" /\ Emits(x, kind, side, state) /\ Push(x)
    BY <1>5 DEF Point
  <2>2. Sound(state) /\ side \in Player \cup {None}
    BY <1>1, <2>1, PointMakes
  <2>3. kind \in Kind \ {None}
    BY DEF ScoredKind, Kind, None
  <2>4. kind = ScoredKind(m[x], state) /\ state = Scored(m[x], p, delta)
        /\ side = SideOf(PointsAfter(m[x], p, delta), p, delta)
    OBVIOUS
  <2> HIDE DEF state, side, kind
  <2>5. Made(m[x], [match |-> x, n |-> count + 1, kind |-> kind, side |-> side, state |-> state])
    BY <2>1, <2>4 DEF Made
  <2>6. undo' \in [Matches -> Seq(SoundOnes)]
    BY <1>1, <2>1, PushKeeps
  <2>7. QED
    BY <1>2, <2>1, <2>2, <2>3, <2>5, <2>6
<1>6. ASSUME TakeBack(x)
      PROVE  \E kind \in Kind \ {None}, side \in Player \cup {None}, state \in SoundOnes :
               /\ Emits(x, kind, side, state) /\ undo' \in [Matches -> Seq(SoundOnes)]
               /\ Made(m[x], [match |-> x, n |-> count + 1, kind |-> kind, side |-> side, state |-> state])
  <2> DEFINE state == undo[x][Len(undo[x])]
  <2>1. undo[x] \in Seq(SoundOnes) /\ undo[x] # <<>> /\ Emits(x, "undo", None, state)
        /\ undo' = [undo EXCEPT ![x] = SubSeq(@, 1, Len(@) - 1)]
    BY <1>1, <1>6 DEF TakeBack
  <2> HIDE DEF SoundOnes
  <2>2. Len(undo[x]) \in Nat /\ Len(undo[x]) >= 1
    BY <2>1
  <2>3. state \in SoundOnes /\ SubSeq(undo[x], 1, Len(undo[x]) - 1) \in Seq(SoundOnes)
    BY <2>1, <2>2
  <2>4. undo' \in [Matches -> Seq(SoundOnes)]
    BY <1>1, <2>1, <2>3
  <2> HIDE DEF state
  <2>5. Made(m[x], [match |-> x, n |-> count + 1, kind |-> "undo", side |-> None, state |-> state])
    BY DEF Made
  <2>6. "undo" \in Kind \ {None}
    BY DEF Kind, None
  <2>7. QED
    BY <2>1, <2>3, <2>4, <2>5, <2>6
<1>7. QED
  BY <1>3, <1>4, <1>5, <1>6 DEF Scores

LEMMA ScoresKeep ==
  ASSUME CounterInv, NEW x \in Matches, Scores(x)
  PROVE  CounterInv'
<1>1. PICK kind \in Kind \ {None}, side \in Player \cup {None}, state \in SoundOnes :
        Emits(x, kind, side, state) /\ undo' \in [Matches -> Seq(SoundOnes)]
  BY ScoresEmit
<1>2. Sound(state)
  BY DEF SoundOnes
<1>3. QED
  BY <1>1, <1>2, EmitsKeeps DEF SoundOnes

LEMMA CounterInit ==
  ASSUME Init
  PROVE  CounterInv
<1>1. NewMatch \in Match /\ Sound(NewMatch) /\ [at |-> "idle"] \in Observed
  BY NewMatchIsSound DEF Sound, Observed
<1>2. Busy = {}
  BY DEF Init, Busy
<1>3. IsFiniteSet(Busy) /\ Cardinality(Busy) = 0
  BY <1>2, FS_EmptySet
<1>4. queue \in Seq(Transition) /\ Len(queue) = 0
  BY DEF Init
<1>5. Held = 0
  BY DEF Init, Held
<1>6. SinkType
  <2>1. \A x \in Matches : <<>> \in Seq({y \in Match : Sound(y)})
    OBVIOUS
  <2>2. m \in [Matches -> Match] /\ \A x \in Matches : Sound(m[x])
    BY <1>1 DEF Init
  <2>3. undo \in [Matches -> Seq({y \in Match : Sound(y)})]
    BY <2>1 DEF Init
  <2>4. observing \in [Matches -> Observed] /\ \A x \in Matches : observing[x].at = "idle"
    BY <1>1 DEF Init
  <2>5. QueueSize \in Nat /\ MaxTransitions \in Nat
    BY SinkAssumption
  <2>6. \A x \in Matches : observing[x].at # "idle" => observing[x].t.match = x
    BY <2>4
  <2>7. /\ Len(queue) <= QueueSize /\ left \in 0..QueueSize /\ count \in 0..MaxTransitions
        /\ dropped \in Nat /\ failed \in Nat /\ arrived \in Nat /\ missed \in Nat
    BY <1>4, <2>5 DEF Init
  <2>8. /\ hand \in Transition \cup {NoPitch} /\ worker \in {"running", "draining", "done"}
        /\ expired \in BOOLEAN /\ stopped \in BOOLEAN /\ closed \in BOOLEAN
    BY DEF Init
  <2>9. QED
    BY <1>4, <2>2, <2>3, <2>4, <2>6, <2>7, <2>8 DEF SinkType
<1>7. CountInv
  <2>1. Settled = 0
    BY <1>4, <1>5 DEF Settled, Init
  <2>2. QED
    BY <1>3, <2>1 DEF Init, CountInv
<1>8. DrainInv
  BY DEF Init, DrainInv
<1>9. QED
  BY <1>6, <1>7, <1>8 DEF CounterInv

LEMMA CounterStep ==
  ASSUME CounterInv, [Next]_vars
  PROVE  CounterInv'
<1>1. CASE \E x \in Matches : Scores(x)
  BY <1>1, ScoresKeep
<1>2. CASE \E x \in Matches : Check(x) \/ Send(x)
  BY <1>2, CheckKeeps, SendKeeps
<1>3. CASE Worker
  BY <1>3, TakeKeeps, PitchKeeps, DrainKeeps, ClosingKeeps DEF Worker
<1>4. CASE DeadlinePasses \/ Stop \/ Close
  BY <1>4, ClosingKeeps
<1>5. CASE UNCHANGED vars
  <2>1. UNCHANGED <<m, undo, count, observing, queue, hand, worker, left, expired, stopped, closed,
                    dropped, failed, arrived, missed>>
    BY <1>5 DEF vars, scorerVars, closeVars, outVars
  <2>2. UNCHANGED <<Busy, Held>>
    BY <2>1 DEF Busy, Held
  <2>3. UNCHANGED Settled
    BY <2>1, <2>2 DEF Settled
  <2>4. QED
    BY <2>1, <2>2, <2>3 DEF CounterInv, SinkType, CountInv, DrainInv
<1>6. QED
  BY <1>1, <1>2, <1>3, <1>4, <1>5 DEF Next

(* The counters' invariant: every transition is with an Observe, queued,   *)
(* being published, on the stream or counted, and what a stopped worker    *)
(* leaves in the queue came after the stop.                                *)
THEOREM SinkCounters == Spec => []CounterInv
BY CounterInit, CounterStep, PTL DEF Spec

(* Type correctness: the sink's queue never grows beyond its size, and no  *)
(* counter counts a transition there has not been.                         *)
THEOREM SinkTypeOK == Spec => []TypeOK
<1> DEFINE Few == corrections \in 0..MaxCorrections
<1>1. CounterInv /\ Few => TypeOK
  <2> SUFFICES ASSUME CounterInv, Few PROVE TypeOK
    OBVIOUS
  <2>1. SinkType /\ CountInv /\ DrainInv /\ Numbers
    BY NumbersHold DEF CounterInv
  <2>2. undo \in [Matches -> Seq(Match)]
    <3>1. \A u \in Seq({y \in Match : Sound(y)}) : u \in Seq(Match)
      <4> SUFFICES ASSUME NEW u \in Seq({y \in Match : Sound(y)}) PROVE u \in Seq(Match)
        OBVIOUS
      <4>1. Len(u) \in Nat /\ u \in [1..Len(u) -> {y \in Match : Sound(y)}]
        OBVIOUS
      <4>2. u \in [1..Len(u) -> Match]
        BY <4>1
      <4>3. QED
        BY <4>1, <4>2, SeqDef
    <3>2. QED
      BY <2>1, <3>1 DEF SinkType
  <2>3. \A x \in Matches : observing[x].at \in {"idle", "check", "send"}
    BY <2>1 DEF SinkType, Observed
  <2>4. dropped <= count /\ failed <= count
    BY <2>1 DEF Numbers, Settled
  <2>5. missed <= count /\ count \in 0..MaxTransitions /\ MaxTransitions \in Nat
    BY <2>1, SinkAssumption DEF Numbers, SinkType
  <2>6. {dropped, failed, count, missed} \subseteq 0..MaxTransitions
    BY <2>1, <2>4, <2>5 DEF Numbers
  <2>7. {expired, stopped, closed} \subseteq BOOLEAN
    BY <2>1 DEF SinkType
  <2>8. QED
    BY <2>1, <2>2, <2>3, <2>6, <2>7 DEF SinkType, DrainInv, TypeOK
<1>2. Init => Few
  BY SinkAssumption DEF Init
<1>3. Few /\ [Next]_vars => Few'
  <2> SUFFICES ASSUME Few, [Next]_vars PROVE Few'
    OBVIOUS
  <2>1. UNCHANGED corrections \/ Corrects
    BY DEF Next, vars, scorerVars, Scores, Confirm, DecideServe, Point, TakeBack, Check, Send, Worker, Take, Pitch,
           StartDrain, Drain, Drained, DeadlinePasses, Stop, Close
  <2>2. QED
    BY <2>1, SinkAssumption DEF Corrects
<1>4. Spec => []Few
  BY <1>2, <1>3, PTL DEF Spec
<1>5. QED
  BY <1>1, <1>4, SinkCounters, PTL

(* What the sink counts at its end accounts for every transition: one that *)
(* is not on the panel's stream was dropped or failed and is in a counter, *)
(* but for those queued after it was stopped (Observe, drain, sink.go).    *)
THEOREM SinkLossesAreCounted == Spec => []LossesAreCounted
<1>1. CounterInv => LossesAreCounted
  <2> SUFFICES ASSUME CounterInv, closed, Underway = 0 PROVE count - arrived <= dropped + failed + missed
    BY DEF LossesAreCounted
  <2>1. DrainInv /\ Numbers /\ Underway = Cardinality(Busy)
    BY NumbersHold DEF CounterInv, Underway, Busy
  <2>2. hand = NoPitch /\ Len(queue) <= missed
    BY <2>1 DEF DrainInv
  <2>3. Held = 0
    BY <2>2 DEF Held
  <2>4. Settled <= dropped + failed + missed
    BY <2>1, <2>2, <2>3 DEF Numbers, Settled
  <2>5. count <= arrived + Settled
    BY <2>1 DEF Numbers
  <2>6. QED
    BY <2>1, <2>4, <2>5 DEF Numbers
<1>2. QED
  BY <1>1, SinkCounters, PTL

-----------------------------------------------------------------------------
(* What the panel announces.                                               *)

(* Transitions the stream has not got yet.                                 *)
Pending == {queue[i] : i \in 1..Len(queue)} \cup (IF hand = NoPitch THEN {} ELSE {hand})
           \cup {observing[x].t : x \in Busy}

Linked(s, t) == s.match = t.match /\ t.n = s.n + 1 => Made(s.state, t)

(* s is a transition of those so far; whatever is pending right after it   *)
(* followed from it, and the next one will.                                *)
Fits(s, pending, scores, sofar) ==
  /\ s \in Transition /\ Sound(s.state) /\ s.n <= sofar
  /\ s.n = sofar => s.state = scores[s.match]
  /\ \A t \in pending : Linked(s, t)

Announced(x, s, pending, scores, sofar) == s = NoPitch \/ (s.match = x /\ Fits(s, pending, scores, sofar))

AnnounceInv ==
  /\ shown = [x \in Matches |-> shown[x]]
  /\ \A s \in Pending : Fits(s, Pending, m, count)
  /\ \A x \in Matches : Announced(x, shown[x], Pending, m, count)

LEMMA PendingShrinks ==
  ASSUME AnnounceInv, UNCHANGED <<m, count, shown>>, Pending' \subseteq Pending
  PROVE  AnnounceInv'
<1>1. \A s : Fits(s, Pending, m, count) => Fits(s, Pending', m, count)
  BY DEF Fits
<1>2. \A s \in Pending' : Fits(s, Pending', m', count')
  BY <1>1 DEF AnnounceInv
<1>3. \A x \in Matches : Announced(x, shown[x], Pending', m, count)
  BY <1>1 DEF AnnounceInv, Announced
<1>4. QED
  BY <1>2, <1>3 DEF AnnounceInv

(* A match moves on, or back.                                              *)
LEMMA EmitsLinks ==
  ASSUME CounterInv, AnnounceInv, NEW x \in Matches, NEW kind \in Kind \ {None},
         NEW side \in Player \cup {None}, NEW state, Sound(state), Emits(x, kind, side, state),
         Made(m[x], [match |-> x, n |-> count + 1, kind |-> kind, side |-> side, state |-> state])
  PROVE  AnnounceInv'
<1> DEFINE t == [match |-> x, n |-> count + 1, kind |-> kind, side |-> side, state |-> state]
           o == [at |-> "check", t |-> t]
<1>1. SinkType /\ count \in Nat
  BY NumbersHold DEF CounterInv, Numbers
<1>2. observing[x].at = "idle" /\ count' = count + 1 /\ m' = [m EXCEPT ![x] = state]
      /\ observing' = [observing EXCEPT ![x] = o] /\ UNCHANGED <<queue, hand, shown>>
  BY DEF Emits, outVars
<1>3. t \in Transition
  <2>1. count + 1 \in Nat /\ state \in Match
    BY <1>1 DEF Sound
  <2>2. QED
    BY <2>1 DEF Transition
<1>4. t.n = count + 1 /\ t.match = x /\ t.state = state /\ Made(m[x], t)
  OBVIOUS
<1>5. o.at = "check" /\ o.t = t
  OBVIOUS
<1> HIDE DEF t, o
<1>6. Pending' = Pending \cup {t}
  <2>1. Busy' = Busy \cup {x} /\ x \notin Busy
    BY <1>1, <1>2, <1>5 DEF Busy, SinkType
  <2>2. {observing'[y].t : y \in Busy'} = {observing[y].t : y \in Busy} \cup {t}
    <3>1. observing'[x].t = t /\ \A y \in Busy : observing'[y] = observing[y]
      BY <1>1, <1>2, <1>5, <2>1 DEF SinkType, Busy
    <3>2. QED
      BY <2>1, <3>1
  <2>3. QED
    BY <1>2, <2>2 DEF Pending
<1>7. m'[x] = state /\ \A y \in Matches : y # x => m'[y] = m[y]
  BY <1>1, <1>2 DEF SinkType
<1>8. \A s : Fits(s, Pending, m, count) => Linked(s, t) /\ Fits(s, Pending', m', count')
  <2> SUFFICES ASSUME NEW s, Fits(s, Pending, m, count) PROVE Linked(s, t) /\ Fits(s, Pending', m', count')
    OBVIOUS
  <2>1. s \in Transition /\ s.n \in Nat /\ s.n <= count
    BY DEF Fits, Transition
  <2>2. Linked(s, t)
    <3> SUFFICES ASSUME s.match = x, s.n = count PROVE Made(s.state, t)
      BY <1>1, <1>4, <2>1 DEF Linked
    <3>1. s.state = m[x]
      BY DEF Fits
    <3>2. QED
      BY <1>4, <3>1
  <2>3. s.n <= count' /\ s.n # count'
    BY <1>1, <1>2, <2>1
  <2>4. QED
    BY <1>6, <2>1, <2>2, <2>3 DEF Fits
<1>9. Fits(t, Pending', m', count')
  <2>1. \A s \in Pending' : s.n \in Nat /\ s.n # t.n + 1
    <3>1. \A s \in Pending : s.n \in Nat /\ s.n <= count
      BY DEF AnnounceInv, Fits, Transition
    <3>2. QED
      BY <1>1, <1>4, <1>6, <3>1
  <2>2. \A s \in Pending' : Linked(t, s)
    BY <2>1 DEF Linked
  <2>3. QED
    BY <1>1, <1>2, <1>3, <1>4, <1>7, <2>2 DEF Fits
<1>10. \A s \in Pending' : Fits(s, Pending', m', count')
  BY <1>6, <1>8, <1>9 DEF AnnounceInv
<1>11. \A y \in Matches : Announced(y, shown[y], Pending', m', count')
  BY <1>8 DEF AnnounceInv, Announced
<1>12. QED
  BY <1>2, <1>10, <1>11 DEF AnnounceInv

(* An Observe hands over or drops, the worker takes or drops.              *)
LEMMA HandoverLinks ==
  ASSUME CounterInv, AnnounceInv, NEW x \in Matches, Check(x) \/ Send(x)
  PROVE  AnnounceInv'
<1>1. SinkType /\ UNCHANGED <<m, count, shown, hand>>
  BY DEF CounterInv, Check, Send, scorerVars, outVars
<1>2. observing[x].at # "idle" /\ observing[x] \in Observed
  BY <1>1 DEF Check, Send, SinkType
<1>3. observing[x].t \in Pending
  BY <1>2 DEF Pending, Busy
<1>4. \A y \in Matches : observing'[y].at # "idle" => observing[y].at # "idle" /\ observing'[y].t = observing[y].t
  <2>1. CASE Returns(x)
    BY <1>1, <2>1 DEF Returns, SinkType
  <2>2. CASE observing' = [observing EXCEPT ![x].at = "send"]
    <3> DEFINE o == [observing[x] EXCEPT !.at = "send"]
    <3>1. o.t = observing[x].t
      BY <1>2 DEF Observed
    <3>2. observing' = [observing EXCEPT ![x] = o]
      BY <2>2
    <3> HIDE DEF o
    <3>3. QED
      BY <1>1, <1>2, <3>1, <3>2 DEF SinkType
  <2>3. QED
    BY <2>1, <2>2 DEF Check, Send
<1>5. {observing'[y].t : y \in Busy'} \subseteq {observing[y].t : y \in Busy}
  BY <1>4 DEF Busy
<1>6. \A i \in 1..Len(queue') : queue'[i] \in Pending
  <2>1. CASE queue' = queue
    BY <2>1 DEF Pending
  <2>2. CASE queue' = Append(queue, observing[x].t)
    <3>1. queue \in Seq(Transition)
      BY <1>1 DEF SinkType
    <3>2. Len(queue) \in Nat /\ Len(queue') = Len(queue) + 1
          /\ \A i \in 1..Len(queue') : queue'[i] = IF i <= Len(queue) THEN queue[i] ELSE observing[x].t
      BY <2>2, <3>1
    <3>3. QED
      BY <1>3, <3>2 DEF Pending
  <2>3. QED
    BY <2>1, <2>2 DEF Check, Send
<1>7. Pending' \subseteq Pending
  <2>1. {queue'[i] : i \in 1..Len(queue')} \subseteq Pending
    BY <1>6
  <2>2. QED
    BY <1>1, <1>5, <2>1 DEF Pending
<1>8. QED
  BY <1>1, <1>7, PendingShrinks

LEMMA WorkerLinks ==
  ASSUME CounterInv, AnnounceInv, Take \/ Drain
  PROVE  AnnounceInv'
<1>1. SinkType /\ UNCHANGED <<m, count, shown, observing>>
  BY DEF CounterInv, Take, Drain, scorerVars, outVars
<1>2. Busy' = Busy
  BY <1>1 DEF Busy
<1>3. (queue' = queue /\ hand' = hand)
      \/ (queue # <<>> /\ queue' = Tail(queue) /\ (hand' = hand \/ hand' = Head(queue)))
  BY DEF Take, Drain
<1>4. CASE queue' = queue /\ hand' = hand
  BY <1>1, <1>2, <1>4, PendingShrinks DEF Pending
<1>5. CASE queue # <<>> /\ queue' = Tail(queue) /\ (hand' = hand \/ hand' = Head(queue))
  <2>1. /\ Len(queue) \in Nat /\ Len(queue) >= 1 /\ Head(queue) = queue[1]
        /\ Len(queue') = Len(queue) - 1 /\ \A i \in 1..Len(queue') : queue'[i] = queue[i + 1]
    BY <1>1, <1>5 DEF SinkType
  <2>2. \A i \in 1..Len(queue') : i + 1 \in 1..Len(queue)
    BY <2>1
  <2>3. {queue'[i] : i \in 1..Len(queue')} \subseteq Pending
    BY <2>1, <2>2 DEF Pending
  <2>4. Head(queue) \in Pending
    BY <2>1 DEF Pending
  <2>5. (IF hand' = NoPitch THEN {} ELSE {hand'}) \subseteq Pending
    BY <1>5, <2>4 DEF Pending
  <2>6. Pending' \subseteq Pending
    BY <1>1, <1>2, <2>3, <2>5 DEF Pending
  <2>7. QED
    BY <1>1, <2>6, PendingShrinks
<1>6. QED
  BY <1>3, <1>4, <1>5

LEMMA PitchLinks ==
  ASSUME CounterInv, AnnounceInv, Pitch
  PROVE  AnnounceInv'
<1>1. SinkType /\ UNCHANGED <<m, count, observing, queue>> /\ hand # NoPitch /\ hand' = NoPitch
  BY DEF CounterInv, Pitch, scorerVars
<1>2. Busy' = Busy
  BY <1>1 DEF Busy
<1>3. Pending' \subseteq Pending /\ hand \in Pending
  BY <1>1, <1>2 DEF Pending
<1>4. hand \in Transition /\ hand.match \in Matches
  BY <1>1 DEF SinkType, Transition
<1>5. \A s : Fits(s, Pending, m, count) => Fits(s, Pending', m', count')
  BY <1>1, <1>3 DEF Fits
<1>6. Fits(hand, Pending', m', count') /\ \A s \in Pending' : Fits(s, Pending', m', count')
  BY <1>3, <1>5 DEF AnnounceInv
<1>7. \A x \in Matches : Announced(x, shown[x], Pending', m', count')
  BY <1>5 DEF AnnounceInv, Announced
<1>8. shown' = shown \/ shown' = [shown EXCEPT ![hand.match] = hand]
  BY DEF Pitch, Published, outVars
<1>9. CASE shown' = shown
  BY <1>6, <1>7, <1>9 DEF AnnounceInv
<1>10. CASE shown' = [shown EXCEPT ![hand.match] = hand]
  <2>1. shown' = [x \in Matches |-> shown'[x]]
    BY <1>10 DEF AnnounceInv
  <2>2. \A x \in Matches : shown'[x] = IF x = hand.match THEN hand ELSE shown[x]
    BY <1>10 DEF AnnounceInv
  <2>3. Announced(hand.match, hand, Pending', m', count')
    BY <1>4, <1>6 DEF Announced
  <2>4. \A x \in Matches : Announced(x, shown'[x], Pending', m', count')
    BY <1>7, <2>2, <2>3
  <2>5. QED
    BY <1>6, <2>1, <2>4 DEF AnnounceInv
<1>11. QED
  BY <1>8, <1>9, <1>10

LEMMA AnnounceInit ==
  ASSUME Init
  PROVE  AnnounceInv
<1>1. Pending = {}
  <2>1. queue = <<>> /\ hand = NoPitch /\ Busy = {}
    BY DEF Init, Busy
  <2>2. QED
    BY <2>1 DEF Pending
<1>2. QED
  BY <1>1 DEF Init, AnnounceInv, Announced

LEMMA AnnounceStep ==
  ASSUME CounterInv, AnnounceInv, [Next]_vars
  PROVE  AnnounceInv'
<1>1. ASSUME NEW x \in Matches, Scores(x)
      PROVE  AnnounceInv'
  <2>1. PICK kind \in Kind \ {None}, side \in Player \cup {None}, state \in SoundOnes :
          /\ Emits(x, kind, side, state)
          /\ Made(m[x], [match |-> x, n |-> count + 1, kind |-> kind, side |-> side, state |-> state])
    BY <1>1, ScoresEmit
  <2>2. Sound(state)
    BY DEF SoundOnes
  <2>3. QED
    BY <2>1, <2>2, EmitsLinks
<1>3. CASE \E x \in Matches : Check(x) \/ Send(x)
  BY <1>3, HandoverLinks
<1>4. CASE Take \/ Drain
  BY <1>4, WorkerLinks
<1>5. CASE Pitch
  BY <1>5, PitchLinks
<1>6. CASE StartDrain \/ Drained \/ DeadlinePasses \/ Stop \/ Close \/ UNCHANGED vars
  <2>1. UNCHANGED <<m, count, shown, observing, queue, hand>>
    BY <1>6 DEF StartDrain, Drained, DeadlinePasses, Stop, Close, vars, scorerVars, outVars
  <2>2. Busy' = Busy
    BY <2>1 DEF Busy
  <2>3. Pending' = Pending
    BY <2>1, <2>2 DEF Pending
  <2>4. QED
    BY <2>1, <2>3, PendingShrinks
<1>7. QED
  BY <1>1, <1>3, <1>4, <1>5, <1>6 DEF Next, Worker

(* A message names the stake of the one player who may take something.     *)
LEMMA StakeIsNamed ==
  ASSUME NEW s, Sound(s.state), NEW p \in Player
  PROVE  /\ StakeOf(s) = [stake |-> "match_point", of |-> p] <=> MatchStake(s.state, p)
         /\ StakeOf(s) = [stake |-> "set_point", of |-> p] <=> Stake(s.state, p) /\ ~MatchStake(s.state, p)
<1>1. \A q \in Player : Stake(s.state, q) => \A r \in Player : Stake(s.state, r) => r = q
  <2> SUFFICES ASSUME NEW q \in Player, Stake(s.state, q) PROVE \A r \in Player : Stake(s.state, r) => r = q
    OBVIOUS
  <2>1. s.state \in Match /\ Phase(s.state) = "playing" /\ InPlay(s.state)
    BY DEF Stake, Phase, Sound
  <2>2. 1 \in {1, -1}
    OBVIOUS
  <2>3. ~Stake(s.state, Opponent(q))
    BY <2>1, <2>2, OnlyTheStakedTakes
  <2>4. QED
    BY <2>3, PlayersAreTwo
<1>2. CASE ~\E q \in Player : Stake(s.state, q)
  <2>1. StakeOf(s) = [stake |-> None, of |-> None]
    BY <1>2 DEF StakeOf
  <2>2. StakeOf(s).stake = None
    BY <2>1
  <2>3. ~Stake(s.state, p) /\ ~MatchStake(s.state, p)
    BY <1>2 DEF MatchStake
  <2>4. StakeOf(s) # [stake |-> "match_point", of |-> p] /\ StakeOf(s) # [stake |-> "set_point", of |-> p]
    <3>1. StakeOf(s).stake # "match_point" /\ StakeOf(s).stake # "set_point"
      BY <2>2 DEF None
    <3>2. QED
      BY <3>1
  <2>5. QED
    BY <2>3, <2>4
<1>3. ASSUME NEW q \in Player, Stake(s.state, q)
      PROVE  /\ StakeOf(s) = [stake |-> "match_point", of |-> p] <=> MatchStake(s.state, p)
             /\ StakeOf(s) = [stake |-> "set_point", of |-> p] <=> Stake(s.state, p) /\ ~MatchStake(s.state, p)
  <2> DEFINE r == CHOOSE z \in Player : Stake(s.state, z)
  <2>1. r \in Player /\ Stake(s.state, r)
    BY <1>3
  <2>2. r = q
    BY <1>1, <1>3, <2>1
  <2>3. StakeOf(s) = [stake |-> IF MatchStake(s.state, q) THEN "match_point" ELSE "set_point", of |-> q]
    <3>1. StakeOf(s) = [stake |-> IF MatchStake(s.state, r) THEN "match_point" ELSE "set_point", of |-> r]
      BY <1>3 DEF StakeOf
    <3> HIDE DEF r
    <3>2. QED
      BY <2>2, <3>1
  <2>4. StakeOf(s).stake = (IF MatchStake(s.state, q) THEN "match_point" ELSE "set_point") /\ StakeOf(s).of = q
    BY <2>3
  <2>5. p # q => ~Stake(s.state, p)
    BY <1>1, <1>3
  <2>6. QED
    BY <1>3, <2>3, <2>4, <2>5 DEF MatchStake
<1>4. QED
  BY <1>2, <1>3

LEMMA NobodyIsNamed ==
  ASSUME NEW s, NEW p, p \notin Player \/ Phase(s.state) # "playing",
         NEW what \in {"match_point", "set_point"}
  PROVE  StakeOf(s) # [stake |-> what, of |-> p]
<1>1. CASE ~\E q \in Player : Stake(s.state, q)
  <2>1. StakeOf(s) = [stake |-> None, of |-> None]
    BY <1>1 DEF StakeOf
  <2>2. StakeOf(s).stake = None
    BY <2>1
  <2>3. None # what
    BY DEF None
  <2> DEFINE named == [stake |-> what, of |-> p]
  <2>4. named.stake = what
    OBVIOUS
  <2> HIDE DEF named
  <2>5. StakeOf(s) # named
    BY <2>2, <2>3, <2>4
  <2>6. QED
    BY <2>5 DEF named
<1>2. CASE \E q \in Player : Stake(s.state, q)
  <2>1. p \notin Player
    BY <1>2 DEF Stake
  <2> DEFINE r == CHOOSE q \in Player : Stake(s.state, q)
  <2>2. r \in Player
    BY <1>2
  <2>3. StakeOf(s) = [stake |-> IF MatchStake(s.state, r) THEN "match_point" ELSE "set_point", of |-> r]
    BY <1>2 DEF StakeOf
  <2> HIDE DEF r
  <2>4. StakeOf(s).of = r
    BY <2>3
  <2> DEFINE named == [stake |-> what, of |-> p]
  <2>5. named.of = p
    OBVIOUS
  <2> HIDE DEF named
  <2>6. StakeOf(s) # named
    BY <2>1, <2>2, <2>4, <2>5
  <2>7. QED
    BY <2>6 DEF named
<1>3. QED
  BY <1>1, <1>2

(* Two messages in a row agree: nobody takes a set or the match who was    *)
(* not announced to hold set or match point, and whoever was and scores    *)
(* takes it; so a display that knows no rules shows the right banner       *)
(* (stakeOf, Title, sink.go).                                              *)
THEOREM SinkStakeWasAnnounced == Spec => StakeWasAnnounced
<1> DEFINE Agree(x) ==
             LET before == Message(shown[x])
                 after  == Message(shown'[x])
                 taken  == after.tags.side
             IN  shown[x] # NoPitch /\ shown'[x] # shown[x] =>
                   (after.n = before.n + 1 /\ after.tags.transition # "undo" =>
                     /\ after.title.says = "WIN" <=> before.stake = [stake |-> "match_point", of |-> taken]
                     /\ after.title.says = "SET" <=> before.stake = [stake |-> "set_point", of |-> taken]
                     /\ after.title.says = "WIN" => after.tags.winner = taken /\ after.tags.serve = None)
<1>1. ASSUME CounterInv, AnnounceInv, [Next]_vars, NEW x \in Matches
      PROVE  Agree(x)
  <2>1. CASE shown'[x] = shown[x]
    BY <2>1
  <2>2. CASE shown'[x] # shown[x]
    <3>1. Pitch
      BY <1>1, <2>2 DEF Next, Worker, vars, outVars, Scores, Confirm, DecideServe, Point, TakeBack, Emits, Check, Send,
                        Take, StartDrain, Drain, Drained, DeadlinePasses, Stop, Close
    <3>2. hand # NoPitch /\ shown' = [shown EXCEPT ![hand.match] = hand]
      BY <2>2, <3>1 DEF Pitch, Published, outVars
    <3>3. hand \in Pending /\ hand \in Transition
      BY <1>1, <3>2 DEF Pending, CounterInv, SinkType
    <3>4. x = hand.match /\ shown'[x] = hand
      BY <1>1, <2>2, <3>2 DEF AnnounceInv
    <3> DEFINE s == shown[x]
               p == hand.side
    <3>5. /\ Message(hand).n = hand.n /\ Message(hand).tags.transition = hand.kind
          /\ Message(hand).tags.side = p /\ Message(hand).title.says = Title(hand).says
          /\ Message(hand).tags.winner = (IF hand.state.complete THEN hand.state.winner ELSE None)
          /\ hand.state.complete => Message(hand).tags.serve = None
      BY DEF Message, Tags
    <3>6. Title(hand).says = IF hand.kind = "set_won" THEN "SET" ELSE IF hand.kind = "match_won" THEN "WIN" ELSE ""
      BY DEF Title
    <3>7. Message(s).n = s.n /\ Message(s).stake = StakeOf(s)
      BY DEF Message
    <3>8. SUFFICES ASSUME s # NoPitch, hand.n = s.n + 1, hand.kind # "undo"
                   PROVE  /\ hand.kind = "match_won" <=> StakeOf(s) = [stake |-> "match_point", of |-> p]
                          /\ hand.kind = "set_won" <=> StakeOf(s) = [stake |-> "set_point", of |-> p]
                          /\ hand.kind = "match_won" => hand.state.complete /\ hand.state.winner = p
      BY <3>4, <3>5, <3>6, <3>7
    <3>9. s.match = x /\ Sound(s.state) /\ Made(s.state, hand)
      BY <1>1, <3>3, <3>4, <3>8 DEF AnnounceInv, Announced, Fits, Linked
    <3> HIDE DEF s
    <3>10. CASE Phase(s.state) # "playing" /\ hand.kind \in {"confirmed", "warmup_over", "ends_changed", "serve_decided"}
      BY <3>10, NobodyIsNamed
    <3>11. ASSUME Phase(s.state) = "playing", hand.kind = ScoredKind(s.state, hand.state),
                  NEW q \in Player, NEW delta \in {1, -1}, hand.state = Scored(s.state, q, delta),
                  p = SideOf(PointsAfter(s.state, q, delta), q, delta)
           PROVE  /\ hand.kind = "match_won" <=> StakeOf(s) = [stake |-> "match_point", of |-> p]
                  /\ hand.kind = "set_won" <=> StakeOf(s) = [stake |-> "set_point", of |-> p]
                  /\ hand.kind = "match_won" => hand.state.complete /\ hand.state.winner = p
      <4> HIDE DEF p
      <4>1. /\ p \in Player =>
                 /\ hand.state.complete <=> MatchStake(s.state, p)
                 /\ hand.state.complete => hand.state.winner = p
                 /\ ~hand.state.complete => (hand.state.setIndex # s.state.setIndex <=> Stake(s.state, p))
            /\ p \notin Player => ~hand.state.complete /\ hand.state.setIndex = s.state.setIndex
        BY <3>9, <3>11, PointMakes
      <4>2. /\ hand.kind = "match_won" <=> hand.state.complete
            /\ hand.kind = "set_won" <=> ~hand.state.complete /\ hand.state.setIndex # s.state.setIndex
        BY <3>11 DEF ScoredKind
      <4>3. CASE p \in Player
        <5>1. /\ StakeOf(s) = [stake |-> "match_point", of |-> p] <=> MatchStake(s.state, p)
              /\ StakeOf(s) = [stake |-> "set_point", of |-> p] <=> Stake(s.state, p) /\ ~MatchStake(s.state, p)
          BY <3>9, <4>3, StakeIsNamed
        <5>2. QED
          BY <4>1, <4>2, <4>3, <5>1
      <4>4. CASE p \notin Player
        BY <4>1, <4>2, <4>4, NobodyIsNamed
      <4>5. QED
        BY <4>3, <4>4
    <3>12. QED
      BY <3>8, <3>9, <3>10, <3>11 DEF Made
  <2>3. QED
    BY <2>1, <2>2
<1>2. CounterInv /\ AnnounceInv /\ [Next]_vars => [\A x \in Matches : Agree(x)]_vars
  BY <1>1
<1>3. QED
  BY <1>2, CounterInit, CounterStep, AnnounceInit, AnnounceStep, PTL DEF Spec, StakeWasAnnounced

-----------------------------------------------------------------------------
(* The hub and its streams.                                                *)

(* The newest event of match x in q has version v.                         *)
Holds(q, x) == \E i \in 1..Len(q) : q[i].match = x
Latest(q, x, v) ==
  \A i \in 1..Len(q) :
    q[i].match = x /\ (\A j \in 1..Len(q) : j > i => q[j].match # x) => q[i].version = v
HasEnd(q, x) == \E i \in 1..Len(q) : q[i].match = x /\ Final(q[i])

LiveEvent == [kind : {"transition", "snapshot", "started", "ended"}, match : Ids, version : Nat,
              complete : BOOLEAN]

(* The part of LiveTypeOK the rest needs: MaxVersion bounds a sum.         *)
LiveType ==
  /\ made \in 0..MaxMatches /\ version \in [Ids -> Nat]
  /\ over \in [Ids -> BOOLEAN] /\ ended \in [Ids -> BOOLEAN]
  /\ saying \subseteq LiveEvent
  /\ pc \in [Streams -> {"away", "follow", "snapshot", "loop"}]
  /\ current \in [Streams -> Ids \cup {0}]
  /\ events \in [Streams -> Seq(LiveEvent)] /\ \A s \in Streams : Len(events[s]) <= Buffer
  /\ wrote \in [Streams -> LiveEvent \cup {NoMatch}]
  /\ lost \in [Streams -> BOOLEAN] /\ stale \subseteq Ids /\ crowded \in BOOLEAN

(* Announced are starts and ends.  A stream that waits for events has      *)
(* written of the match it is on, and a match's stream stays on its match. *)
StreamsFit ==
  /\ \A ev \in saying : ev.kind # "transition"
  /\ \A s \in Streams : /\ pc[s] = "away" => events[s] = <<>>
                        /\ pc[s] = "snapshot" => current[s] # 0
                        /\ pc[s] = "loop" => wrote[s].match = current[s]
  /\ \A s \in MatchStreams : /\ pc[s] # "follow"
                             /\ pc[s] # "away" => current[s] # 0

(* A match's stream: all its events are of the match, the newest has its   *)
(* version, and once all are read what was written has it.                 *)
OwnIsLatest ==
  \A s \in MatchStreams :
    /\ \A i \in 1..Len(events[s]) : events[s][i].match = current[s]
    /\ pc[s] # "away" /\ events[s] # <<>> => events[s][Len(events[s])].version = version[current[s]]
    /\ pc[s] = "loop" /\ events[s] = <<>> => wrote[s].version = version[current[s]]

(* The table's stream, of every match that no announcement was late for.   *)
TableIsLatest ==
  \A s \in TableStreams, x \in Ids \ stale : ~lost[s] =>
    /\ Latest(events[s], x, version[x])
    /\ pc[s] = "loop" /\ wrote[s].match = x /\ ~Holds(events[s], x) => wrote[s].version = version[x]

(* Of the match it is on, the table's stream is still to hear the end, if  *)
(* it does not run.                                                        *)
EndIsTold ==
  \A s \in TableStreams :
    ~lost[s] /\ pc[s] \in {"snapshot", "loop"} /\ current[s] # 0 =>
      \/ current[s] \in Running
      \/ HasEnd(events[s], current[s])
      \/ \E ev \in saying : ev.match = current[s] /\ ev.kind = "ended"

(* While matches run one at a time, a stream on none is still to hear of   *)
(* the one that runs.                                                      *)
Alone == ~crowded => \A x, y \in Running : x = y
StartIsTold ==
  \A s \in TableStreams, x \in Running :
    ~crowded /\ ~lost[s] /\ pc[s] = "loop" /\ current[s] = 0 =>
      Holds(events[s], x) \/ \E ev \in saying : ev.match = x

LiveInv ==
  /\ LiveType /\ StreamsFit /\ OwnIsLatest /\ TableIsLatest
  /\ Alone /\ EndIsTold /\ StartIsTold

LEMMA LeastOf ==
  ASSUME NEW T \in SUBSET Nat, T # {}
  PROVE  \E x \in T : \A y \in T : x <= y
<1> DEFINE R == {ss \in Nat \X Nat : ss[1] < ss[2]}
<1>1. IsWellFoundedOn(R, Nat)
  BY NatLessThanWellFounded DEF OpToRel
<1>2. \E x \in T : \A y \in T : <<y, x>> \notin R
  <2> HIDE DEF R
  <2> QED
    BY <1>1, WFMin
<1>3. \A x, y \in Nat : <<y, x>> \notin R => x <= y
  <2> SUFFICES ASSUME NEW x \in Nat, NEW y \in Nat, y < x PROVE <<y, x>> \in R
    OBVIOUS
  <2>1. <<y, x>> \in Nat \X Nat /\ <<y, x>>[1] < <<y, x>>[2]
    OBVIOUS
  <2>2. QED
    BY <2>1
<1> HIDE DEF R
<1>4. QED
  BY <1>2, <1>3

(* What is current is the newest of the matches that run.                  *)
LEMMA CurrentRuns ==
  ASSUME LiveType
  PROVE  /\ Running \subseteq Ids /\ 0 \notin Ids
         /\ Running = {} => Current = 0
         /\ Running # {} => Current \in Running
<1>1. MaxMatches \in Nat /\ made \in Nat /\ made <= MaxMatches
  BY LiveAssumption DEF LiveType
<1>2. Running \subseteq 1..made
  BY DEF Running
<1>3. Running \subseteq Ids /\ 0 \notin Ids
  BY <1>1, <1>2 DEF Ids
<1>4. Running # {} => Max(Running) \in Running
  <2> SUFFICES ASSUME Running # {} PROVE Max(Running) \in Running
    OBVIOUS
  <2> DEFINE T == {k \in Nat : \E x \in Running : k = made - x}
  <2>1. PICK x0 \in Running : TRUE
    OBVIOUS
  <2>2. \A x \in Running : made - x \in T
    BY <1>1, <1>2
  <2>3. PICK k \in T : \A y \in T : k <= y
    BY <2>1, <2>2, LeastOf
  <2>4. PICK x \in Running : k = made - x
    OBVIOUS
  <2>5. ASSUME NEW y \in Running PROVE x >= y
    <3>1. made - x <= made - y
      BY <2>2, <2>3, <2>4
    <3>2. QED
      BY <1>1, <1>2, <3>1
  <2>6. QED
    BY <2>5 DEF Max
<1>5. QED
  BY <1>3, <1>4 DEF Current

-----------------------------------------------------------------------------
(* Subscriptions.                                                          *)

(* A sent event is the newest; the oldest goes for it, if one has to.      *)
LEMMA SentIsNewest ==
  ASSUME NEW q \in Seq(LiveEvent), Len(q) <= Buffer, NEW ev \in LiveEvent, NEW r \in Sent(q, ev)
  PROVE  /\ r \in Seq(LiveEvent) /\ Len(r) <= Buffer
         /\ \/ r = Append(q, ev) /\ Len(r) > Len(q)
            \/ r = Append(Tail(q), ev) /\ q # <<>> /\ Len(r) = Len(q)
<1>1. Buffer \in Nat /\ Len(q) \in Nat
  BY LiveAssumption
<1>2. CASE Len(q) < Buffer /\ r = Append(q, ev)
  BY <1>1, <1>2
<1>3. CASE q # <<>> /\ r = Append(Tail(q), ev)
  <2>1. Tail(q) \in Seq(LiveEvent) /\ Len(Tail(q)) = Len(q) - 1
    BY <1>3
  <2>2. r \in Seq(LiveEvent) /\ Len(r) = Len(q)
    BY <1>1, <1>3, <2>1
  <2>3. QED
    BY <1>3, <2>2
<1>4. QED
  BY <1>2, <1>3 DEF Sent

LEMMA PublishSends ==
  ASSUME LiveType, NEW ev \in LiveEvent, Publish(ev)
  PROVE  /\ events' \in [Streams -> Seq(LiveEvent)] /\ \A s \in Streams : Len(events'[s]) <= Buffer
         /\ lost' \in [Streams -> BOOLEAN] /\ pc' = pc /\ current' = current /\ wrote' = wrote
         /\ \A s \in Streams :
              \/ ~Gets(s, ev) /\ events'[s] = events[s] /\ lost'[s] = lost[s]
              \/ Gets(s, ev) /\ events'[s] = Append(events[s], ev) /\ lost'[s] = lost[s]
              \/ Gets(s, ev) /\ lost'[s] /\ events[s] # <<>> /\ events'[s] = Append(Tail(events[s]), ev)
<1>1. /\ events' \in [Streams -> UNION {Sent(events[s], ev) \cup {events[s]} : s \in Streams}]
      /\ \A s \in Streams : events'[s] \in IF Gets(s, ev) THEN Sent(events[s], ev) ELSE {events[s]}
      /\ lost' = [s \in Streams |-> lost[s] \/ (Gets(s, ev) /\ Len(events'[s]) <= Len(events[s]))]
      /\ pc' = pc /\ current' = current /\ wrote' = wrote
  BY DEF Publish
<1>2. ASSUME NEW s \in Streams
      PROVE  /\ events'[s] \in Seq(LiveEvent) /\ Len(events'[s]) <= Buffer /\ lost'[s] \in BOOLEAN
             /\ \/ ~Gets(s, ev) /\ events'[s] = events[s] /\ lost'[s] = lost[s]
                \/ Gets(s, ev) /\ events'[s] = Append(events[s], ev) /\ lost'[s] = lost[s]
                \/ Gets(s, ev) /\ lost'[s] /\ events[s] # <<>> /\ events'[s] = Append(Tail(events[s]), ev)
  <2>1. /\ events[s] \in Seq(LiveEvent) /\ Len(events[s]) <= Buffer /\ Len(events[s]) \in Nat
        /\ lost[s] \in BOOLEAN
    BY DEF LiveType
  <2>2. lost'[s] = (lost[s] \/ (Gets(s, ev) /\ Len(events'[s]) <= Len(events[s])))
    BY <1>1
  <2>3. CASE ~Gets(s, ev)
    BY <1>1, <2>1, <2>2, <2>3
  <2>4. CASE Gets(s, ev)
    <3>1. PICK r \in Sent(events[s], ev) : r = events'[s]
      BY <1>1, <2>4
    <3>2. /\ r \in Seq(LiveEvent) /\ Len(r) <= Buffer
          /\ \/ r = Append(events[s], ev) /\ Len(r) > Len(events[s])
             \/ r = Append(Tail(events[s]), ev) /\ events[s] # <<>> /\ Len(r) = Len(events[s])
      BY <2>1, SentIsNewest
    <3>3. CASE r = Append(events[s], ev) /\ Len(r) > Len(events[s])
      <4>1. ~(Len(events'[s]) <= Len(events[s]))
        BY <2>1, <3>1, <3>2, <3>3
      <4>2. lost'[s] = lost[s]
        BY <2>1, <2>2, <4>1
      <4>3. QED
        BY <2>1, <2>4, <3>1, <3>2, <3>3, <4>2
    <3>4. CASE r = Append(Tail(events[s]), ev) /\ events[s] # <<>> /\ Len(r) = Len(events[s])
      <4>1. Len(events'[s]) <= Len(events[s])
        BY <2>1, <3>1, <3>4
      <4>2. lost'[s]
        BY <2>2, <2>4, <4>1
      <4>3. lost'[s] \in BOOLEAN
        BY <2>2
      <4>4. QED
        BY <2>4, <3>1, <3>2, <3>4, <4>2, <4>3
    <3>5. QED
      BY <3>2, <3>3, <3>4
  <2>5. QED
    BY <2>3, <2>4
<1>3. lost' \in [Streams -> BOOLEAN]
  BY <1>1, <1>2
<1>4. events' \in [Streams -> Seq(LiveEvent)]
  BY <1>1, <1>2
<1>5. QED
  BY <1>1, <1>2, <1>3, <1>4

-----------------------------------------------------------------------------
(* What a stream does to itself, and to nothing else.                      *)

Moves(s, p, c, q, w, l) ==
  /\ pc' = [pc EXCEPT ![s] = p] /\ current' = [current EXCEPT ![s] = c]
  /\ events' = [events EXCEPT ![s] = q] /\ wrote' = [wrote EXCEPT ![s] = w]
  /\ lost' = [lost EXCEPT ![s] = l]
  /\ UNCHANGED <<matchVars, saying, stale, crowded>>

Connects(s, p, c, q, w, l) ==
  /\ pc[s] = "away" /\ q = <<>> /\ w = wrote[s] /\ l = FALSE
  /\ \/ p = "follow" /\ s \in TableStreams /\ c = current[s]
     \/ p = "snapshot" /\ s \in MatchStreams /\ c \in Ids
Looks(s, p, c, q, w, l) ==
  /\ pc[s] = "follow" /\ c = Current /\ q = events[s] /\ l = lost[s]
  /\ \/ p = "loop" /\ Current = 0 /\ w = NoMatch
     \/ p = "snapshot" /\ Current # 0 /\ w = wrote[s]
Snaps(s, p, c, q, w, l) ==
  /\ pc[s] = "snapshot" /\ p = "loop" /\ c = current[s] /\ q = events[s] /\ l = lost[s]
  /\ w = StateOf(c, "snapshot")
ReadsOwn(s, p, c, q, w, l) ==
  /\ pc[s] = "loop" /\ events[s] # <<>> /\ q = Tail(events[s]) /\ l = lost[s]
  /\ Head(events[s]).match = current[s] /\ c = current[s] /\ w = Head(events[s])
  /\ p = IF s \in TableStreams /\ Final(Head(events[s])) THEN "follow" ELSE "loop"
ReadsOther(s, p, c, q, w, l) ==
  /\ pc[s] = "loop" /\ p = "loop" /\ events[s] # <<>> /\ q = Tail(events[s]) /\ l = lost[s]
  /\ Head(events[s]).match # current[s]
  /\ \/ /\ Head(events[s]).match = Current /\ c = Current
        /\ w = [Head(events[s]) EXCEPT !.kind = "snapshot"]
     \/ Head(events[s]).match # Current /\ c = current[s] /\ w = wrote[s]
Leaves(s, p, c, q, w, l) == p = "away" /\ c = 0 /\ q = <<>> /\ w = NoMatch /\ l = FALSE

Does(s, p, c, q, w, l) ==
  \/ Connects(s, p, c, q, w, l) \/ Looks(s, p, c, q, w, l) \/ Snaps(s, p, c, q, w, l)
  \/ ReadsOwn(s, p, c, q, w, l) \/ ReadsOther(s, p, c, q, w, l) \/ Leaves(s, p, c, q, w, l)

StreamActs(s) ==
  \/ ConnectToTable(s) \/ (\E x \in Ids : ConnectToMatch(s, x)) \/ Follow(s) \/ Snapshot(s)
  \/ ReadOwn(s) \/ ReadOther(s) \/ Leave(s)

LEMMA StreamMoves ==
  ASSUME LiveType, StreamsFit, NEW s \in Streams, StreamActs(s)
  PROVE  \E p, c, q, w, l : Moves(s, p, c, q, w, l) /\ Does(s, p, c, q, w, l)
<1> DEFINE p0 == pc[s]
           c0 == current[s]
           q0 == events[s]
           w0 == wrote[s]
           l0 == lost[s]
<1>1. /\ pc = [pc EXCEPT ![s] = p0] /\ current = [current EXCEPT ![s] = c0]
      /\ events = [events EXCEPT ![s] = q0] /\ wrote = [wrote EXCEPT ![s] = w0]
      /\ lost = [lost EXCEPT ![s] = l0]
  BY DEF LiveType
<1>2. CASE ConnectToTable(s)
  <2>1. Moves(s, "follow", c0, <<>>, w0, FALSE) /\ Connects(s, "follow", c0, <<>>, w0, FALSE)
    BY <1>1, <1>2 DEF ConnectToTable, Subscribe, Moves, Connects
  <2>2. QED
    BY <2>1 DEF Does
<1>3. CASE \E x \in Ids : ConnectToMatch(s, x)
  <2>1. PICK x \in Ids : ConnectToMatch(s, x)
    BY <1>3
  <2>2. Moves(s, "snapshot", x, <<>>, w0, FALSE) /\ Connects(s, "snapshot", x, <<>>, w0, FALSE)
    BY <1>1, <2>1 DEF ConnectToMatch, Subscribe, Moves, Connects
  <2>3. QED
    BY <2>2 DEF Does
<1>4. CASE Follow(s)
  <2>1. CASE Current = 0
    <3>1. Moves(s, "loop", Current, q0, NoMatch, l0) /\ Looks(s, "loop", Current, q0, NoMatch, l0)
      BY <1>1, <1>4, <2>1 DEF Follow, Wrote, Moves, Looks
    <3>2. QED
      BY <3>1 DEF Does
  <2>2. CASE Current # 0
    <3>1. Moves(s, "snapshot", Current, q0, w0, l0) /\ Looks(s, "snapshot", Current, q0, w0, l0)
      BY <1>1, <1>4, <2>2 DEF Follow, Wrote, Moves, Looks
    <3>2. QED
      BY <3>1 DEF Does
  <2>3. QED
    BY <2>1, <2>2
<1>5. CASE Snapshot(s)
  <2> DEFINE w == StateOf(c0, "snapshot")
  <2>1. Moves(s, "loop", c0, q0, w, l0) /\ Snaps(s, "loop", c0, q0, w, l0)
    BY <1>1, <1>5 DEF Snapshot, Wrote, Moves, Snaps
  <2>2. QED
    BY <2>1 DEF Does
<1>6. CASE ReadOwn(s)
  <2> DEFINE p == IF s \in TableStreams /\ Final(Head(q0)) THEN "follow" ELSE "loop"
  <2>1. pc' = [pc EXCEPT ![s] = p]
    BY <1>1, <1>6 DEF ReadOwn
  <2>2. Moves(s, p, c0, Tail(q0), Head(q0), l0)
    BY <1>1, <1>6, <2>1 DEF ReadOwn, Wrote, Moves
  <2>3. ReadsOwn(s, p, c0, Tail(q0), Head(q0), l0)
    BY <1>6 DEF ReadOwn, ReadsOwn
  <2>4. QED
    BY <2>2, <2>3 DEF Does
<1>7. CASE ReadOther(s)
  <2> DEFINE w == [Head(q0) EXCEPT !.kind = "snapshot"]
  <2>1. CASE Head(q0).match = Current
    <3>1. wrote' = [wrote EXCEPT ![s] = w] /\ current' = [current EXCEPT ![s] = Current]
      BY <1>7, <2>1 DEF ReadOther, Wrote
    <3>2. Moves(s, "loop", Current, Tail(q0), w, l0) /\ ReadsOther(s, "loop", Current, Tail(q0), w, l0)
      BY <1>1, <1>7, <2>1, <3>1 DEF ReadOther, Moves, ReadsOther
    <3>3. QED
      BY <3>2 DEF Does
  <2>2. CASE Head(q0).match # Current
    <3>1. Moves(s, "loop", c0, Tail(q0), w0, l0) /\ ReadsOther(s, "loop", c0, Tail(q0), w0, l0)
      BY <1>1, <1>7, <2>2 DEF ReadOther, Moves, ReadsOther
    <3>2. QED
      BY <3>1 DEF Does
  <2>3. QED
    BY <2>1, <2>2
<1>8. CASE Leave(s)
  <2>1. Moves(s, "away", 0, <<>>, NoMatch, FALSE) /\ Leaves(s, "away", 0, <<>>, NoMatch, FALSE)
    BY <1>1, <1>8 DEF Leave, Wrote, Moves, Leaves
  <2>2. QED
    BY <2>1 DEF Does
<1>9. QED
  BY <1>2, <1>3, <1>4, <1>5, <1>6, <1>7, <1>8 DEF StreamActs

LEMMA MovesOne ==
  ASSUME LiveType, NEW s \in Streams, NEW p, NEW c, NEW q, NEW w, NEW l, Moves(s, p, c, q, w, l)
  PROVE  /\ pc'[s] = p /\ current'[s] = c /\ events'[s] = q /\ wrote'[s] = w /\ lost'[s] = l
         /\ \A r \in Streams \ {s} : /\ pc'[r] = pc[r] /\ current'[r] = current[r]
                                     /\ events'[r] = events[r] /\ wrote'[r] = wrote[r]
                                     /\ lost'[r] = lost[r]
         /\ version' = version /\ saying' = saying /\ stale' = stale /\ crowded' = crowded
         /\ Running' = Running
BY DEF LiveType, Moves, matchVars, Running

(* What it goes on with is of the right types.                             *)
LEMMA DoesTyped ==
  ASSUME LiveType, StreamsFit, NEW s \in Streams, NEW p, NEW c, NEW q, NEW w, NEW l, Does(s, p, c, q, w, l)
  PROVE  /\ p \in {"away", "follow", "snapshot", "loop"} /\ c \in Ids \cup {0}
         /\ q \in Seq(LiveEvent) /\ Len(q) <= Buffer
         /\ w \in LiveEvent \cup {NoMatch} /\ l \in BOOLEAN
<1>1. /\ pc[s] \in {"away", "follow", "snapshot", "loop"} /\ current[s] \in Ids \cup {0}
      /\ events[s] \in Seq(LiveEvent) /\ Len(events[s]) <= Buffer
      /\ wrote[s] \in LiveEvent \cup {NoMatch} /\ lost[s] \in BOOLEAN
  BY DEF LiveType
<1>2. Buffer \in Nat /\ Len(events[s]) \in Nat /\ Len(<<>>) <= Buffer /\ <<>> \in Seq(LiveEvent)
  BY <1>1, LiveAssumption
<1>3. Current \in Ids \cup {0}
  BY CurrentRuns
<1>4. CASE Connects(s, p, c, q, w, l)
  BY <1>1, <1>2, <1>4 DEF Connects
<1>5. CASE Looks(s, p, c, q, w, l)
  BY <1>1, <1>3, <1>5 DEF Looks
<1>6. CASE Leaves(s, p, c, q, w, l)
  BY <1>2, <1>6 DEF Leaves
<1>7. ASSUME events[s] # <<>>
      PROVE  /\ Tail(events[s]) \in Seq(LiveEvent) /\ Len(Tail(events[s])) <= Buffer
             /\ Head(events[s]) \in LiveEvent
  <2>1. Len(Tail(events[s])) = Len(events[s]) - 1
    BY <1>1, <1>7
  <2>2. QED
    BY <1>1, <1>2, <1>7, <2>1
<1>8. CASE ReadsOwn(s, p, c, q, w, l)
  <2>1. p \in {"follow", "loop"}
    BY <1>8 DEF ReadsOwn
  <2>2. QED
    BY <1>1, <1>7, <1>8, <2>1 DEF ReadsOwn
<1>9. CASE ReadsOther(s, p, c, q, w, l)
  <2>1. PICK h \in LiveEvent : h = Head(events[s])
    BY <1>7, <1>9 DEF ReadsOther
  <2>2. [h EXCEPT !.kind = "snapshot"] \in LiveEvent
    BY DEF LiveEvent
  <2>3. w \in LiveEvent \cup {NoMatch} /\ c \in Ids \cup {0}
    BY <1>1, <1>3, <1>9, <2>1, <2>2 DEF ReadsOther
  <2>4. QED
    BY <1>1, <1>7, <1>9, <2>3 DEF ReadsOther
<1>10. CASE Snaps(s, p, c, q, w, l)
  <2>1. c \in Ids /\ c = current[s]
    BY <1>1, <1>10 DEF Snaps, StreamsFit
  <2>2. w = [kind |-> "snapshot", match |-> c, version |-> version[c], complete |-> over[c]]
    BY <1>10 DEF Snaps, StateOf
  <2>3. w \in LiveEvent
    BY <2>1, <2>2 DEF LiveEvent, LiveType
  <2>4. QED
    BY <1>1, <1>10, <2>3 DEF Snaps
<1>11. QED
  BY <1>4, <1>5, <1>6, <1>8, <1>9, <1>10 DEF Does

-----------------------------------------------------------------------------
(* What the matches do.                                                    *)

LEMMA ChangeSends ==
  ASSUME LiveType, NEW x \in Ids, Changes(x)
  PROVE  \E ev \in LiveEvent :
           /\ ev.kind = "transition" /\ ev.match = x
           /\ ev.version = version'[x] /\ ev.complete = over'[x] /\ Publish(ev)
           /\ version' \in [Ids -> Nat] /\ over' \in [Ids -> BOOLEAN]
           /\ \A y \in Ids \ {x} : version'[y] = version[y] /\ over'[y] = over[y]
           /\ made' = made /\ ended' = ended /\ saying' = saying /\ stale' = stale /\ Crowds
<1> DEFINE ev == [kind |-> "transition", match |-> x, version |-> version'[x], complete |-> over'[x]]
<1>1. version' = [version EXCEPT ![x] = version[x] + 1]
  BY DEF Changes
<1>2. version' \in [Ids -> Nat] /\ \A y \in Ids \ {x} : version'[y] = version[y]
  BY <1>1 DEF LiveType
<1>3. \E b \in BOOLEAN : over' = [over EXCEPT ![x] = b]
  BY DEF Changes
<1>4. over' \in [Ids -> BOOLEAN] /\ \A y \in Ids \ {x} : over'[y] = over[y]
  BY <1>3 DEF LiveType
<1>5. StateOf(x, "transition")' = ev
  BY DEF StateOf
<1>6. PICK e : e = StateOf(x, "transition")' /\ Publish(e)
  BY DEF Changes
<1>7. e = ev
  BY <1>5, <1>6
<1>8. ev \in LiveEvent
  BY <1>2, <1>4 DEF LiveEvent
<1>9. made' = made /\ ended' = ended /\ saying' = saying /\ stale' = stale /\ Crowds
  BY DEF Changes
<1>10. /\ e \in LiveEvent /\ e.kind = "transition" /\ e.match = x
       /\ e.version = version'[x] /\ e.complete = over'[x]
  BY <1>7, <1>8
<1>11. QED
  BY <1>2, <1>4, <1>6, <1>9, <1>10

(* Only an announcement of a state that is no longer the match's is late.  *)
LEMMA AnnounceSends ==
  ASSUME LiveType, StreamsFit, NEW ev \in saying, Announce(ev)
  PROVE  /\ ev \in LiveEvent /\ ev.kind # "transition" /\ Publish(ev)
         /\ made' = made /\ version' = version /\ over' = over /\ ended' = ended /\ crowded' = crowded
         /\ saying' = saying \ {ev} /\ stale \subseteq stale' /\ stale' \subseteq Ids
         /\ ev.match \notin stale' => ev.version = version[ev.match]
BY DEF Announce, LiveType, StreamsFit, matchVars, LiveEvent

(* A match is created or ended: no stream hears of it yet.                 *)
LEMMA CreateTells ==
  ASSUME LiveType, Create
  PROVE  \E ev \in LiveEvent :
           /\ ev.kind = "started" /\ ev.match = made + 1 /\ saying' = saying \cup {ev}
           /\ made' = made + 1 /\ made' \in 0..MaxMatches
           /\ version' = version /\ over' = over /\ ended' = ended /\ stale' = stale /\ Crowds
           /\ pc' = pc /\ current' = current /\ events' = events /\ wrote' = wrote /\ lost' = lost
<1>1. MaxMatches \in Nat /\ made \in Nat /\ made < MaxMatches /\ made' = made + 1
  BY LiveAssumption DEF LiveType, Create
<1> DEFINE x == made + 1
           ev == [kind |-> "started", match |-> x, version |-> version[x], complete |-> over[x]]
<1>2. x \in Ids /\ made' \in 0..MaxMatches
  BY <1>1 DEF Ids
<1>3. ev \in LiveEvent
  BY <1>2 DEF LiveType, LiveEvent
<1>4. saying' = saying \cup {ev}
  BY <1>1 DEF Create, StateOf
<1>5. ev.kind = "started" /\ ev.match = made + 1
  OBVIOUS
<1>6. /\ version' = version /\ over' = over /\ ended' = ended /\ stale' = stale /\ Crowds
      /\ pc' = pc /\ current' = current /\ events' = events /\ wrote' = wrote /\ lost' = lost
  BY DEF Create, streamVars
<1> HIDE DEF ev
<1>7. QED
  BY <1>1, <1>2, <1>3, <1>4, <1>5, <1>6

LEMMA EndTells ==
  ASSUME LiveType, NEW x \in Ids, End(x)
  PROVE  \E ev \in LiveEvent :
           /\ ev.kind = "ended" /\ ev.match = x /\ saying' = saying \cup {ev}
           /\ ended' \in [Ids -> BOOLEAN] /\ ended'[x]
           /\ \A y \in Ids \ {x} : ended'[y] = ended[y]
           /\ made' = made /\ version' = version /\ over' = over /\ stale' = stale /\ crowded' = crowded
           /\ pc' = pc /\ current' = current /\ events' = events /\ wrote' = wrote /\ lost' = lost
<1> DEFINE ev == [kind |-> "ended", match |-> x, version |-> version[x], complete |-> over[x]]
<1>1. ev \in LiveEvent /\ ev.kind = "ended" /\ ev.match = x
  BY DEF LiveType, LiveEvent
<1>2. saying' = saying \cup {ev}
  BY DEF End, StateOf
<1>3. /\ ended' \in [Ids -> BOOLEAN] /\ ended'[x] /\ \A y \in Ids \ {x} : ended'[y] = ended[y]
      /\ made' = made /\ version' = version /\ over' = over /\ stale' = stale /\ crowded' = crowded
      /\ pc' = pc /\ current' = current /\ events' = events /\ wrote' = wrote /\ lost' = lost
  BY DEF End, streamVars, LiveType
<1> HIDE DEF ev
<1>4. QED
  BY <1>1, <1>2, <1>3

LEMMA Disjoint == \A s \in MatchStreams : s \notin TableStreams
BY LiveAssumption

LEMMA LiveSteps ==
  ASSUME [LiveNext]_liveVars
  PROVE  \/ Create \/ (\E x \in Ids : Changes(x)) \/ (\E x \in Ids : End(x))
         \/ (\E ev \in saying : Announce(ev)) \/ (\E s \in Streams : StreamActs(s))
         \/ UNCHANGED liveVars
BY DEF LiveNext, StreamActs

-----------------------------------------------------------------------------
(* Types.                                                                  *)

LEMMA LiveTypeInit == LiveInit => LiveType /\ StreamsFit
<1> SUFFICES ASSUME LiveInit PROVE LiveType /\ StreamsFit
  OBVIOUS
<1>1. 0 \in 0..MaxMatches /\ Len(<<>>) <= Buffer /\ <<>> \in Seq(LiveEvent)
  BY LiveAssumption
<1>2. LiveType
  BY <1>1 DEF LiveInit, LiveType
<1>3. StreamsFit
  BY DEF LiveInit, StreamsFit, Streams
<1>4. QED
  BY <1>2, <1>3

LEMMA LiveTypeStep ==
  ASSUME LiveType, StreamsFit, [LiveNext]_liveVars
  PROVE  LiveType' /\ StreamsFit'
<1>1. CASE Create
  <2>1. PICK ev \in LiveEvent :
          /\ ev.kind = "started" /\ ev.match = made + 1 /\ saying' = saying \cup {ev}
          /\ made' = made + 1 /\ made' \in 0..MaxMatches
          /\ version' = version /\ over' = over /\ ended' = ended /\ stale' = stale /\ Crowds
          /\ pc' = pc /\ current' = current /\ events' = events /\ wrote' = wrote /\ lost' = lost
    BY <1>1, CreateTells
  <2>2. LiveType'
    BY <2>1 DEF LiveType, Crowds
  <2>3. StreamsFit'
    BY <2>1 DEF StreamsFit
  <2>4. QED
    BY <2>2, <2>3
<1>2. CASE \E x \in Ids : Changes(x)
  <2>1. PICK x \in Ids : Changes(x)
    BY <1>2
  <2>2. PICK ev \in LiveEvent :
          /\ ev.kind = "transition" /\ ev.match = x
          /\ ev.version = version'[x] /\ ev.complete = over'[x] /\ Publish(ev)
          /\ version' \in [Ids -> Nat] /\ over' \in [Ids -> BOOLEAN]
          /\ \A y \in Ids \ {x} : version'[y] = version[y] /\ over'[y] = over[y]
          /\ made' = made /\ ended' = ended /\ saying' = saying /\ stale' = stale /\ Crowds
    BY <2>1, ChangeSends
  <2>3. /\ events' \in [Streams -> Seq(LiveEvent)] /\ \A s \in Streams : Len(events'[s]) <= Buffer
        /\ lost' \in [Streams -> BOOLEAN] /\ pc' = pc /\ current' = current /\ wrote' = wrote
        /\ \A s \in Streams : pc[s] = "away" => events'[s] = events[s]
    <3>1. \A s \in Streams : pc[s] = "away" => ~Gets(s, ev)
      BY DEF Gets
    <3>2. QED
      BY <2>2, <3>1, PublishSends
  <2>4. LiveType'
    BY <2>2, <2>3 DEF LiveType, Crowds
  <2>5. StreamsFit'
    BY <2>2, <2>3 DEF StreamsFit
  <2>6. QED
    BY <2>4, <2>5
<1>3. CASE \E x \in Ids : End(x)
  <2>1. PICK x \in Ids : End(x)
    BY <1>3
  <2>2. PICK ev \in LiveEvent :
          /\ ev.kind = "ended" /\ ev.match = x /\ saying' = saying \cup {ev}
          /\ ended' \in [Ids -> BOOLEAN] /\ ended'[x]
          /\ \A y \in Ids \ {x} : ended'[y] = ended[y]
          /\ made' = made /\ version' = version /\ over' = over /\ stale' = stale /\ crowded' = crowded
          /\ pc' = pc /\ current' = current /\ events' = events /\ wrote' = wrote /\ lost' = lost
    BY <2>1, EndTells
  <2>3. LiveType'
    BY <2>2 DEF LiveType
  <2>4. StreamsFit'
    BY <2>2 DEF StreamsFit
  <2>5. QED
    BY <2>3, <2>4
<1>4. CASE \E ev \in saying : Announce(ev)
  <2>1. PICK ev \in saying : Announce(ev)
    BY <1>4
  <2>2. /\ ev \in LiveEvent /\ ev.kind # "transition" /\ Publish(ev)
        /\ made' = made /\ version' = version /\ over' = over /\ ended' = ended /\ crowded' = crowded
        /\ saying' = saying \ {ev} /\ stale' \subseteq Ids
    BY <2>1, AnnounceSends
  <2>3. /\ events' \in [Streams -> Seq(LiveEvent)] /\ \A s \in Streams : Len(events'[s]) <= Buffer
        /\ lost' \in [Streams -> BOOLEAN] /\ pc' = pc /\ current' = current /\ wrote' = wrote
        /\ \A s \in Streams : pc[s] = "away" => events'[s] = events[s]
    <3>1. \A s \in Streams : pc[s] = "away" => ~Gets(s, ev)
      BY DEF Gets
    <3>2. QED
      BY <2>2, <3>1, PublishSends
  <2>4. LiveType'
    BY <2>2, <2>3 DEF LiveType
  <2>5. StreamsFit'
    BY <2>2, <2>3 DEF StreamsFit
  <2>6. QED
    BY <2>4, <2>5
<1>5. CASE \E s \in Streams : StreamActs(s)
  <2>1. PICK s \in Streams : StreamActs(s)
    BY <1>5
  <2>2. PICK p, c, q, w, l : Moves(s, p, c, q, w, l) /\ Does(s, p, c, q, w, l)
    BY <2>1, StreamMoves
  <2>3. /\ p \in {"away", "follow", "snapshot", "loop"} /\ c \in Ids \cup {0}
        /\ q \in Seq(LiveEvent) /\ Len(q) <= Buffer
        /\ w \in LiveEvent \cup {NoMatch} /\ l \in BOOLEAN
    BY <2>2, DoesTyped
  <2>4. LiveType'
    <3>1. /\ pc' \in [Streams -> {"away", "follow", "snapshot", "loop"}]
          /\ current' \in [Streams -> Ids \cup {0}] /\ lost' \in [Streams -> BOOLEAN]
      BY <2>2, <2>3 DEF Moves, LiveType
    <3>2. events' \in [Streams -> Seq(LiveEvent)] /\ \A r \in Streams : Len(events'[r]) <= Buffer
      BY <2>2, <2>3 DEF Moves, LiveType
    <3>3. wrote' \in [Streams -> LiveEvent \cup {NoMatch}]
      BY <2>2, <2>3 DEF Moves, LiveType
    <3>4. QED
      BY <2>2, <3>1, <3>2, <3>3 DEF Moves, LiveType, matchVars
  <2>5. StreamsFit'
    <3>1. /\ pc'[s] = p /\ current'[s] = c /\ events'[s] = q /\ wrote'[s] = w
          /\ \A r \in Streams \ {s} : /\ pc'[r] = pc[r] /\ current'[r] = current[r]
                                      /\ events'[r] = events[r] /\ wrote'[r] = wrote[r]
          /\ saying' = saying
      BY <2>2, MovesOne
    <3>2. /\ p = "away" => q = <<>>
          /\ p = "snapshot" => c # 0
          /\ p = "loop" => w.match = c
          /\ s \in MatchStreams => p # "follow" /\ (p # "away" => c # 0)
      <4>1. CASE Connects(s, p, c, q, w, l)
        BY <4>1, CurrentRuns, Disjoint DEF Connects
      <4>2. CASE Looks(s, p, c, q, w, l)
        BY <4>2 DEF Looks, NoMatch, StreamsFit
      <4>3. CASE Snaps(s, p, c, q, w, l)
        BY <4>3 DEF Snaps, StateOf, StreamsFit
      <4>4. CASE ReadsOwn(s, p, c, q, w, l)
        BY <4>4, Disjoint DEF ReadsOwn, StreamsFit
      <4>5. CASE ReadsOther(s, p, c, q, w, l)
        <5>1. Head(events[s]) \in LiveEvent
          BY <4>5 DEF ReadsOther, LiveType
        <5>2. PICK h \in LiveEvent : h = Head(events[s])
          BY <5>1
        <5>3. h.match \in Ids /\ [h EXCEPT !.kind = "snapshot"].match = h.match
          BY DEF LiveEvent
        <5>4. QED
          BY <4>5, <5>2, <5>3, CurrentRuns DEF ReadsOther, StreamsFit
      <4>6. CASE Leaves(s, p, c, q, w, l)
        BY <4>6 DEF Leaves
      <4>7. QED
        BY <2>2, <4>1, <4>2, <4>3, <4>4, <4>5, <4>6 DEF Does
    <3>3. QED
      BY <3>1, <3>2 DEF StreamsFit, Streams
  <2>6. QED
    BY <2>4, <2>5
<1>6. CASE UNCHANGED liveVars
  <2>1. LiveType'
    BY <1>6 DEF liveVars, matchVars, streamVars, LiveType
  <2>2. StreamsFit'
    BY <1>6 DEF liveVars, matchVars, streamVars, StreamsFit
  <2>3. QED
    BY <2>1, <2>2
<1>7. QED
  BY <1>1, <1>2, <1>3, <1>4, <1>5, <1>6, LiveSteps

-----------------------------------------------------------------------------
(* The stream of a match.                                                  *)

LEMMA OwnStep ==
  ASSUME LiveType, StreamsFit, OwnIsLatest, [LiveNext]_liveVars
  PROVE  OwnIsLatest'
<1> SUFFICES ASSUME NEW r \in MatchStreams
             PROVE  /\ \A i \in 1..Len(events'[r]) : events'[r][i].match = current'[r]
                    /\ pc'[r] # "away" /\ events'[r] # <<>> =>
                         events'[r][Len(events'[r])].version = version'[current'[r]]
                    /\ pc'[r] = "loop" /\ events'[r] = <<>> => wrote'[r].version = version'[current'[r]]
  BY DEF OwnIsLatest
<1>a. /\ r \in Streams /\ r \notin TableStreams
      /\ \A i \in 1..Len(events[r]) : events[r][i].match = current[r]
      /\ pc[r] # "away" /\ events[r] # <<>> => events[r][Len(events[r])].version = version[current[r]]
      /\ pc[r] = "loop" /\ events[r] = <<>> => wrote[r].version = version[current[r]]
      /\ events[r] \in Seq(LiveEvent) /\ Len(events[r]) \in Nat /\ current[r] \in Ids \cup {0}
      /\ pc[r] # "away" => current[r] # 0
  BY Disjoint DEF OwnIsLatest, Streams, LiveType, StreamsFit
<1>1. CASE Create
  <2>1. /\ version' = version /\ pc' = pc /\ current' = current /\ events' = events /\ wrote' = wrote
    BY <1>1, CreateTells
  <2>2. QED
    BY <1>a, <2>1
<1>2. CASE \E x \in Ids : Changes(x)
  <2>1. PICK x \in Ids : Changes(x)
    BY <1>2
  <2>2. PICK ev \in LiveEvent :
          /\ ev.kind = "transition" /\ ev.match = x /\ ev.version = version'[x] /\ Publish(ev)
          /\ \A y \in Ids \ {x} : version'[y] = version[y]
    BY <2>1, ChangeSends
  <2>3. /\ pc' = pc /\ current' = current /\ wrote' = wrote
        /\ \/ ~Gets(r, ev) /\ events'[r] = events[r]
           \/ Gets(r, ev) /\ events'[r] = Append(events[r], ev)
           \/ Gets(r, ev) /\ events[r] # <<>> /\ events'[r] = Append(Tail(events[r]), ev)
    BY <1>a, <2>2, PublishSends
  <2>4. CASE Gets(r, ev)
    <3>1. current[r] = x
      BY <1>a, <2>2, <2>4 DEF Gets
    <3>2. PICK q \in Seq(LiveEvent) : /\ events'[r] = Append(q, ev)
                                      /\ \A i \in 1..Len(q) : q[i].match = x
      <4>1. CASE events'[r] = Append(events[r], ev)
        BY <1>a, <3>1, <4>1
      <4>2. CASE events[r] # <<>> /\ events'[r] = Append(Tail(events[r]), ev)
        <5>1. /\ Tail(events[r]) \in Seq(LiveEvent)
              /\ \A i \in 1..Len(Tail(events[r])) : Tail(events[r])[i].match = x
          BY <1>a, <3>1, <4>2
        <5>2. QED
          BY <4>2, <5>1
      <4>3. QED
        BY <2>3, <2>4, <4>1, <4>2
    <3>3. /\ events'[r] # <<>> /\ events'[r][Len(events'[r])] = ev
          /\ \A i \in 1..Len(events'[r]) : events'[r][i].match = x
      BY <2>2, <3>2
    <3>4. QED
      BY <2>2, <2>3, <3>1, <3>3
  <2>5. CASE ~Gets(r, ev)
    <3>1. pc[r] # "away" => version'[current[r]] = version[current[r]]
      BY <1>a, <2>2, <2>5 DEF Gets
    <3>2. QED
      BY <1>a, <2>3, <2>5, <3>1
  <2>6. QED
    BY <2>4, <2>5
<1>3. CASE \E x \in Ids : End(x)
  <2>1. /\ version' = version /\ pc' = pc /\ current' = current /\ events' = events /\ wrote' = wrote
    BY <1>3, EndTells
  <2>2. QED
    BY <1>a, <2>1
<1>4. CASE \E ev \in saying : Announce(ev)
  <2>1. PICK ev \in saying : Announce(ev)
    BY <1>4
  <2>2. ev \in LiveEvent /\ ev.kind # "transition" /\ Publish(ev) /\ version' = version
    BY <2>1, AnnounceSends
  <2>3. ~Gets(r, ev)
    BY <1>a, <2>2 DEF Gets
  <2>4. pc' = pc /\ current' = current /\ wrote' = wrote /\ events'[r] = events[r]
    BY <1>a, <2>2, <2>3, PublishSends
  <2>5. QED
    BY <1>a, <2>2, <2>4
<1>5. CASE \E s \in Streams : StreamActs(s)
  <2>1. PICK s \in Streams : StreamActs(s)
    BY <1>5
  <2>2. PICK p, c, q, w, l : Moves(s, p, c, q, w, l) /\ Does(s, p, c, q, w, l)
    BY <2>1, StreamMoves
  <2>3. /\ pc'[s] = p /\ current'[s] = c /\ events'[s] = q /\ wrote'[s] = w
        /\ r # s => /\ pc'[r] = pc[r] /\ current'[r] = current[r]
                    /\ events'[r] = events[r] /\ wrote'[r] = wrote[r]
        /\ version' = version
    BY <1>a, <2>2, MovesOne
  <2>4. CASE r # s
    BY <1>a, <2>3, <2>4
  <2>5. CASE r = s
    <3>1. CASE Connects(s, p, c, q, w, l)
      BY <2>3, <2>5, <3>1 DEF Connects
    <3>2. CASE Looks(s, p, c, q, w, l)
      BY <2>5, <3>2 DEF Looks, StreamsFit
    <3>3. CASE Snaps(s, p, c, q, w, l)
      <4>1. w.version = version[c]
        BY <3>3 DEF Snaps, StateOf
      <4>2. QED
        BY <1>a, <2>3, <2>5, <3>3, <4>1 DEF Snaps
    <3>4. CASE ReadsOwn(s, p, c, q, w, l)
      <4>1. /\ pc[s] = "loop" /\ p = "loop" /\ events[s] # <<>> /\ q = Tail(events[s])
            /\ c = current[s] /\ w = Head(events[s])
        BY <1>a, <2>5, <3>4 DEF ReadsOwn
      <4>2. CASE q = <<>>
        <5>1. Len(events[s]) = 1 /\ w = events[s][1]
          <6>1. Len(q) = Len(events[s]) - 1 /\ w = events[s][1]
            BY <1>a, <2>5, <4>1
          <6>2. Len(q) = 0
            BY <4>2
          <6>3. QED
            BY <1>a, <2>5, <4>1, <6>1, <6>2
        <5>2. w.version = version[c]
          BY <1>a, <2>5, <4>1, <5>1
        <5>3. \A i \in 1..Len(q) : q[i].match = c
          BY <4>2
        <5>4. QED
          BY <2>3, <2>5, <4>2, <5>2, <5>3
      <4>3. CASE q # <<>>
        <5>1. q[Len(q)] = events[s][Len(events[s])]
          BY <1>a, <2>5, <4>1, <4>3
        <5>2. \A i \in 1..Len(q) : q[i].match = c
          BY <1>a, <2>5, <4>1
        <5>3. QED
          BY <1>a, <2>3, <2>5, <4>1, <4>3, <5>1, <5>2
      <4>4. QED
        BY <4>2, <4>3
    <3>5. CASE ReadsOther(s, p, c, q, w, l)
      <4>1. events[s] # <<>> /\ Head(events[s]).match # current[s]
        BY <3>5 DEF ReadsOther
      <4>2. QED
        BY <1>a, <2>5, <4>1
    <3>6. CASE Leaves(s, p, c, q, w, l)
      BY <2>3, <2>5, <3>6 DEF Leaves
    <3>7. QED
      BY <2>2, <3>1, <3>2, <3>3, <3>4, <3>5, <3>6 DEF Does
  <2>6. QED
    BY <2>4, <2>5
<1>6. CASE UNCHANGED liveVars
  BY <1>a, <1>6 DEF liveVars, matchVars, streamVars
<1>7. QED
  BY <1>1, <1>2, <1>3, <1>4, <1>5, <1>6, LiveSteps

-----------------------------------------------------------------------------
(* The table's stream.                                                     *)

LEMMA Appended ==
  ASSUME NEW q \in Seq(LiveEvent), NEW ev \in LiveEvent, NEW x
  PROVE  /\ Holds(q, x) \/ ev.match = x => Holds(Append(q, ev), x)
         /\ HasEnd(q, x) \/ (ev.match = x /\ Final(ev)) => HasEnd(Append(q, ev), x)
         /\ ev.match = x => Latest(Append(q, ev), x, ev.version)
         /\ \A v : ev.match # x /\ Latest(q, x, v) => Latest(Append(q, ev), x, v)
<1> DEFINE r == Append(q, ev)
<1>1. /\ Len(r) = Len(q) + 1 /\ Len(q) \in Nat /\ r[Len(q) + 1] = ev
      /\ \A i \in 1..Len(q) : r[i] = q[i]
  OBVIOUS
<1>2. 1..Len(q) \subseteq 1..Len(r) /\ Len(q) + 1 \in 1..Len(r)
  BY <1>1
<1> HIDE DEF r
<1>3. Holds(q, x) \/ ev.match = x => Holds(r, x)
  BY <1>1, <1>2 DEF Holds
<1>4. HasEnd(q, x) \/ (ev.match = x /\ Final(ev)) => HasEnd(r, x)
  BY <1>1, <1>2 DEF HasEnd
<1>5. ASSUME ev.match = x PROVE Latest(r, x, ev.version)
  <2> SUFFICES ASSUME NEW i \in 1..Len(r), \A j \in 1..Len(r) : j > i => r[j].match # x
               PROVE  r[i].version = ev.version
    BY DEF Latest
  <2>1. ~(Len(q) + 1 > i)
    BY <1>1, <1>2, <1>5
  <2>2. i = Len(q) + 1
    BY <1>1, <2>1
  <2>3. QED
    BY <1>1, <2>2
<1>6. ASSUME NEW v, ev.match # x, Latest(q, x, v) PROVE Latest(r, x, v)
  <2> SUFFICES ASSUME NEW i \in 1..Len(r), r[i].match = x, \A j \in 1..Len(r) : j > i => r[j].match # x
               PROVE  r[i].version = v
    BY DEF Latest
  <2>1. i # Len(q) + 1
    BY <1>1, <1>6
  <2>2. i \in 1..Len(q)
    BY <1>1, <2>1
  <2>3. \A j \in 1..Len(q) : j > i => q[j].match # x
    BY <1>1, <1>2
  <2>4. QED
    BY <1>1, <1>6, <2>2, <2>3 DEF Latest
<1>7. QED
  BY <1>3, <1>4, <1>5, <1>6 DEF r

LEMMA HeadRead ==
  ASSUME NEW q \in Seq(LiveEvent), q # <<>>, NEW x
  PROVE  /\ Holds(q, x) /\ Head(q).match # x => Holds(Tail(q), x)
         /\ HasEnd(q, x) /\ ~(Head(q).match = x /\ Final(Head(q))) => HasEnd(Tail(q), x)
         /\ \A v : Latest(q, x, v) =>
              /\ Latest(Tail(q), x, v)
              /\ Head(q).match = x /\ ~Holds(Tail(q), x) => Head(q).version = v
         /\ Holds(Tail(q), x) => Holds(q, x)
<1> DEFINE r == Tail(q)
           h == Head(q)
<1>1. /\ Len(q) = Len(r) + 1 /\ Len(r) \in Nat /\ h = q[1]
      /\ \A i \in 1..Len(r) : r[i] = q[i + 1]
  OBVIOUS
<1>2. /\ \A i \in 1..Len(r) : i + 1 \in 1..Len(q)
      /\ \A i \in 1..Len(q) : i = 1 \/ (i - 1 \in 1..Len(r) /\ q[i] = r[i - 1])
  BY <1>1
<1> HIDE DEF r, h
<1>3. Holds(q, x) /\ h.match # x => Holds(r, x)
  BY <1>1, <1>2 DEF Holds
<1>4. HasEnd(q, x) /\ ~(h.match = x /\ Final(h)) => HasEnd(r, x)
  BY <1>1, <1>2 DEF HasEnd
<1>5. ASSUME NEW v, Latest(q, x, v)
      PROVE  Latest(r, x, v) /\ (h.match = x /\ ~Holds(r, x) => h.version = v)
  <2>1. Latest(r, x, v)
    <3> SUFFICES ASSUME NEW i \in 1..Len(r), r[i].match = x, \A j \in 1..Len(r) : j > i => r[j].match # x
                 PROVE  r[i].version = v
      BY DEF Latest
    <3>1. i + 1 \in 1..Len(q) /\ q[i + 1] = r[i]
      BY <1>1, <1>2
    <3>2. ASSUME NEW j \in 1..Len(q), j > i + 1 PROVE q[j].match # x
      <4>1. j - 1 \in 1..Len(r) /\ q[j] = r[j - 1] /\ j - 1 > i
        BY <1>1, <1>2, <3>2
      <4>2. QED
        BY <4>1
    <3>3. QED
      BY <1>5, <3>1, <3>2 DEF Latest
  <2>2. ASSUME h.match = x, ~Holds(r, x) PROVE h.version = v
    <3>1. 1 \in 1..Len(q) /\ q[1] = h
      BY <1>1
    <3>2. ASSUME NEW j \in 1..Len(q), j > 1 PROVE q[j].match # x
      <4>1. j - 1 \in 1..Len(r) /\ q[j] = r[j - 1]
        BY <1>1, <1>2, <3>2
      <4>2. QED
        BY <2>2, <4>1 DEF Holds
    <3>3. QED
      BY <1>5, <2>2, <3>1, <3>2 DEF Latest
  <2>3. QED
    BY <2>1, <2>2
<1>6. Holds(r, x) => Holds(q, x)
  BY <1>1, <1>2 DEF Holds
<1>7. QED
  BY <1>3, <1>4, <1>5, <1>6 DEF r, h

(* A table's stream that lost nothing got what was published.              *)
LEMMA TableGets ==
  ASSUME LiveType, NEW ev \in LiveEvent, Publish(ev), NEW r \in TableStreams
  PROVE  /\ r \in Streams /\ pc' = pc /\ current' = current /\ wrote' = wrote
         /\ ~lost'[r] => /\ ~lost[r]
                         /\ pc[r] # "away" => events'[r] = Append(events[r], ev)
                         /\ pc[r] = "away" => events'[r] = events[r]
<1>1. r \in Streams /\ lost[r] \in BOOLEAN
  BY DEF Streams, LiveType
<1>2. Gets(r, ev) <=> pc[r] # "away"
  BY DEF Gets
<1>3. QED
  BY <1>1, <1>2, PublishSends

LEMMA TableStep ==
  ASSUME LiveType, StreamsFit, TableIsLatest, [LiveNext]_liveVars
  PROVE  TableIsLatest'
<1> SUFFICES ASSUME NEW r \in TableStreams, NEW y \in Ids, y \notin stale', ~lost'[r]
             PROVE  /\ Latest(events'[r], y, version'[y])
                    /\ pc'[r] = "loop" /\ wrote'[r].match = y /\ ~Holds(events'[r], y)
                         => wrote'[r].version = version'[y]
  <2>1. SUFFICES ASSUME NEW r \in TableStreams, NEW y \in Ids \ stale', ~lost'[r]
                 PROVE  /\ Latest(events'[r], y, version'[y])
                        /\ pc'[r] = "loop" /\ wrote'[r].match = y /\ ~Holds(events'[r], y)
                             => wrote'[r].version = version'[y]
    <3>1. Ids' = Ids /\ TableStreams' = TableStreams
      BY DEF Ids
    <3>2. QED
      BY <3>1 DEF TableIsLatest, Latest, Holds
  <2>2. QED
    BY <2>1
<1>a. r \in Streams /\ events[r] \in Seq(LiveEvent)
  BY DEF Streams, LiveType
<1>b. ASSUME ~lost[r], y \notin stale
      PROVE  /\ Latest(events[r], y, version[y])
             /\ pc[r] = "loop" /\ wrote[r].match = y /\ ~Holds(events[r], y)
                  => wrote[r].version = version[y]
  BY <1>b DEF TableIsLatest
<1>1. CASE Create
  <2>1. /\ version' = version /\ pc' = pc /\ current' = current /\ events' = events /\ wrote' = wrote
        /\ lost' = lost /\ stale' = stale
    BY <1>1, CreateTells
  <2>2. QED
    BY <1>b, <2>1
<1>2. CASE \E x \in Ids : Changes(x)
  <2>1. PICK x \in Ids : Changes(x)
    BY <1>2
  <2>2. PICK ev \in LiveEvent :
          /\ ev.kind = "transition" /\ ev.match = x /\ ev.version = version'[x] /\ Publish(ev)
          /\ \A z \in Ids \ {x} : version'[z] = version[z]
          /\ stale' = stale
    BY <2>1, ChangeSends
  <2>3. /\ pc' = pc /\ current' = current /\ wrote' = wrote /\ ~lost[r]
        /\ pc[r] # "away" => events'[r] = Append(events[r], ev)
        /\ pc[r] = "away" => events'[r] = events[r]
    BY <2>2, TableGets
  <2>4. CASE pc[r] = "away"
    <3>1. /\ \A i \in 1..Len(events[r]) : FALSE
      <4>1. events[r] = <<>>
        BY <1>a, <2>4 DEF StreamsFit
      <4>2. QED
        BY <4>1
    <3>2. QED
      BY <2>3, <2>4, <3>1 DEF Latest
  <2>5. CASE pc[r] # "away" /\ y = x
    <3>1. Latest(events'[r], y, version'[y]) /\ Holds(events'[r], y)
      BY <1>a, <2>2, <2>3, <2>5, Appended
    <3>2. QED
      BY <3>1
  <2>6. CASE pc[r] # "away" /\ y # x
    <3>1. version'[y] = version[y] /\ y \notin stale
      BY <2>2, <2>6
    <3>2. PICK v : v = version[y] /\ v = version'[y] /\ Latest(events[r], y, v)
      BY <1>b, <2>3, <3>1
    <3>3. ev.match # y
      BY <2>2, <2>6
    <3>4. Latest(Append(events[r], ev), y, v) /\ (Holds(events[r], y) => Holds(Append(events[r], ev), y))
      BY <1>a, <2>2, <3>2, <3>3, Appended
    <3>5. QED
      BY <1>b, <2>3, <2>6, <3>1, <3>2, <3>4
  <2>7. QED
    BY <2>4, <2>5, <2>6
<1>3. CASE \E x \in Ids : End(x)
  <2>1. /\ version' = version /\ pc' = pc /\ current' = current /\ events' = events /\ wrote' = wrote
        /\ lost' = lost /\ stale' = stale
    BY <1>3, EndTells
  <2>2. QED
    BY <1>b, <2>1
<1>4. CASE \E ev \in saying : Announce(ev)
  <2>1. PICK ev \in saying : Announce(ev)
    BY <1>4
  <2>2. /\ ev \in LiveEvent /\ Publish(ev) /\ version' = version /\ stale \subseteq stale'
        /\ ev.match \notin stale' => ev.version = version[ev.match]
    BY <2>1, AnnounceSends
  <2>3. /\ pc' = pc /\ current' = current /\ wrote' = wrote /\ ~lost[r] /\ y \notin stale
        /\ pc[r] # "away" => events'[r] = Append(events[r], ev)
        /\ pc[r] = "away" => events'[r] = events[r]
    BY <2>2, TableGets
  <2>4. CASE pc[r] = "away"
    BY <1>b, <2>2, <2>3, <2>4
  <2>5. CASE pc[r] # "away" /\ y = ev.match
    <3>1. Latest(events'[r], y, version'[y]) /\ Holds(events'[r], y)
      BY <1>a, <2>2, <2>3, <2>5, Appended
    <3>2. QED
      BY <3>1
  <2>6. CASE pc[r] # "away" /\ y # ev.match
    <3>1. Latest(events'[r], y, version'[y]) /\ (Holds(events[r], y) => Holds(events'[r], y))
      BY <1>a, <1>b, <2>2, <2>3, <2>6, Appended
    <3>2. QED
      BY <1>b, <2>2, <2>3, <3>1
  <2>7. QED
    BY <2>4, <2>5, <2>6
<1>5. CASE \E s \in Streams : StreamActs(s)
  <2>1. PICK s \in Streams : StreamActs(s)
    BY <1>5
  <2>2. PICK p, c, q, w, l : Moves(s, p, c, q, w, l) /\ Does(s, p, c, q, w, l)
    BY <2>1, StreamMoves
  <2>3. /\ pc'[s] = p /\ events'[s] = q /\ wrote'[s] = w /\ lost'[s] = l
        /\ r # s => /\ pc'[r] = pc[r] /\ events'[r] = events[r] /\ wrote'[r] = wrote[r]
                    /\ lost'[r] = lost[r]
        /\ version' = version /\ stale' = stale
    BY <1>a, <2>2, MovesOne
  <2>4. CASE r # s
    BY <1>b, <2>3, <2>4
  <2>5. CASE r = s
    <3>0. SUFFICES Latest(q, y, version[y])
                   /\ (p = "loop" /\ w.match = y /\ ~Holds(q, y) => w.version = version[y])
      BY <2>3, <2>5
    <3>a. l = FALSE \/ ~l
      BY <2>3, <2>5
    <3>1. CASE q = <<>> /\ p # "loop"
      BY <3>1 DEF Latest
    <3>2. CASE Connects(s, p, c, q, w, l)
      BY <3>1, <3>2 DEF Connects
    <3>3. CASE Looks(s, p, c, q, w, l)
      <4>1. q = events[r] /\ ~lost[r] /\ (p # "loop" \/ w.match = 0) /\ y # 0
        BY <2>3, <2>5, <3>3, CurrentRuns DEF Looks, NoMatch
      <4>2. QED
        BY <1>b, <2>3, <4>1
    <3>4. CASE Snaps(s, p, c, q, w, l)
      <4>1. q = events[r] /\ ~lost[r] /\ w.match = c /\ w.version = version[c]
        BY <2>3, <2>5, <3>4 DEF Snaps, StateOf
      <4>2. QED
        BY <1>b, <2>3, <4>1
    <3>5. CASE ReadsOwn(s, p, c, q, w, l)
      <4>1. q = Tail(events[r]) /\ events[r] # <<>> /\ ~lost[r] /\ w = Head(events[r])
        BY <2>3, <2>5, <3>5 DEF ReadsOwn
      <4>2. Latest(events[r], y, version[y])
        BY <1>b, <2>3, <4>1
      <4>3. QED
        BY <1>a, <4>1, <4>2, HeadRead
    <3>6. CASE ReadsOther(s, p, c, q, w, l)
      <4>1. q = Tail(events[r]) /\ events[r] # <<>> /\ ~lost[r] /\ pc[r] = "loop" /\ y \notin stale
        BY <2>3, <2>5, <3>6 DEF ReadsOther
      <4>2. PICK h \in LiveEvent : h = Head(events[r])
        BY <1>a, <4>1
      <4>3. /\ Latest(q, y, version[y])
            /\ h.match = y /\ ~Holds(q, y) => h.version = version[y]
            /\ Holds(events[r], y) /\ h.match # y => Holds(q, y)
        BY <1>a, <1>b, <4>1, <4>2, HeadRead
      <4>4. CASE w = [h EXCEPT !.kind = "snapshot"]
        <5>1. w.match = h.match /\ w.version = h.version
          BY <4>4 DEF LiveEvent
        <5>2. QED
          BY <4>3, <5>1
      <4>5. CASE w = wrote[s] /\ h.match # current[s]
        <5>1. wrote[r].match = current[r]
          BY <1>a, <4>1 DEF StreamsFit
        <5>2. QED
          BY <1>b, <2>5, <4>1, <4>3, <4>5, <5>1
      <4>6. QED
        BY <2>5, <3>6, <4>2, <4>4, <4>5 DEF ReadsOther
    <3>7. CASE Leaves(s, p, c, q, w, l)
      BY <3>1, <3>7 DEF Leaves
    <3>8. QED
      BY <2>2, <3>2, <3>3, <3>4, <3>5, <3>6, <3>7 DEF Does
  <2>6. QED
    BY <2>4, <2>5
<1>6. CASE UNCHANGED liveVars
  BY <1>b, <1>6 DEF liveVars, matchVars, streamVars
<1>7. QED
  BY <1>1, <1>2, <1>3, <1>4, <1>5, <1>6, LiveSteps

-----------------------------------------------------------------------------
(* What the table's stream is still to hear.                               *)

LEMMA FewAreOne ==
  ASSUME NEW S, IsFiniteSet(S), ~(Cardinality(S) > 1), NEW x \in S, NEW y \in S
  PROVE  x = y
<1> SUFFICES ASSUME x # y PROVE FALSE
  OBVIOUS
<1>1. IsFiniteSet({x}) /\ Cardinality({x}) = 1
  BY FS_Singleton
<1>2. Cardinality({x} \cup {y}) = 2
  <2>1. y \notin {x}
    OBVIOUS
  <2>2. Cardinality({x} \cup {y}) = Cardinality({x}) + 1
    BY <1>1, <2>1, FS_AddElement
  <2>3. QED
    BY <1>1, <2>2
<1>3. {x} \cup {y} \subseteq S
  OBVIOUS
<1>4. Cardinality({x} \cup {y}) <= Cardinality(S) /\ Cardinality(S) \in Nat
  BY <1>3, FS_Subset, FS_CardinalityType
<1>5. QED
  BY <1>2, <1>4

LEMMA AloneStep ==
  ASSUME LiveType, StreamsFit, Alone, [LiveNext]_liveVars
  PROVE  Alone'
<1>1. LiveType' /\ Ids' = Ids
  BY LiveTypeStep DEF Ids
<1>2. ASSUME Crowds PROVE Alone'
  <2>1. MaxMatches \in Nat /\ made' \in Nat
    BY <1>1, LiveAssumption DEF LiveType
  <2>2. Running' \subseteq 1..made'
    BY DEF Running
  <2>3. IsFiniteSet(1..made')
    BY <2>1, FS_Interval
  <2>4. IsFiniteSet(Running')
    BY <2>2, <2>3, FS_Subset
  <2>5. ~crowded' => ~(Cardinality(Running') > 1)
    BY <1>2 DEF Crowds
  <2>6. QED
    BY <2>4, <2>5, FewAreOne DEF Alone
<1>3. ASSUME Running' \subseteq Running, crowded' = crowded PROVE Alone'
  BY <1>3 DEF Alone
<1>4. CASE Create
  BY <1>2, <1>4, CreateTells
<1>5. CASE \E x \in Ids : Changes(x)
  BY <1>2, <1>5 DEF Changes
<1>6. CASE \E x \in Ids : End(x)
  <2>1. PICK x \in Ids : End(x)
    BY <1>6
  <2>2. ended' = [ended EXCEPT ![x] = TRUE] /\ made' = made /\ over' = over /\ crowded' = crowded
    BY <2>1 DEF End
  <2>3. \A y \in Ids : ~ended'[y] => ~ended[y]
    BY <2>2 DEF LiveType
  <2>4. 1..made \subseteq Ids
    BY LiveAssumption DEF LiveType, Ids
  <2>5. Running' \subseteq Running
    BY <2>2, <2>3, <2>4 DEF Running
  <2>6. QED
    BY <1>3, <2>2, <2>5
<1>7. CASE \E ev \in saying : Announce(ev)
  <2>1. PICK ev \in saying : Announce(ev)
    BY <1>7
  <2>2. made' = made /\ over' = over /\ ended' = ended /\ crowded' = crowded
    BY <2>1, AnnounceSends
  <2>3. QED
    BY <1>3, <2>2 DEF Running
<1>8. CASE \E s \in Streams : StreamActs(s)
  <2>1. PICK s \in Streams : StreamActs(s)
    BY <1>8
  <2>2. PICK p, c, q, w, l : Moves(s, p, c, q, w, l)
    BY <2>1, StreamMoves
  <2>3. QED
    BY <1>3, <2>2, MovesOne
<1>9. CASE UNCHANGED liveVars
  BY <1>9 DEF liveVars, matchVars, Alone, Running
<1>10. QED
  BY <1>4, <1>5, <1>6, <1>7, <1>8, <1>9, LiveSteps

LEMMA EndStep ==
  ASSUME LiveType, StreamsFit, EndIsTold, [LiveNext]_liveVars
  PROVE  EndIsTold'
<1> SUFFICES ASSUME NEW r \in TableStreams, ~lost'[r], pc'[r] \in {"snapshot", "loop"}, current'[r] # 0
             PROVE  \/ current'[r] \in Running'
                    \/ HasEnd(events'[r], current'[r])
                    \/ \E ev \in saying' : ev.match = current'[r] /\ ev.kind = "ended"
  BY DEF EndIsTold, HasEnd, Final
<1>a. r \in Streams /\ events[r] \in Seq(LiveEvent) /\ current[r] \in Ids \cup {0} /\ 1..made \subseteq Ids
  BY LiveAssumption DEF Streams, LiveType, Ids
<1>b. ASSUME ~lost[r], pc[r] \in {"snapshot", "loop"}, current[r] # 0
      PROVE  \/ current[r] \in Running
             \/ HasEnd(events[r], current[r])
             \/ \E ev \in saying : ev.match = current[r] /\ ev.kind = "ended"
  BY <1>b DEF EndIsTold
<1>1. CASE Create
  <2>1. PICK ev : /\ saying' = saying \cup {ev} /\ made' = made + 1
                  /\ over' = over /\ ended' = ended
                  /\ pc' = pc /\ current' = current /\ events' = events /\ lost' = lost
    BY <1>1, CreateTells
  <2>2. Running \subseteq Running'
    <3>1. made \in Nat
      BY LiveAssumption DEF LiveType
    <3>2. 1..made \subseteq 1..(made + 1)
      BY <3>1
    <3>3. QED
      BY <2>1, <3>2 DEF Running
  <2>3. QED
    BY <1>b, <2>1, <2>2
<1>2. CASE \E x \in Ids : Changes(x)
  <2>1. PICK x \in Ids : Changes(x)
    BY <1>2
  <2>2. PICK ev \in LiveEvent :
          /\ ev.match = x /\ ev.complete = over'[x] /\ Publish(ev)
          /\ over' \in [Ids -> BOOLEAN] /\ \A y \in Ids \ {x} : over'[y] = over[y]
          /\ made' = made /\ ended' = ended /\ saying' = saying
    BY <2>1, ChangeSends
  <2>3. /\ pc' = pc /\ current' = current /\ ~lost[r]
        /\ pc[r] # "away" => events'[r] = Append(events[r], ev)
    BY <2>2, TableGets
  <2>4. events'[r] = Append(events[r], ev)
    BY <2>3
  <2>5. CASE HasEnd(events[r], current[r])
    BY <1>a, <2>3, <2>4, <2>5, Appended
  <2>6. CASE \E e \in saying : e.match = current[r] /\ e.kind = "ended"
    BY <2>2, <2>3, <2>6
  <2>7. CASE current[r] \in Running
    <3>1. CASE current[r] # x
      BY <1>a, <2>2, <2>3, <2>7, <3>1 DEF Running
    <3>2. CASE current[r] = x /\ over'[x]
      <4>1. Final(ev)
        BY <2>2, <3>2 DEF Final
      <4>2. QED
        BY <1>a, <2>2, <2>3, <2>4, <3>2, <4>1, Appended
    <3>3. CASE current[r] = x /\ ~over'[x]
      BY <2>2, <2>3, <2>7, <3>3 DEF Running
    <3>4. QED
      BY <3>1, <3>2, <3>3
  <2>8. QED
    BY <1>b, <2>3, <2>5, <2>6, <2>7
<1>3. CASE \E x \in Ids : End(x)
  <2>1. PICK x \in Ids : End(x)
    BY <1>3
  <2>2. PICK ev \in LiveEvent :
          /\ ev.kind = "ended" /\ ev.match = x /\ saying' = saying \cup {ev}
          /\ \A y \in Ids \ {x} : ended'[y] = ended[y]
          /\ made' = made /\ over' = over
          /\ pc' = pc /\ current' = current /\ events' = events /\ lost' = lost
    BY <2>1, EndTells
  <2>3. CASE current[r] = x
    BY <2>2, <2>3
  <2>4. CASE current[r] # x
    <3>1. current[r] \in Running => current[r] \in Running'
      BY <1>a, <2>2, <2>4 DEF Running
    <3>2. QED
      BY <1>b, <2>2, <3>1
  <2>5. QED
    BY <2>3, <2>4
<1>4. CASE \E ev \in saying : Announce(ev)
  <2>1. PICK ev \in saying : Announce(ev)
    BY <1>4
  <2>2. /\ ev \in LiveEvent /\ Publish(ev) /\ saying' = saying \ {ev}
        /\ made' = made /\ over' = over /\ ended' = ended
    BY <2>1, AnnounceSends
  <2>3. /\ pc' = pc /\ current' = current /\ ~lost[r]
        /\ pc[r] # "away" => events'[r] = Append(events[r], ev)
    BY <2>2, TableGets
  <2>4. events'[r] = Append(events[r], ev) /\ Running' = Running
    BY <2>2, <2>3 DEF Running
  <2>5. CASE HasEnd(events[r], current[r])
    BY <1>a, <2>2, <2>3, <2>4, <2>5, Appended
  <2>6. CASE ev.match = current[r] /\ ev.kind = "ended"
    <3>1. Final(ev)
      BY <2>6 DEF Final
    <3>2. QED
      BY <1>a, <2>2, <2>3, <2>4, <2>6, <3>1, Appended
  <2>7. QED
    BY <1>b, <2>2, <2>3, <2>4, <2>5, <2>6
<1>5. CASE \E s \in Streams : StreamActs(s)
  <2>1. PICK s \in Streams : StreamActs(s)
    BY <1>5
  <2>2. PICK p, c, q, w, l : Moves(s, p, c, q, w, l) /\ Does(s, p, c, q, w, l)
    BY <2>1, StreamMoves
  <2>3. /\ pc'[s] = p /\ current'[s] = c /\ events'[s] = q /\ lost'[s] = l
        /\ r # s => /\ pc'[r] = pc[r] /\ current'[r] = current[r] /\ events'[r] = events[r]
                    /\ lost'[r] = lost[r]
        /\ saying' = saying /\ Running' = Running
    BY <1>a, <2>2, MovesOne
  <2>4. CASE r # s
    BY <1>b, <2>3, <2>4
  <2>5. CASE r = s
    <3>1. CASE Connects(s, p, c, q, w, l)
      BY <2>3, <2>5, <3>1, Disjoint DEF Connects
    <3>2. CASE Looks(s, p, c, q, w, l)
      BY <2>3, <2>5, <3>2, CurrentRuns DEF Looks
    <3>3. CASE Snaps(s, p, c, q, w, l)
      BY <1>b, <2>3, <2>5, <3>3 DEF Snaps
    <3>4. CASE ReadsOwn(s, p, c, q, w, l)
      <4>1. /\ q = Tail(events[r]) /\ events[r] # <<>> /\ ~lost[r] /\ c = current[r] /\ pc[r] = "loop"
            /\ ~Final(Head(events[r]))
        BY <2>3, <2>5, <3>4 DEF ReadsOwn
      <4>2. HasEnd(events[r], c) => HasEnd(q, c)
        BY <1>a, <4>1, HeadRead
      <4>3. QED
        BY <1>b, <2>3, <2>5, <4>1, <4>2
    <3>5. CASE ReadsOther(s, p, c, q, w, l)
      <4>1. CASE c = Current
        BY <2>3, <2>5, <4>1, CurrentRuns
      <4>2. CASE c = current[r]
        <5>1. /\ q = Tail(events[r]) /\ events[r] # <<>> /\ ~lost[r] /\ pc[r] = "loop"
              /\ Head(events[r]).match # c
          BY <2>3, <2>5, <3>5, <4>2 DEF ReadsOther
        <5>2. HasEnd(events[r], c) => HasEnd(q, c)
          BY <1>a, <5>1, HeadRead
        <5>3. QED
          BY <1>b, <2>3, <2>5, <4>2, <5>1, <5>2
      <4>3. QED
        BY <2>5, <3>5, <4>1, <4>2 DEF ReadsOther
    <3>6. CASE Leaves(s, p, c, q, w, l)
      BY <2>3, <2>5, <3>6 DEF Leaves
    <3>7. QED
      BY <2>2, <3>1, <3>2, <3>3, <3>4, <3>5, <3>6 DEF Does
  <2>6. QED
    BY <2>4, <2>5
<1>6. CASE UNCHANGED liveVars
  BY <1>b, <1>6 DEF liveVars, matchVars, streamVars, Running
<1>7. QED
  BY <1>1, <1>2, <1>3, <1>4, <1>5, <1>6, LiveSteps

LEMMA StartStep ==
  ASSUME LiveType, StreamsFit, Alone, StartIsTold, [LiveNext]_liveVars
  PROVE  StartIsTold'
<1> SUFFICES ASSUME NEW r \in TableStreams, NEW y \in Running', ~crowded', ~lost'[r],
                    pc'[r] = "loop", current'[r] = 0
             PROVE  Holds(events'[r], y) \/ \E ev \in saying' : ev.match = y
  BY DEF StartIsTold, Holds
<1>a. /\ r \in Streams /\ events[r] \in Seq(LiveEvent) /\ current[r] \in Ids \cup {0}
      /\ 1..made \subseteq Ids /\ 0 \notin Ids /\ made \in Nat /\ crowded \in BOOLEAN
  BY LiveAssumption DEF Streams, LiveType, Ids
<1>b. ASSUME ~crowded, ~lost[r], pc[r] = "loop", current[r] = 0, y \in Running
      PROVE  Holds(events[r], y) \/ \E ev \in saying : ev.match = y
  BY <1>b DEF StartIsTold
<1>1. CASE Create
  <2>1. PICK ev : /\ ev.match = made + 1 /\ saying' = saying \cup {ev} /\ made' = made + 1
                  /\ over' = over /\ ended' = ended /\ Crowds
                  /\ pc' = pc /\ current' = current /\ events' = events /\ lost' = lost
    BY <1>1, CreateTells
  <2>2. y = made + 1 \/ y \in Running
    BY <1>a, <2>1 DEF Running
  <2>3. ~crowded
    BY <2>1 DEF Crowds
  <2>4. QED
    BY <1>b, <2>1, <2>2, <2>3
<1>2. CASE \E x \in Ids : Changes(x)
  <2>1. PICK x \in Ids : Changes(x)
    BY <1>2
  <2>2. PICK ev \in LiveEvent :
          /\ ev.match = x /\ Publish(ev)
          /\ \A z \in Ids \ {x} : over'[z] = over[z]
          /\ made' = made /\ ended' = ended /\ saying' = saying /\ Crowds
    BY <2>1, ChangeSends
  <2>3. /\ pc' = pc /\ current' = current /\ ~lost[r]
        /\ pc[r] # "away" => events'[r] = Append(events[r], ev)
    BY <2>2, TableGets
  <2>4. events'[r] = Append(events[r], ev) /\ ~crowded
    BY <2>2, <2>3 DEF Crowds
  <2>5. CASE y = x
    BY <1>a, <2>2, <2>4, <2>5, Appended
  <2>6. CASE y # x
    <3>1. y \in Running
      BY <1>a, <2>2, <2>6 DEF Running
    <3>2. Holds(events[r], y) \/ \E e \in saying : e.match = y
      BY <1>b, <2>3, <2>4, <3>1
    <3>3. QED
      BY <1>a, <2>2, <2>4, <3>2, Appended
  <2>7. QED
    BY <2>5, <2>6
<1>3. CASE \E x \in Ids : End(x)
  <2>1. PICK x \in Ids : End(x)
    BY <1>3
  <2>2. PICK ev \in LiveEvent :
          /\ saying' = saying \cup {ev} /\ ended'[x]
          /\ \A z \in Ids \ {x} : ended'[z] = ended[z]
          /\ made' = made /\ over' = over /\ crowded' = crowded
          /\ pc' = pc /\ current' = current /\ events' = events /\ lost' = lost
    BY <2>1, EndTells
  <2>3. y \in Running
    BY <1>a, <2>2 DEF Running
  <2>4. QED
    BY <1>b, <2>2, <2>3
<1>4. CASE \E ev \in saying : Announce(ev)
  <2>1. PICK ev \in saying : Announce(ev)
    BY <1>4
  <2>2. /\ ev \in LiveEvent /\ Publish(ev) /\ saying' = saying \ {ev}
        /\ made' = made /\ over' = over /\ ended' = ended /\ crowded' = crowded
    BY <2>1, AnnounceSends
  <2>3. /\ pc' = pc /\ current' = current /\ ~lost[r]
        /\ pc[r] # "away" => events'[r] = Append(events[r], ev)
    BY <2>2, TableGets
  <2>4. events'[r] = Append(events[r], ev) /\ y \in Running
    BY <2>2, <2>3 DEF Running
  <2>5. CASE ev.match = y
    BY <1>a, <2>2, <2>4, <2>5, Appended
  <2>6. CASE ev.match # y
    <3>1. Holds(events[r], y) \/ \E e \in saying : e.match = y
      BY <1>b, <2>2, <2>3, <2>4
    <3>2. QED
      BY <1>a, <2>2, <2>4, <2>6, <3>1, Appended
  <2>7. QED
    BY <2>5, <2>6
<1>5. CASE \E s \in Streams : StreamActs(s)
  <2>1. PICK s \in Streams : StreamActs(s)
    BY <1>5
  <2>2. PICK p, c, q, w, l : Moves(s, p, c, q, w, l) /\ Does(s, p, c, q, w, l)
    BY <2>1, StreamMoves
  <2>3. /\ pc'[s] = p /\ current'[s] = c /\ events'[s] = q /\ lost'[s] = l
        /\ r # s => /\ pc'[r] = pc[r] /\ current'[r] = current[r] /\ events'[r] = events[r]
                    /\ lost'[r] = lost[r]
        /\ saying' = saying /\ y \in Running /\ ~crowded
    BY <1>a, <2>2, MovesOne
  <2>4. CASE r # s
    BY <1>b, <2>3, <2>4
  <2>5. CASE r = s
    <3>a. p = "loop" /\ c = 0 /\ ~l
      BY <2>3, <2>5
    <3>1. CASE Connects(s, p, c, q, w, l)
      BY <3>a, <3>1 DEF Connects
    <3>2. CASE Looks(s, p, c, q, w, l)
      BY <1>a, <2>3, <3>a, <3>2, CurrentRuns DEF Looks
    <3>3. CASE Snaps(s, p, c, q, w, l)
      BY <3>a, <3>3 DEF Snaps, StreamsFit
    <3>4. CASE ReadsOwn(s, p, c, q, w, l)
      <4>1. Head(events[r]) \in LiveEvent /\ Head(events[r]).match = 0
        BY <1>a, <2>5, <3>a, <3>4 DEF ReadsOwn
      <4>2. QED
        BY <1>a, <4>1 DEF LiveEvent
    <3>5. CASE ReadsOther(s, p, c, q, w, l)
      <4>1. /\ q = Tail(events[r]) /\ events[r] # <<>> /\ ~lost[r] /\ pc[r] = "loop"
            /\ Head(events[r]) \in LiveEvent
        BY <1>a, <2>5, <3>a, <3>5 DEF ReadsOther
      <4>2. Current \in Running /\ Current # 0
        BY <1>a, <2>3, CurrentRuns
      <4>3. Head(events[r]).match # Current /\ current[r] = 0
        BY <2>5, <3>a, <3>5, <4>2 DEF ReadsOther
      <4>4. y = Current
        BY <2>3, <4>2 DEF Alone
      <4>5. Holds(events[r], y) => Holds(q, y)
        BY <1>a, <4>1, <4>3, <4>4, HeadRead
      <4>6. QED
        BY <1>b, <2>3, <2>5, <4>1, <4>3, <4>5
    <3>6. CASE Leaves(s, p, c, q, w, l)
      BY <3>a, <3>6 DEF Leaves
    <3>7. QED
      BY <2>2, <3>1, <3>2, <3>3, <3>4, <3>5, <3>6 DEF Does
  <2>6. QED
    BY <2>4, <2>5
<1>6. CASE UNCHANGED liveVars
  BY <1>b, <1>6 DEF liveVars, matchVars, streamVars, Running
<1>7. QED
  BY <1>1, <1>2, <1>3, <1>4, <1>5, <1>6, LiveSteps

-----------------------------------------------------------------------------
LEMMA LiveInvInit == LiveInit => LiveInv
<1> SUFFICES ASSUME LiveInit PROVE LiveInv
  OBVIOUS
<1>1. LiveType /\ StreamsFit
  BY LiveTypeInit
<1>2. OwnIsLatest
  BY DEF LiveInit, OwnIsLatest, Streams
<1>3. TableIsLatest
  <2>1. \A s \in TableStreams : events[s] = <<>> /\ pc[s] = "away"
    BY DEF LiveInit, Streams
  <2>2. QED
    BY <2>1 DEF TableIsLatest, Latest
<1>4. Running = {}
  BY DEF LiveInit, Running
<1>5. Alone /\ StartIsTold
  BY <1>4 DEF Alone, StartIsTold
<1>6. EndIsTold
  BY DEF LiveInit, EndIsTold, Streams
<1>7. QED
  BY <1>1, <1>2, <1>3, <1>5, <1>6 DEF LiveInv

LEMMA LiveInvStep == LiveInv /\ [LiveNext]_liveVars => LiveInv'
BY LiveTypeStep, OwnStep, TableStep, AloneStep, EndStep, StartStep DEF LiveInv

(* The inductive invariant of the hub and its streams.                     *)
THEOREM LiveInvariant == LiveSpec => []LiveInv
BY LiveInvInit, LiveInvStep, PTL DEF LiveSpec

(* ScoreIsNow: however far behind a stream falls and whatever it loses, it *)
(* shows the score once it has read all (stream, liveStream, send).        *)
THEOREM LiveScoreIsNow == LiveSpec => []ScoreIsNow
<1>1. LiveInv => ScoreIsNow
  <2> SUFFICES ASSUME LiveInv PROVE ScoreIsNow
    OBVIOUS
  <2>1. \A s \in MatchStreams : CaughtUp(s) => wrote[s].version = version[current[s]]
    BY DEF LiveInv, OwnIsLatest, CaughtUp
  <2>2. ASSUME NEW s \in TableStreams, CaughtUp(s), ~lost[s], wrote[s].match \notin stale \cup {0}
        PROVE  wrote[s].version = version[wrote[s].match]
    <3>1. s \in Streams /\ pc[s] = "loop" /\ events[s] = <<>>
      BY <2>2 DEF Streams, CaughtUp
    <3>2. wrote[s].match \in Ids
      BY <2>2, <3>1 DEF LiveInv, LiveType, StreamsFit
    <3>3. ~Holds(events[s], wrote[s].match)
      BY <3>1 DEF Holds
    <3>4. QED
      BY <2>2, <3>1, <3>2, <3>3 DEF LiveInv, TableIsLatest
  <2>3. QED
    BY <2>1, <2>2 DEF ScoreIsNow
<1>2. QED
  BY <1>1, LiveInvariant, PTL

(* TableIsFollowed: a table's stream that has read all and lost nothing is *)
(* on no match that was won or ended, and, while matches run one at a      *)
(* time, on the one that runs (liveStream, tableTransition).               *)
THEOREM LiveTableIsFollowed == LiveSpec => []TableIsFollowed
<1>1. LiveInv => TableIsFollowed
  <2> SUFFICES ASSUME LiveInv, NEW s \in TableStreams, CaughtUp(s), ~lost[s], saying = {}
               PROVE  /\ wrote[s].match \in Running \cup {0}
                      /\ ~crowded => wrote[s].match = Current
    BY DEF TableIsFollowed
  <2>1. s \in Streams /\ pc[s] = "loop" /\ events[s] = <<>> /\ wrote[s].match = current[s]
    BY DEF Streams, CaughtUp, LiveInv, StreamsFit
  <2>2. \A x : ~Holds(events[s], x) /\ ~HasEnd(events[s], x)
    BY <2>1 DEF Holds, HasEnd
  <2>3. current[s] \in Running \cup {0}
    BY <2>1, <2>2 DEF LiveInv, EndIsTold
  <2>4. ASSUME ~crowded PROVE current[s] = Current
    <3>1. CASE Running = {}
      BY <2>3, <3>1, CurrentRuns DEF LiveInv
    <3>2. CASE Running # {} /\ current[s] = 0
      <4>1. PICK x \in Running : TRUE
        BY <3>2
      <4>2. Holds(events[s], x) \/ \E ev \in saying : ev.match = x
        BY <2>1, <2>4, <3>2 DEF LiveInv, StartIsTold
      <4>3. QED
        BY <2>2, <4>2
    <3>3. CASE Running # {} /\ current[s] \in Running
      <4>1. Current \in Running
        BY <3>3, CurrentRuns DEF LiveInv
      <4>2. QED
        BY <2>4, <3>3, <4>1 DEF LiveInv, Alone
    <3>4. QED
      BY <2>3, <3>1, <3>2, <3>3
  <2>5. QED
    BY <2>1, <2>3, <2>4
<1>2. QED
  BY <1>1, LiveInvariant, PTL
=============================================================================
