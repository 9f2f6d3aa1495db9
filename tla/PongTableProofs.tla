-------------------------- MODULE PongTableProofs ---------------------------
(***************************************************************************)
(* Theorems about PongTable, for every length of a series, every number of *)
(* matches, requests, holds, undos and faults, and every choice of modes.  *)
(***************************************************************************)
EXTENDS PongTable, FiniteSetTheorems, SequenceTheorems, WellFoundedInduction, TLAPS

Event == [kind : {"none", "snapshot", "ended", "won"}, match : Nat]
Game  == [for : Callers, match : Nat, pc : {"play", "won", "wrong", "done", "gone"}, cause : Causes,
          status : {"playing", "won", "ended"}, saw : {"", "ended", "won"}]
Start == [pc : {"free", "yield", "yielding", "follow", "look", "skip", "create"},
          for : Callers, match : Nat]
Launching == start.pc \in {"look", "skip", "create"}

(* The part of TypeOK the rest needs: matches, streams, games and the start.*)
TableType ==
  /\ kinds \in Seq({"demo", "real"}) /\ Len(kinds) <= MaxMatches
  /\ live \subseteq Matches /\ won \subseteq Matches /\ live \cap won = {}
  /\ pending \in [Readers -> Seq(Event)]
  /\ games \in Seq(Game) /\ Len(games) <= Len(kinds)
  /\ \A g \in Games : games[g].match \in Matches
  /\ \A g, h \in Games : games[g].match = games[h].match => g = h
  /\ running \in Games \cup {0, NewGame}
  /\ running = NewGame <=> Launching
  /\ start \in Start

(* Only the game the service holds is played.                              *)
RunsIsPlayed == \A g \in Games : Playing(g) => running = g

(* The matches that run or that an undo may let run again.                 *)
Back == live \cup won

(* What the stream says of a match's end by hand is so for good; n matches,*)
(* b of them to come or to come back.                                      *)
EndsTrue(s, n, b) ==
  \A i \in 1..Len(s) : s[i].kind \in {"ended", "won"} =>
    s[i].match \in 1..n /\ (s[i].kind = "ended" => s[i].match \notin b)

EndsAreTrue == \A r \in Readers : EndsTrue(pending[r], Len(kinds), Back)

(* On the stream nothing but a match that runs follows no_match.           *)
NewAfterNone(s, n) ==
  \A i \in 1..Len(s) : \A j \in 1..Len(s) :
    j = i + 1 /\ s[i].kind = "none" => s[j].kind = "snapshot" /\ s[j].match \in 1..n

(* A launch has still to read its first event; when it has seen the table  *)
(* free, the next thing it hears of is a match that is there already.      *)
LaunchHears(pc, s, n, l) ==
  /\ NewAfterNone(s, n)
  /\ s # <<>> /\ s[Len(s)].kind = "none" => l = {}
  /\ pc = "look" => s # <<>>
  /\ pc = "create" => IF s = <<>> THEN l = {} ELSE s[1].kind = "snapshot" /\ s[1].match \in 1..n

LaunchReads == Launching => LaunchHears(start.pc, pending[Launch], Len(kinds), live)

(* What makes a game stop watching: its match won, or another one there.   *)
StopsWatch(e, m) == (e.kind = "won" /\ e.match = m) \/ (e.kind = "snapshot" /\ e.match # m)

(* A game that watches, for a match not ended by hand, hears that before   *)
(* it hears that there is none; and is to hear it when its match is not    *)
(* the one the table shows.                                                *)
StopsFirst(s, m) ==
  \A i \in 1..Len(s) : s[i].kind = "none" => \E j \in 1..(i - 1) : StopsWatch(s[j], m)
StopsAtAll(s, m) == \E j \in 1..Len(s) : StopsWatch(s[j], m)
Warned(s, m, l) == StopsFirst(s, m) /\ (Current(l) # m => StopsAtAll(s, m))

InPlay == {"play", "won", "wrong"}
Listens(game) == game.pc \in InPlay /\ game.cause = "" /\ game.saw # "won"

GamesRead ==
  \A g \in Games : games[g].match \in Back /\ Listens(games[g]) =>
    Warned(pending[g], games[g].match, live)

(* A game that takes its match for ended is right, for good.               *)
GamesKnow ==
  \A g \in Games :
    games[g].cause = "matchEnded" \/ games[g].saw = "ended" => games[g].match \notin Back

TableInv ==
  /\ TableType /\ RunsIsPlayed /\ EndsAreTrue /\ LaunchReads /\ GamesRead /\ GamesKnow
  /\ NoMatchLeftBehind

-----------------------------------------------------------------------------
(* The greatest of finitely many matches.                                  *)

LEMMA LeastOf ==
  ASSUME NEW T \in SUBSET Nat, T # {}
  PROVE  \E x \in T : \A y \in T : x <= y
<1> DEFINE R == {ss \in Nat \X Nat : ss[1] < ss[2]}
<1>1. IsWellFoundedOn(R, Nat)
  BY NatLessThanWellFounded DEF OpToRel
<1>2. \E x \in T : \A y \in T : <<y, x>> \notin R
  <2> HIDE DEF R
  <2> QED
    BY <1>1, WFMin
<1>3. \A x, y \in Nat : <<y, x>> \notin R => x <= y
  <2> SUFFICES ASSUME NEW x \in Nat, NEW y \in Nat, y < x PROVE <<y, x>> \in R
    OBVIOUS
  <2>1. <<y, x>> \in Nat \X Nat /\ <<y, x>>[1] < <<y, x>>[2]
    OBVIOUS
  <2>2. QED
    BY <2>1
<1> HIDE DEF R
<1>4. QED
  BY <1>2, <1>3

LEMMA GreatestOf ==
  ASSUME NEW n \in Nat, NEW l \in SUBSET (1..n), l # {}
  PROVE  Max(l) \in l
<1> DEFINE T == {k \in Nat : \E x \in l : k = n - x}
<1>1. T # {} /\ T \in SUBSET Nat
  <2> PICK x \in l : TRUE
    OBVIOUS
  <2>1. n - x \in Nat
    OBVIOUS
  <2>2. QED
    BY <2>1
<1>2. PICK k \in T : \A y \in T : k <= y
  BY <1>1, LeastOf
<1>3. PICK x \in l : k = n - x
  OBVIOUS
<1>4. ASSUME NEW y \in l PROVE x >= y
  <2>1. n - y \in T
    OBVIOUS
  <2>2. n - x <= n - y
    BY <1>2, <1>3, <2>1
  <2>3. QED
    BY <2>2
<1>5. QED
  BY <1>4 DEF Max

LEMMA CurrentIsLive ==
  ASSUME NEW n \in Nat, NEW l \in SUBSET (1..n)
  PROVE  /\ Current(l) \in Nat
         /\ l # {} => Current(l) \in l
         /\ Shows(l) \in Event
         /\ Shows(l).kind \in {"none", "snapshot"}
         /\ Shows(l).kind = "none" => l = {}
         /\ Shows(l).kind = "snapshot" => Shows(l).match = Current(l)
<1>1. l # {} => Max(l) \in l
  BY GreatestOf
<1>2. CASE l = {}
  <2>1. Current(l) = 0 /\ Shows(l) = [kind |-> "none", match |-> 0]
    BY <1>2 DEF Current, Shows, None
  <2>2. QED
    BY <1>2, <2>1 DEF Event
<1>3. CASE l # {}
  <2>1. Current(l) = Max(l) /\ Shows(l) = [kind |-> "snapshot", match |-> Max(l)]
    BY <1>3 DEF Current, Shows
  <2> DEFINE top == Max(l)
  <2>2. top \in l
    BY <1>1, <1>3
  <2> HIDE DEF top
  <2>3. top \in Nat
    BY <2>2
  <2>4. Current(l) = top /\ Shows(l) = [kind |-> "snapshot", match |-> top]
    BY <2>1 DEF top
  <2>5. QED
    BY <1>3, <2>2, <2>3, <2>4 DEF Event
<1>4. QED
  BY <1>2, <1>3

LEMMA CurrentIs ==
  ASSUME NEW n \in Nat, NEW l \in SUBSET (1..n), NEW c \in l, \A y \in l : y <= c
  PROVE  Current(l) = c
<1> DEFINE Top(x) == x \in l /\ \A y \in l : x >= y
           top == CHOOSE x : Top(x)
<1>1. Top(c)
  OBVIOUS
<1>2. Top(top)
  <2> HIDE DEF Top
  <2> QED
    BY <1>1
<1> HIDE DEF top
<1>3. top = c
  BY <1>1, <1>2
<1>4. Max(l) = top
  BY DEF Max, top
<1>5. QED
  BY <1>3, <1>4 DEF Current

LEMMA GreatestBound ==
  ASSUME NEW n \in Nat, NEW l \in SUBSET (1..n), l # {}
  PROVE  \A y \in l : y <= Current(l)
<1> DEFINE T == {k \in Nat : \E x \in l : k = n - x}
<1>1. T # {} /\ T \in SUBSET Nat
  <2> PICK x \in l : TRUE
    OBVIOUS
  <2>1. n - x \in Nat
    OBVIOUS
  <2>2. QED
    BY <2>1
<1>2. PICK k \in T : \A y \in T : k <= y
  BY <1>1, LeastOf
<1>3. PICK x \in l : k = n - x
  OBVIOUS
<1>4. ASSUME NEW y \in l PROVE y <= x
  <2>1. n - y \in T
    OBVIOUS
  <2>2. n - x <= n - y
    BY <1>2, <1>3, <2>1
  <2>3. QED
    BY <2>2
<1>5. Current(l) = x
  BY <1>4, CurrentIs
<1>6. QED
  BY <1>4, <1>5

(* What is current stays so when another match goes.                       *)
LEMMA CurrentStays ==
  ASSUME NEW n \in Nat, NEW l \in SUBSET (1..n), NEW k, k \in SUBSET l, l # {}, Current(l) \in k
  PROVE  Current(k) = Current(l)
<1>1. \A y \in k : y <= Current(l)
  BY GreatestBound
<1>2. k \in SUBSET (1..n)
  OBVIOUS
<1>3. QED
  BY <1>1, <1>2, CurrentIs

-----------------------------------------------------------------------------
(* Streams.                                                                *)

LEMMA Joined ==
  ASSUME NEW S, NEW s \in Seq(S), NEW t \in Seq(S)
  PROVE  /\ s \o t \in Seq(S) /\ Len(s) \in Nat /\ Len(t) \in Nat
         /\ Len(s \o t) = Len(s) + Len(t)
         /\ \A i \in 1..Len(s) : (s \o t)[i] = s[i]
         /\ \A i \in 1..Len(t) : (s \o t)[Len(s) + i] = t[i]
<1>1. Len(s) \in Nat /\ Len(t) \in Nat
  OBVIOUS
<1>2. Len(s \o t) = Len(s) + Len(t) /\ s \o t \in Seq(S)
  BY ConcatProperties
<1>3. \A i \in 1..Len(s) : (s \o t)[i] = s[i]
  BY <1>1, ConcatProperties
<1>4. ASSUME NEW i \in 1..Len(t) PROVE (s \o t)[Len(s) + i] = t[i]
  <2>1. Len(s) + i \in 1..(Len(s) + Len(t)) /\ Len(s) + i > Len(s) /\ Len(s) + i - Len(s) = i
    BY <1>1
  <2>2. QED
    BY <1>1, <2>1, ConcatProperties
<1>5. QED
  BY <1>1, <1>2, <1>3, <1>4

LEMMA Rest ==
  ASSUME NEW S, NEW s \in Seq(S), s # <<>>
  PROVE  /\ Len(s) \in Nat \ {0} /\ Head(s) = s[1] /\ Head(s) \in S
         /\ Tail(s) \in Seq(S) /\ Len(Tail(s)) = Len(s) - 1
         /\ \A i \in 1..(Len(s) - 1) : Tail(s)[i] = s[i + 1]
BY HeadTailProperties, EmptySeq

(* What a step tells the readers: an end of a match that ended, then what  *)
(* is current; a match that was current and is not is won first, or        *)
(* another one is shown.                                                   *)
Tells(es) ==
  /\ es \in Seq(Event) /\ es # <<>>
  /\ EndsTrue(es, Len(kinds'), Back')
  /\ \A i \in 1..Len(es) : es[i].kind = "none" => live' = {} /\ i = Len(es)
  /\ live = {} => es[1].kind = "snapshot" /\ es[1].match \in 1..Len(kinds')
  /\ \A m \in Matches : m \in Back' =>
       /\ StopsFirst(es, m) \/ Current(live) # m
       /\ Current(live') = m \/ Current(live) # m \/ StopsAtAll(es, m)

LEMMA AddsTells ==
  ASSUME TableType, NEW kind \in {"demo", "real"}, Adds(kind)
  PROVE  /\ kinds' \in Seq({"demo", "real"}) /\ Len(kinds') = Len(kinds) + 1
         /\ Len(kinds) \in Nat /\ Len(kinds') <= MaxMatches
         /\ live' \subseteq 1..Len(kinds') /\ Len(kinds') \in live' /\ Current(live') = Len(kinds')
         /\ won' = won /\ live' \cap won' = {}
         /\ \A m \in Matches : m \in live' => m \in live
         /\ Tells(AddsEvents(kind))
<1> DEFINE n == Len(kinds)
           snap == [kind |-> "snapshot", match |-> n + 1]
           end == [kind |-> "ended", match |-> Current(live)]
           u == IF Current(live) \in Displaces(kind) THEN <<end>> ELSE <<>>
           es == u \o <<snap>>
<1>1. /\ n \in Nat /\ MaxMatches \in Nat /\ live \subseteq 1..n /\ won \subseteq 1..n
      /\ kinds \in Seq({"demo", "real"}) /\ live \cap won = {}
  BY PongTableAssumption DEF TableType, Matches
<1>2. kinds' \in Seq({"demo", "real"}) /\ Len(kinds') = n + 1 /\ n < MaxMatches /\ won' = won
  BY <1>1 DEF Adds
<1>3. live' = (live \ Displaces(kind)) \cup {n + 1} /\ Displaces(kind) \subseteq live
  BY <1>2 DEF Adds, Displaces
<1>4. n + 1 \notin live /\ n + 1 <= MaxMatches
  BY <1>1, <1>2
<1>5. snap \in Event /\ snap.kind = "snapshot" /\ snap.match = n + 1
  BY <1>1 DEF Event
<1>6. Current(live) \in Displaces(kind) =>
        /\ end \in Event /\ end.match = Current(live) /\ end.kind = "ended"
        /\ end.match \notin live' \cup won' /\ end.match \in 1..(n + 1) /\ live # {}
  <2> SUFFICES ASSUME Current(live) \in Displaces(kind) PROVE
        /\ end \in Event /\ end.match = Current(live) /\ end.kind = "ended"
        /\ end.match \notin live' \cup won' /\ end.match \in 1..(n + 1) /\ live # {}
    OBVIOUS
  <2> DEFINE c == Current(live)
  <2>1. c \in live /\ c \in Displaces(kind)
    BY <1>3
  <2> HIDE DEF c
  <2>2. c \in 1..n
    BY <1>1, <2>1
  <2>3. c \in Nat /\ c \in 1..(n + 1) /\ c # n + 1
    BY <1>1, <2>2
  <2>4. c \notin live' \cup won'
    BY <1>1, <1>2, <1>3, <2>1, <2>3
  <2>5. end = [kind |-> "ended", match |-> c]
    BY DEF c
  <2>6. QED
    BY <2>1, <2>3, <2>4, <2>5 DEF Event, c
<1>7. AddsEvents(kind) = es
  BY DEF AddsEvents
<1> HIDE DEF snap, end
<1>8. /\ u \in Seq(Event) /\ Len(u) \in {0, 1}
      /\ \A i \in 1..Len(u) : u[i] = end /\ Current(live) \in Displaces(kind)
  <2>1. CASE Current(live) \in Displaces(kind)
    BY <1>6, <2>1
  <2>2. CASE Current(live) \notin Displaces(kind)
    BY <2>2
  <2>3. QED
    BY <2>1, <2>2
<1>9. live = {} => Len(u) = 0
  BY <1>3
<1> HIDE DEF u
<1>10. <<snap>> \in Seq(Event) /\ Len(<<snap>>) = 1 /\ <<snap>>[1] = snap
  BY <1>5
<1>11. /\ es \in Seq(Event) /\ Len(es) = Len(u) + 1
       /\ \A i \in 1..Len(u) : es[i] = u[i]
       /\ es[Len(u) + 1] = snap
  BY <1>8, <1>10, Joined
<1>12. es \in Seq(Event) /\ es # <<>>
  BY <1>8, <1>11
<1> HIDE DEF es
<1>13. \A i \in 1..Len(es) : i \in 1..Len(u) \/ i = Len(u) + 1
  BY <1>8, <1>11
<1>14. EndsTrue(es, Len(kinds'), Back')
  <2> SUFFICES ASSUME NEW i \in 1..Len(es), es[i].kind \in {"ended", "won"}
               PROVE  es[i].match \in 1..Len(kinds') /\ es[i].match \notin Back'
    BY DEF EndsTrue
  <2>1. QED
    BY <1>2, <1>5, <1>6, <1>8, <1>11, <1>13 DEF Back
<1>15. \A i \in 1..Len(es) : es[i].kind # "none"
  BY <1>5, <1>6, <1>8, <1>11, <1>13
<1>16. live = {} => es[1].kind = "snapshot" /\ es[1].match \in 1..Len(kinds')
  BY <1>1, <1>2, <1>5, <1>9, <1>11
<1>17. ASSUME NEW m \in Matches
       PROVE  StopsFirst(es, m) /\ StopsAtAll(es, m)
  <2>1. StopsFirst(es, m)
    BY <1>15 DEF StopsFirst
  <2>2. Len(u) + 1 \in 1..Len(es) /\ m # n + 1
    BY <1>1, <1>8, <1>11 DEF Matches
  <2>3. StopsWatch(es[Len(u) + 1], m)
    BY <1>5, <1>11, <2>2 DEF StopsWatch
  <2>4. QED
    BY <2>1, <2>2, <2>3 DEF StopsAtAll
<1>18. Tells(es)
  BY <1>12, <1>14, <1>15, <1>16, <1>17 DEF Tells
<1>19. live' \subseteq 1..Len(kinds') /\ Len(kinds') \in live'
  <2>1. 1..n \subseteq 1..(n + 1) /\ n + 1 \in 1..(n + 1)
    BY <1>1
  <2>2. QED
    BY <1>1, <1>2, <1>3, <2>1
<1>20. \A m \in Matches : m \in live' => m \in live
  BY <1>1, <1>3 DEF Matches
<1>21. Current(live') = Len(kinds')
  <2> DEFINE l == live'
             c == Len(kinds')
  <2>1. c \in Nat /\ l \in SUBSET (1..c) /\ c \in l /\ \A y \in l : y <= c
    BY <1>1, <1>2, <1>19
  <2> HIDE DEF l, c
  <2>2. Current(l) = c
    BY <2>1, CurrentIs
  <2>3. QED
    BY <2>2 DEF l, c
<1>22. won' = won /\ live' \cap won' = {}
  <2>1. n + 1 \notin won
    BY <1>1
  <2>2. QED
    BY <1>1, <1>2, <1>3, <2>1
<1>23. QED
  BY <1>1, <1>2, <1>4, <1>7, <1>18, <1>19, <1>20, <1>21, <1>22

(* A step that tells nobody: the match is not the one the table shows.     *)
Silent ==
  /\ pending' = pending /\ kinds' = kinds
  /\ Current(live') = Current(live) /\ (live = {} => live' = {})

LEMMA StopsTells ==
  ASSUME TableType, NEW m \in live, NEW how \in {"ended", "won"}, Stops(m, how)
  PROVE  /\ kinds' = kinds /\ live' = live \ {m} /\ m \in Matches
         /\ won' \subseteq Matches /\ live' \cap won' = {} /\ Back' \subseteq Back
         /\ \/ Silent
            \/ \E es : Tells(es) /\ pending' = Published(es)
<1> DEFINE n == Len(kinds)
           end == [kind |-> how, match |-> m]
           es == <<end, Shows(live')>>
<1>1. /\ n \in Nat /\ live \subseteq 1..n /\ kinds' = kinds /\ live' = live \ {m} /\ m \in 1..n
      /\ won \subseteq 1..n /\ live \cap won = {} /\ won' = IF how = "won" THEN won \cup {m} ELSE won
  BY DEF TableType, Matches, Stops
<1>2. /\ won' \subseteq 1..n /\ live' \cap won' = {} /\ Back' \subseteq Back
      /\ (m \in Back' => how = "won")
  BY <1>1 DEF Back
<1>3. CASE Current(live) = m /\ pending' = Published(es)
  <2>1. /\ Shows(live') \in Event /\ Shows(live').kind \in {"none", "snapshot"}
        /\ Shows(live').kind = "none" => live' = {}
    <3>1. live' \in SUBSET (1..n)
      BY <1>1
    <3>2. QED
      BY <1>1, <3>1, CurrentIsLive
  <2>2. end \in Event /\ end.kind = how /\ end.match = m
    BY <1>1 DEF Event
  <2> DEFINE shown == Shows(live')
  <2> HIDE DEF end, shown
  <2>3. <<end, shown>> \in Seq(Event) /\ Len(<<end, shown>>) = 2
    BY <2>1, <2>2 DEF shown
  <2>4. es = <<end, shown>>
    BY DEF shown
  <2> HIDE DEF es
  <2>5. /\ es \in Seq(Event) /\ Len(es) = 2 /\ es[1] = end /\ es[2] = shown
        /\ \A i \in 1..Len(es) : i = 1 \/ i = 2
    BY <2>3, <2>4
  <2>6. es # <<>>
    BY <2>5, EmptySeq
  <2>7. EndsTrue(es, Len(kinds'), Back')
    <3> SUFFICES ASSUME NEW i \in 1..Len(es), es[i].kind \in {"ended", "won"}
                 PROVE  /\ es[i].match \in 1..Len(kinds')
                        /\ es[i].kind = "ended" => es[i].match \notin Back'
      BY DEF EndsTrue
    <3>1. i = 1
      BY <2>1, <2>5 DEF shown
    <3>2. QED
      BY <1>1, <1>2, <2>2, <2>5, <3>1
  <2>8. ASSUME NEW i \in 1..Len(es), es[i].kind = "none"
        PROVE  live' = {} /\ i = Len(es) /\ i = 2
    <3>1. i = 2
      BY <2>2, <2>5, <2>8
    <3>2. QED
      BY <2>1, <2>5, <2>8, <3>1 DEF shown
  <2>9. ASSUME NEW x \in Matches, x \in Back', Current(live) = x
        PROVE  StopsFirst(es, x) /\ StopsAtAll(es, x)
    <3>1. StopsWatch(es[1], x)
      BY <1>2, <1>3, <2>2, <2>5, <2>9 DEF StopsWatch
    <3>2. 1 \in 1..(2 - 1) /\ 1 \in 1..Len(es)
      BY <2>5
    <3>3. QED
      BY <2>8, <3>1, <3>2 DEF StopsFirst, StopsAtAll
  <2>10. Tells(es)
    BY <1>1, <2>5, <2>6, <2>7, <2>8, <2>9 DEF Tells
  <2>11. QED
    BY <1>1, <1>2, <1>3, <2>10 DEF Matches
<1>4. CASE Current(live) # m /\ pending' = pending
  <2> DEFINE l == live'
  <2>1. Current(live) \in live /\ live \in SUBSET (1..n)
    BY <1>1, CurrentIsLive
  <2>2. l \in SUBSET live /\ live # {} /\ Current(live) \in l
    BY <1>1, <1>4, <2>1
  <2> HIDE DEF l
  <2>3. Current(l) = Current(live)
    BY <1>1, <2>1, <2>2, CurrentStays
  <2>4. Silent
    BY <1>1, <1>4, <2>2, <2>3 DEF Silent, l
  <2>5. QED
    BY <1>1, <1>2, <2>4 DEF Matches
<1>5. QED
  BY <1>3, <1>4 DEF Stops

LEMMA UndoesTells ==
  ASSUME TableType, NEW m \in won, Undoes(m)
  PROVE  /\ kinds' = kinds /\ live' = live \cup {m} /\ won' = won \ {m} /\ m \in Matches
         /\ live' \subseteq Matches /\ live' \cap won' = {} /\ Back' = Back
         /\ \/ Silent
            \/ \E es : Tells(es) /\ pending' = Published(es)
<1> DEFINE n == Len(kinds)
           snap == [kind |-> "snapshot", match |-> m]
           es == <<snap>>
<1>1. /\ n \in Nat /\ live \subseteq 1..n /\ kinds' = kinds /\ live' = live \cup {m} /\ m \in 1..n
      /\ won \subseteq 1..n /\ live \cap won = {} /\ won' = won \ {m} /\ m \notin live
      /\ pending' = IF Current(live') = m THEN Published(es) ELSE pending
  BY DEF TableType, Matches, Undoes
<1>2. live' \subseteq 1..n /\ live' \cap won' = {} /\ Back' = Back
  BY <1>1 DEF Back
<1>3. CASE Current(live') = m
  <2>1. snap \in Event /\ snap.kind = "snapshot" /\ snap.match = m
    BY <1>1 DEF Event
  <2> HIDE DEF snap
  <2>2. es \in Seq(Event) /\ Len(es) = 1 /\ es[1] = snap /\ 1 \in 1..Len(es) /\ \A i \in 1..Len(es) : i = 1
    BY <2>1
  <2> HIDE DEF es
  <2>3. es # <<>>
    BY <2>2, EmptySeq
  <2>4. \A i \in 1..Len(es) : es[i].kind = "snapshot"
    BY <2>1, <2>2
  <2>5. EndsTrue(es, Len(kinds'), Back')
    BY <2>4 DEF EndsTrue
  <2>6. ASSUME NEW x \in Matches
        PROVE  StopsFirst(es, x) /\ (x # m => StopsAtAll(es, x))
    <3>1. StopsFirst(es, x)
      BY <2>4 DEF StopsFirst
    <3>2. x # m => StopsWatch(es[1], x)
      BY <2>1, <2>2 DEF StopsWatch
    <3>3. QED
      BY <2>2, <3>1, <3>2 DEF StopsAtAll
  <2>7. Tells(es)
    BY <1>1, <1>3, <2>1, <2>2, <2>3, <2>4, <2>5, <2>6 DEF Tells
  <2>8. QED
    BY <1>1, <1>2, <1>3, <2>7 DEF Matches
<1>4. CASE Current(live') # m
  <2> DEFINE l == live'
  <2>1. l \in SUBSET (1..n) /\ l # {} /\ live \in SUBSET l
    BY <1>1, <1>2
  <2>2. Current(l) # m
    BY <1>4
  <2> HIDE DEF l
  <2>3. Current(l) \in l
    BY <1>1, <2>1, CurrentIsLive
  <2>4. Current(l) \in live
    BY <1>1, <2>2, <2>3 DEF l
  <2>5. Current(live) = Current(l)
    BY <1>1, <2>1, <2>4, CurrentStays
  <2>6. Silent
    BY <1>1, <1>4, <2>4, <2>5 DEF Silent, l
  <2>7. QED
    BY <1>1, <1>2, <2>6 DEF Matches
<1>5. QED
  BY <1>3, <1>4

(* A stream with one more piece of news.                                   *)
LEMMA Grows ==
  ASSUME TableType, NEW s \in Seq(Event), NEW es, Tells(es),
         NEW n \in Nat, n = Len(kinds'), Len(kinds) <= n,
         \A m \in Matches : m \in Back' => m \in Back
  PROVE  /\ s \o es \in Seq(Event) /\ s \o es # <<>>
         /\ EndsTrue(s, Len(kinds), Back) => EndsTrue(s \o es, n, Back')
         /\ NewAfterNone(s, Len(kinds)) /\ (s # <<>> /\ s[Len(s)].kind = "none" => live = {})
              => NewAfterNone(s \o es, n)
         /\ (s \o es)[Len(s \o es)].kind = "none" => live' = {}
         /\ s # <<>> => (s \o es)[1] = s[1]
         /\ live = {} /\ s = <<>> => (s \o es)[1].kind = "snapshot" /\ (s \o es)[1].match \in 1..n
         /\ \A m \in Matches : m \in Back' /\ Warned(s, m, live) => Warned(s \o es, m, live')
         /\ \A m : live' # {} /\ StopsFirst(s, m) => StopsFirst(s \o es, m)
<1> DEFINE t == s \o es
           k == Len(kinds)
           a == Len(s)
           b == Len(es)
<1>1. k \in Nat /\ live \subseteq 1..k /\ k <= n
  BY DEF TableType, Matches
<1>2. es \in Seq(Event) /\ es # <<>>
  BY DEF Tells
<1>3. /\ t \in Seq(Event) /\ a \in Nat /\ b \in Nat /\ b # 0 /\ Len(t) = a + b
      /\ \A i \in 1..a : t[i] = s[i]
      /\ \A i \in 1..b : t[a + i] = es[i]
  BY <1>2, Joined, EmptySeq
<1>4. \A i \in 1..Len(t) : i \in 1..a \/ \E j \in 1..b : i = a + j
  <2> SUFFICES ASSUME NEW i \in 1..(a + b), i \notin 1..a PROVE i - a \in 1..b /\ i = a + (i - a)
    BY <1>3
  <2>1. QED
    BY <1>3
<1>5. t # <<>>
  BY <1>3, EmptySeq
<1>6. EndsTrue(es, n, Back')
  BY DEF Tells
<1>7. \A i \in 1..b : es[i].kind = "none" => live' = {} /\ i = b
  BY DEF Tells
<1>8. live = {} => es[1].kind = "snapshot" /\ es[1].match \in 1..n
  BY DEF Tells
<1>9. t[Len(t)] = es[b] /\ t[a + 1] = es[1] /\ (a # 0 => t[1] = s[1]) /\ (a = 0 => t[1] = es[1])
  <2>1. b \in 1..b /\ 1 \in 1..b
    BY <1>3
  <2>2. a # 0 => 1 \in 1..a
    BY <1>3
  <2>3. t[a + 1] = es[1] /\ t[a + b] = es[b]
    BY <1>3, <2>1
  <2>4. a = 0 => a + 1 = 1
    OBVIOUS
  <2> HIDE DEF a, b, t
  <2>5. QED
    BY <1>3, <2>2, <2>3, <2>4
<1>10. s = <<>> <=> a = 0
  BY <1>3, EmptySeq
<1> HIDE DEF t, a, b, k
<1>11. ASSUME EndsTrue(s, k, Back) PROVE EndsTrue(t, n, Back')
  <2>1. ASSUME NEW i \in 1..a, s[i].kind \in {"ended", "won"}
        PROVE  s[i].match \in 1..n /\ (s[i].kind = "ended" => s[i].match \notin Back')
    <3>1. s[i].match \in 1..k /\ (s[i].kind = "ended" => s[i].match \notin Back)
      BY <1>11, <2>1 DEF EndsTrue, a
    <3>2. QED
      BY <1>1, <3>1 DEF Matches, k
  <2>2. QED
    BY <1>3, <1>4, <1>6, <2>1 DEF EndsTrue, b
<1>12. ASSUME NewAfterNone(s, k), s # <<>> /\ s[a].kind = "none" => live = {}
       PROVE  NewAfterNone(t, n)
  <2> SUFFICES ASSUME NEW i \in 1..Len(t), NEW j \in 1..Len(t), j = i + 1, t[i].kind = "none"
               PROVE  t[j].kind = "snapshot" /\ t[j].match \in 1..n
    BY DEF NewAfterNone
  <2>1. CASE i \in 1..a /\ j \in 1..a
    <3>1. s[j].kind = "snapshot" /\ s[j].match \in 1..k
      BY <1>3, <1>12, <2>1 DEF NewAfterNone, a
    <3>2. QED
      BY <1>1, <1>3, <2>1, <3>1
  <2>2. CASE i \in 1..a /\ j \notin 1..a
    <3>1. i = a /\ j = a + 1 /\ a # 0
      BY <1>3, <2>2
    <3>2. s[a].kind = "none"
      BY <1>3, <2>2, <3>1
    <3>3. live = {}
      BY <1>10, <1>12, <3>1, <3>2
    <3>4. QED
      BY <1>8, <1>9, <3>1, <3>3
  <2>3. CASE i \notin 1..a
    <3>1. PICK h \in 1..b : i = a + h
      BY <1>4, <2>3
    <3>2. h = b
      BY <1>3, <1>7, <3>1
    <3>3. QED
      BY <1>3, <3>1, <3>2
  <2>4. QED
    BY <2>1, <2>2, <2>3
<1>13. t[Len(t)].kind = "none" => live' = {}
  BY <1>3, <1>7, <1>9
<1>14. ASSUME NEW m, StopsFirst(s, m), live' # {} \/ StopsFirst(es, m) \/ StopsAtAll(s, m)
       PROVE  StopsFirst(t, m)
  <2> SUFFICES ASSUME NEW i \in 1..Len(t), t[i].kind = "none"
               PROVE  \E j \in 1..(i - 1) : StopsWatch(t[j], m)
    BY DEF StopsFirst
  <2>1. CASE i \in 1..a
    <3>1. PICK j \in 1..(i - 1) : StopsWatch(s[j], m)
      BY <1>3, <1>14, <2>1 DEF StopsFirst, a
    <3>2. j \in 1..a
      BY <1>3, <2>1, <3>1
    <3>3. QED
      BY <1>3, <3>1, <3>2
  <2>2. CASE i \notin 1..a
    <3>1. PICK h \in 1..b : i = a + h
      BY <1>4, <2>2
    <3>2. es[h].kind = "none" /\ live' = {}
      BY <1>3, <1>7, <3>1
    <3>3. CASE StopsFirst(es, m)
      <4>1. PICK j \in 1..(h - 1) : StopsWatch(es[j], m)
        BY <3>1, <3>2, <3>3 DEF StopsFirst, b
      <4>2. j \in 1..b /\ a + j \in 1..(i - 1)
        BY <1>3, <3>1, <4>1
      <4>3. QED
        BY <1>3, <4>1, <4>2
    <3>4. CASE StopsAtAll(s, m)
      <4>1. PICK j \in 1..a : StopsWatch(s[j], m)
        BY <3>4 DEF StopsAtAll, a
      <4>2. j \in 1..(i - 1)
        BY <1>3, <3>1, <4>1
      <4>3. QED
        BY <1>3, <4>1, <4>2
    <3>5. QED
      BY <1>14, <3>2, <3>3, <3>4
  <2>3. QED
    BY <2>1, <2>2
<1>15. ASSUME NEW m, StopsAtAll(s, m) \/ StopsAtAll(es, m)
       PROVE  StopsAtAll(t, m)
  <2>1. CASE StopsAtAll(s, m)
    <3>1. PICK j \in 1..a : StopsWatch(s[j], m)
      BY <2>1 DEF StopsAtAll, a
    <3>2. j \in 1..Len(t)
      BY <1>3, <3>1
    <3>3. QED
      BY <1>3, <3>1, <3>2 DEF StopsAtAll
  <2>2. CASE StopsAtAll(es, m)
    <3>1. PICK j \in 1..b : StopsWatch(es[j], m)
      BY <2>2 DEF StopsAtAll, b
    <3>2. a + j \in 1..Len(t)
      BY <1>3, <3>1
    <3>3. QED
      BY <1>3, <3>1, <3>2 DEF StopsAtAll
  <2>3. QED
    BY <1>15, <2>1, <2>2
<1>16. ASSUME NEW m \in Matches, m \in Back', Warned(s, m, live) PROVE Warned(t, m, live')
  <2>1. /\ StopsFirst(es, m) \/ Current(live) # m
        /\ Current(live') = m \/ Current(live) # m \/ StopsAtAll(es, m)
    BY <1>16 DEF Tells
  <2>2. StopsFirst(s, m) /\ (Current(live) # m => StopsAtAll(s, m))
    BY <1>16 DEF Warned
  <2>3. StopsFirst(t, m)
    BY <1>14, <2>1, <2>2
  <2>4. Current(live') # m => StopsAtAll(t, m)
    BY <1>15, <2>1, <2>2
  <2>5. QED
    BY <2>3, <2>4 DEF Warned
<1>17. live = {} /\ s = <<>> => t[1].kind = "snapshot" /\ t[1].match \in 1..n
  BY <1>8, <1>9, <1>10
<1>18. QED
  BY <1>3, <1>5, <1>9, <1>10, <1>11, <1>12, <1>13, <1>14, <1>16, <1>17 DEF t, a, k

(* A stream of which one event has been read.                              *)
LEMMA Shrinks ==
  ASSUME NEW s \in Seq(Event), s # <<>>, NEW n \in Nat, NEW l
  PROVE  /\ Tail(s) \in Seq(Event)
         /\ EndsTrue(s, n, l) => EndsTrue(Tail(s), n, l)
         /\ NewAfterNone(s, n) => NewAfterNone(Tail(s), n)
         /\ Tail(s) # <<>> => Tail(s)[Len(Tail(s))] = s[Len(s)]
         /\ Tail(s) = <<>> => s[Len(s)] = Head(s)
         /\ NewAfterNone(s, n) /\ Head(s).kind = "none" /\ Tail(s) # <<>>
              => Tail(s)[1].kind = "snapshot" /\ Tail(s)[1].match \in 1..n
         /\ \A m, c : Warned(s, m, c) /\ ~StopsWatch(Head(s), m) => Warned(Tail(s), m, c)
<1> DEFINE t == Tail(s)
           b == Len(s)
<1>1. /\ b \in Nat \ {0} /\ Head(s) = s[1] /\ t \in Seq(Event) /\ Len(t) = b - 1
      /\ \A i \in 1..(b - 1) : t[i] = s[i + 1]
  BY Rest
<1> HIDE DEF t, b
<1>2. t = <<>> <=> b = 1
  <2>1. t = <<>> <=> Len(t) = 0
    BY <1>1, EmptySeq
  <2>2. QED
    BY <1>1, <2>1
<1>3. \A i \in 1..Len(t) : i + 1 \in 1..b /\ t[i] = s[i + 1]
  BY <1>1
<1>4. EndsTrue(s, n, l) => EndsTrue(t, n, l)
  BY <1>1, <1>3 DEF EndsTrue, b
<1>5. ASSUME NewAfterNone(s, n) PROVE NewAfterNone(t, n)
  <2> SUFFICES ASSUME NEW i \in 1..Len(t), NEW j \in 1..Len(t), j = i + 1, t[i].kind = "none"
               PROVE  t[j].kind = "snapshot" /\ t[j].match \in 1..n
    BY DEF NewAfterNone
  <2>1. i + 1 \in 1..b /\ j + 1 \in 1..b /\ j + 1 = (i + 1) + 1 /\ s[i + 1].kind = "none"
    BY <1>3
  <2>2. s[j + 1].kind = "snapshot" /\ s[j + 1].match \in 1..n
    BY <1>5, <2>1 DEF NewAfterNone, b
  <2>3. QED
    BY <1>3, <2>2
<1>6. t # <<>> => t[Len(t)] = s[b]
  <2> SUFFICES ASSUME b # 1 PROVE t[b - 1] = s[b]
    BY <1>1, <1>2
  <2>1. b - 1 \in 1..(b - 1) /\ (b - 1) + 1 = b
    BY <1>1
  <2>2. QED
    BY <1>1, <2>1
<1>7. t = <<>> => s[b] = Head(s)
  BY <1>1, <1>2
<1>8. ASSUME NewAfterNone(s, n), Head(s).kind = "none", t # <<>>
      PROVE  t[1].kind = "snapshot" /\ t[1].match \in 1..n
  <2>1. 1 \in 1..b /\ 2 \in 1..b /\ 2 = 1 + 1 /\ 1 \in 1..(b - 1)
    BY <1>1, <1>2, <1>8
  <2>2. s[2].kind = "snapshot" /\ s[2].match \in 1..n
    BY <1>1, <1>8, <2>1 DEF NewAfterNone, b
  <2>3. t[1] = s[2]
    BY <1>1, <2>1
  <2>4. QED
    BY <2>2, <2>3
<1>9. ASSUME NEW m, NEW c, Warned(s, m, c), ~StopsWatch(s[1], m)
      PROVE  Warned(t, m, c)
  <2>1. ASSUME NEW i \in 1..Len(t), t[i].kind = "none"
        PROVE  \E j \in 1..(i - 1) : StopsWatch(t[j], m)
    <3>1. i + 1 \in 1..b /\ s[i + 1].kind = "none"
      BY <1>3, <2>1
    <3>2. PICK j \in 1..((i + 1) - 1) : StopsWatch(s[j], m)
      BY <1>9, <3>1 DEF Warned, StopsFirst, b
    <3>3. j # 1
      BY <1>9, <3>2
    <3>4. j - 1 \in 1..(i - 1) /\ j - 1 \in 1..Len(t) /\ (j - 1) + 1 = j
      BY <1>1, <3>1, <3>2, <3>3
    <3>5. t[j - 1] = s[j]
      BY <1>3, <3>4
    <3>6. QED
      BY <3>2, <3>4, <3>5
  <2>2. ASSUME StopsAtAll(s, m) PROVE StopsAtAll(t, m)
    <3>1. PICK j \in 1..b : StopsWatch(s[j], m)
      BY <2>2 DEF StopsAtAll, b
    <3>2. j # 1
      BY <1>9, <3>1
    <3>3. j - 1 \in 1..Len(t) /\ (j - 1) + 1 = j
      BY <1>1, <3>1, <3>2
    <3>4. t[j - 1] = s[j]
      BY <1>3, <3>3
    <3>5. QED
      BY <3>1, <3>3, <3>4 DEF StopsAtAll
  <2>3. StopsFirst(t, m)
    BY <2>1 DEF StopsFirst
  <2>4. QED
    BY <1>9, <2>2, <2>3 DEF Warned
<1>10. QED
  BY <1>1, <1>4, <1>5, <1>6, <1>7, <1>8, <1>9 DEF t, b

(* The launch's and the games' streams after news for everybody.           *)
LEMMA StreamsTold ==
  ASSUME TableInv, NEW es, Tells(es), Len(kinds) <= Len(kinds'), Len(kinds') \in Nat,
         \A m \in Matches : m \in Back' => m \in Back,
         NEW p, p = Published(es)
  PROVE  /\ p \in [Readers -> Seq(Event)]
         /\ \A r \in Readers : EndsTrue(p[r], Len(kinds'), Back')
         /\ Launching => LaunchHears(start.pc, p[Launch], Len(kinds'), live')
         /\ \A g \in Games : games[g].match \in Back' /\ Listens(games[g]) =>
              Warned(p[g], games[g].match, live')
<1> DEFINE n == Len(kinds')
<1>1. TableType /\ EndsAreTrue /\ LaunchReads /\ GamesRead
  BY DEF TableInv
<1>2. \A r \in Readers : pending[r] \in Seq(Event) /\ p[r] = IF Connected(r) THEN pending[r] \o es ELSE <<>>
  BY <1>1 DEF TableType, Published
<1>3. Launch \in Readers /\ (Launching => Connected(Launch))
  BY DEF Readers, Connected, Launching, Launch, Table
<1>4. Games \subseteq Readers
  BY <1>1, PongTableAssumption DEF TableType, Games, Readers
<1>5. <<>> \in Seq(Event) /\ Len(<<>>) = 0
  OBVIOUS
<1>6. ASSUME NEW r \in Readers
      PROVE  /\ p[r] \in Seq(Event)
             /\ EndsTrue(p[r], n, Back')
             /\ Connected(r) =>
                  \A m \in Matches : m \in Back' /\ Warned(pending[r], m, live) => Warned(p[r], m, live')
  <2>1. CASE Connected(r)
    <3>1. EndsTrue(pending[r], Len(kinds), Back)
      BY <1>1 DEF EndsAreTrue
    <3>2. pending[r] \in Seq(Event) /\ p[r] = pending[r] \o es
      BY <1>2, <2>1
    <3>3. /\ pending[r] \o es \in Seq(Event)
          /\ EndsTrue(pending[r] \o es, n, Back')
          /\ \A m \in Matches : m \in Back' /\ Warned(pending[r], m, live) =>
               Warned(pending[r] \o es, m, live')
      BY <1>1, <3>1, <3>2, Grows
    <3>4. QED
      BY <3>2, <3>3
  <2>2. CASE ~Connected(r)
    <3>1. p[r] = <<>>
      BY <1>2, <2>2
    <3>2. QED
      BY <1>5, <2>2, <3>1 DEF EndsTrue
  <2>3. QED
    BY <2>1, <2>2
<1>7. ASSUME Launching PROVE LaunchHears(start.pc, p[Launch], n, live')
  <2> DEFINE s == pending[Launch]
             t == p[Launch]
  <2>1. s \in Seq(Event) /\ t = s \o es
    BY <1>2, <1>3, <1>7
  <2>2. LaunchHears(start.pc, s, Len(kinds), live)
    BY <1>1, <1>7 DEF LaunchReads
  <2> HIDE DEF s, t
  <2>3. NewAfterNone(s, Len(kinds)) /\ (s # <<>> /\ s[Len(s)].kind = "none" => live = {})
    BY <2>2 DEF LaunchHears
  <2>4. /\ t \in Seq(Event) /\ t # <<>> /\ NewAfterNone(t, n)
        /\ t[Len(t)].kind = "none" => live' = {}
        /\ s # <<>> => t[1] = s[1]
        /\ live = {} /\ s = <<>> => t[1].kind = "snapshot" /\ t[1].match \in 1..n
    BY <1>1, <2>1, <2>3, Grows
  <2>5. ASSUME start.pc = "create" PROVE t[1].kind = "snapshot" /\ t[1].match \in 1..n
    <3>1. IF s = <<>> THEN live = {} ELSE s[1].kind = "snapshot" /\ s[1].match \in 1..Len(kinds)
      BY <2>2, <2>5 DEF LaunchHears
    <3>2. Len(kinds) \in Nat
      BY <1>1 DEF TableType
    <3>3. QED
      BY <2>4, <3>1, <3>2
  <2>6. QED
    BY <2>4, <2>5 DEF LaunchHears, t
<1>8. ASSUME NEW g \in Games, games[g].match \in Back', Listens(games[g])
      PROVE  Warned(p[g], games[g].match, live')
  <2>1. games[g].match \in Matches /\ games[g].match \in Back
    BY <1>1, <1>8 DEF TableType
  <2>2. Warned(pending[g], games[g].match, live)
    BY <1>1, <1>8, <2>1 DEF GamesRead
  <2>3. Connected(g)
    <3>1. Len(games) \in Nat /\ g # Launch /\ g # Table
      BY <1>1 DEF TableType, Games, Launch, Table
    <3>2. QED
      BY <1>8, <3>1 DEF Listens, InPlay, Connected, Playing
  <2>4. QED
    BY <1>4, <1>6, <1>8, <2>1, <2>2, <2>3
<1>9. p \in [Readers -> Seq(Event)]
  BY <1>6 DEF Published
<1>10. QED
  BY <1>6, <1>7, <1>8, <1>9

-----------------------------------------------------------------------------
(* What a step does to the matches, to the streams, to each game and to    *)
(* the game that runs: together, all that the invariant asks of it.  No    *)
(* match comes back for a game that is over, but by somebody's undo.       *)

MatchesNext ==
  /\ kinds' \in Seq({"demo", "real"}) /\ Len(kinds) <= Len(kinds') /\ Len(kinds') <= MaxMatches
  /\ live' \subseteq 1..Len(kinds') /\ won' \subseteq 1..Len(kinds') /\ live' \cap won' = {}
  /\ \A m \in Matches : m \in Back' => m \in Back
  /\ \A g \in Games : ~Playing(g) /\ games[g].match \in live' =>
       games[g].match \in live \/ games[g].match \in reopened'
  /\ left \subseteq left' /\ reopened \subseteq reopened'

StreamsNext ==
  /\ pending' \in [Readers -> Seq(Event)]
  /\ \A r \in Readers : EndsTrue(pending'[r], Len(kinds'), Back')
  /\ start'.pc \in {"look", "skip", "create"} => LaunchHears(start'.pc, pending'[Launch], Len(kinds'), live')
  /\ \A g \in Games : games[g].match \in Back' /\ Listens(games'[g]) =>
       Warned(pending'[g], games[g].match, live')

Knows(game) == game.cause = "matchEnded" \/ game.saw = "ended"

GameMoves(g, to) ==
  /\ to \in Game /\ to.match = games[g].match
  /\ to.pc \in InPlay => Playing(g)
  /\ Listens(to) => Listens(games[g])
  /\ Knows(to) => Knows(games[g]) \/ games[g].match \notin Back'
  /\ Playing(g) /\ to.pc \notin InPlay => games[g].match \notin live' \/ games[g].match \in left' \cup reopened'

GamesNext ==
  /\ games' \in Seq(Game) /\ Len(games') = Len(games)
  /\ \A g \in Games : GameMoves(g, games'[g])

RunsNext ==
  /\ start' \in Start
  /\ running' \in Games \cup {0, NewGame}
  /\ running' = NewGame <=> start'.pc \in {"look", "skip", "create"}
  /\ running' = running \/ \A g \in Games : games'[g].pc \notin InPlay

LEMMA Assembled ==
  ASSUME TableInv, MatchesNext, StreamsNext, GamesNext, RunsNext
  PROVE  TableInv'
<1>1. /\ TableType /\ RunsIsPlayed /\ GamesKnow /\ NoMatchLeftBehind
      /\ Len(games) \in Nat /\ Len(kinds) \in Nat /\ Len(kinds') \in Nat
  BY DEF TableInv, TableType, MatchesNext
<1>2. Games' = Games /\ \A g \in Games : games'[g].match = games[g].match /\ games[g].match \in Matches
  BY <1>1 DEF GamesNext, GameMoves, Games, TableType
<1>3. Matches \subseteq 1..Len(kinds') /\ \A m \in Matches : m \in Back' => m \in Back
  BY <1>1 DEF MatchesNext, Matches
<1>4. TableType'
  <2>1. Len(games') <= Len(kinds')
    BY <1>1 DEF GamesNext, MatchesNext, TableType
  <2>2. (\A g \in Games : games[g].match \in Matches)'
    BY <1>2, <1>3 DEF Matches
  <2>3. (\A g, h \in Games : games[g].match = games[h].match => g = h)'
    BY <1>1, <1>2 DEF TableType
  <2>4. QED
    BY <1>2, <2>1, <2>2, <2>3 DEF TableType, MatchesNext, StreamsNext, GamesNext, RunsNext, Matches, Launching
<1>5. RunsIsPlayed'
  BY <1>1, <1>2 DEF RunsIsPlayed, GamesNext, GameMoves, RunsNext, Playing, InPlay
<1>6. EndsAreTrue'
  BY DEF EndsAreTrue, StreamsNext
<1>7. LaunchReads'
  BY DEF LaunchReads, StreamsNext, Launching
<1>8. GamesRead'
  BY <1>2 DEF GamesRead, StreamsNext
<1>9. GamesKnow'
  <2> SUFFICES ASSUME NEW g \in Games, Knows(games'[g]) PROVE games[g].match \notin Back'
    BY <1>2 DEF GamesKnow, Knows
  <2>1. Knows(games[g]) \/ games[g].match \notin Back'
    BY DEF GamesNext, GameMoves
  <2>2. Knows(games[g]) => games[g].match \notin Back
    BY <1>1 DEF GamesKnow, Knows
  <2>3. QED
    BY <1>2, <1>3, <2>1, <2>2
<1>10. NoMatchLeftBehind'
  <2> SUFFICES ASSUME NEW g \in Games, games'[g].match \in live', games'[g].pc \notin InPlay
               PROVE  games'[g].match \in left' \cup reopened'
    BY <1>2 DEF NoMatchLeftBehind, Playing, InPlay
  <2>1. games[g].match \in live' /\ games'[g].match = games[g].match
    BY <1>2
  <2>2. CASE Playing(g)
    BY <2>1, <2>2 DEF GamesNext, GameMoves
  <2>3. CASE ~Playing(g)
    <3>1. games[g].match \in live \/ games[g].match \in reopened'
      BY <2>1, <2>3 DEF MatchesNext
    <3>2. games[g].match \in live => games[g].match \in left \cup reopened
      BY <1>1, <2>3 DEF NoMatchLeftBehind
    <3>3. QED
      BY <2>1, <3>1, <3>2 DEF MatchesNext
  <2>4. QED
    BY <2>2, <2>3
<1>11. QED
  BY <1>4, <1>5, <1>6, <1>7, <1>8, <1>9, <1>10 DEF TableInv

(* A step that nobody hears of, and nobody reads.                          *)
LEMMA NothingHeard ==
  ASSUME TableInv, MatchesNext, Silent, GamesNext, RunsNext,
         \/ start' = start
         \/ start'.pc \notin {"look", "skip", "create"}
         \/ Launching /\ start'.pc = "skip"
  PROVE  TableInv'
<1>1. TableType /\ EndsAreTrue /\ LaunchReads /\ GamesRead
  BY DEF TableInv
<1>2. pending' = pending /\ kinds' = kinds /\ Current(live') = Current(live) /\ (live = {} => live' = {})
  BY DEF Silent
<1>3. \A m \in Matches : m \in Back' => m \in Back
  BY DEF MatchesNext
<1>4. pending' \in [Readers -> Seq(Event)]
  BY <1>1, <1>2 DEF TableType
<1>5. \A r \in Readers : EndsTrue(pending'[r], Len(kinds'), Back')
  <2> SUFFICES ASSUME NEW r \in Readers, EndsTrue(pending[r], Len(kinds), Back)
               PROVE  EndsTrue(pending[r], Len(kinds), Back')
    BY <1>1, <1>2 DEF EndsAreTrue
  <2>1. QED
    BY <1>3 DEF EndsTrue, Matches
<1>6. Launching => LaunchHears(start.pc, pending'[Launch], Len(kinds'), live')
  BY <1>1, <1>2 DEF LaunchReads, LaunchHears
<1>7. Launching => LaunchHears("skip", pending'[Launch], Len(kinds'), live')
  BY <1>6 DEF LaunchHears
<1>8. ASSUME NEW g \in Games, games[g].match \in Back', Listens(games'[g])
      PROVE  Warned(pending'[g], games[g].match, live')
  <2>1. games[g].match \in Back
    BY <1>1, <1>3, <1>8 DEF TableType
  <2>2. Listens(games[g])
    BY <1>8 DEF GamesNext, GameMoves
  <2>3. Warned(pending[g], games[g].match, live)
    BY <1>1, <2>1, <2>2 DEF GamesRead
  <2>4. QED
    BY <1>2, <2>3 DEF Warned
<1>9. StreamsNext
  BY <1>4, <1>5, <1>6, <1>7, <1>8 DEF StreamsNext, Launching
<1>10. QED
  BY <1>9, Assembled

LEMMA SameMatches ==
  ASSUME TableInv, UNCHANGED <<kinds, live, won>>, left \subseteq left', reopened \subseteq reopened'
  PROVE  MatchesNext
<1>1. TableType /\ Len(kinds) \in Nat /\ Back' = Back
  BY DEF TableInv, TableType, Back
<1>2. QED
  BY <1>1 DEF MatchesNext, TableType, Matches

(* A step that changes nothing of zaehlwerk and reads nothing.             *)
LEMMA NoNews ==
  ASSUME TableInv, UNCHANGED <<kinds, live, won, pending>>, left \subseteq left', reopened \subseteq reopened',
         GamesNext, RunsNext,
         \/ start' = start
         \/ start'.pc \notin {"look", "skip", "create"}
         \/ Launching /\ start'.pc = "skip"
  PROVE  TableInv'
<1>1. MatchesNext
  BY SameMatches
<1>2. Silent
  BY DEF Silent
<1>3. QED
  BY <1>1, <1>2, NothingHeard

LEMMA SameGames ==
  ASSUME TableInv, games' = games
  PROVE  GamesNext
<1>1. games \in Seq(Game) /\ \A g \in Games : games[g] \in Game
  BY DEF TableInv, TableType, Games
<1>2. ASSUME NEW g \in Games PROVE GameMoves(g, games'[g])
  BY <1>1 DEF GameMoves, Knows, Playing, InPlay
<1>3. QED
  BY <1>1, <1>2 DEF GamesNext

LEMMA SameRuns ==
  ASSUME TableInv, UNCHANGED <<running, start>>
  PROVE  RunsNext
BY DEF TableInv, TableType, RunsNext, Launching

(* A step that only begins, goes on with or gives up a start that has      *)
(* looked at nothing yet.                                                  *)
LEMMA StartsOnly ==
  ASSUME TableInv, running' = running, ~Launching, start' \in Start, start'.pc \notin {"look", "skip", "create"}
  PROVE  RunsNext
BY DEF TableInv, TableType, RunsNext, Launching

LEMMA GoesFree ==
  ASSUME TableInv
  PROVE  NoStart \in Start /\ NoStart.pc = "free"
         /\ \A pc \in {"yield", "yielding", "follow", "look", "skip", "create"} :
              [start EXCEPT !.pc = pc] \in Start /\ [start EXCEPT !.pc = pc].pc = pc
BY DEF NoStart, Start, Callers, TableInv, TableType

(* Nobody plays while nothing runs or a game is launched.                  *)
LEMMA NobodyPlaying ==
  ASSUME TableInv, running \in {0, NewGame}
  PROVE  \A g \in Games : ~Playing(g)
BY DEF TableInv, TableType, RunsIsPlayed, NewGame, Games

LEMMA OneMoves ==
  ASSUME TableInv, NEW g \in Games, NEW x, games' = [games EXCEPT ![g] = x], GameMoves(g, x)
  PROVE  GamesNext
<1>1. /\ games \in Seq(Game) /\ Len(games) \in Nat /\ Games = 1..Len(games)
      /\ \A h \in Games : games[h] \in Game
  BY DEF TableInv, TableType, Games
<1>2. x \in Game
  BY DEF GameMoves
<1>3. games' \in Seq(Game) /\ Len(games') = Len(games)
  BY <1>1, <1>2
<1>4. ASSUME NEW h \in Games PROVE GameMoves(h, games'[h])
  <2>1. CASE h = g
    BY <1>1, <2>1
  <2>2. CASE h # g
    <3>1. games'[h] = games[h]
      BY <1>1, <2>2
    <3>2. QED
      BY <1>1, <3>1 DEF GameMoves, Playing, InPlay
  <2>3. QED
    BY <2>1, <2>2
<1>5. QED
  BY <1>3, <1>4 DEF GamesNext

(* Somebody tells a game that it is over; x may be no game at all.         *)
LEMMA Marked ==
  ASSUME TableInv, NEW x, games' = Stopped(x)
  PROVE  GamesNext
<1>1. /\ games \in Seq(Game) /\ Games = 1..Len(games) /\ DOMAIN games = Games
      /\ \A h \in Games : games[h] \in Game
  BY DEF TableInv, TableType, Games
<1>2. CASE x \in Games
  <2> DEFINE to == [games[x] EXCEPT !.cause = "told"]
  <2>1. games' = [games EXCEPT ![x] = to]
    BY DEF Stopped
  <2>2. to \in Game /\ to.match = games[x].match /\ to.pc = games[x].pc /\ to.saw = games[x].saw /\ to.cause = "told"
    BY <1>1, <1>2 DEF Game, Causes
  <2> HIDE DEF to
  <2>3. GameMoves(x, to)
    BY <2>2 DEF GameMoves, Knows, Playing, InPlay, Listens
  <2>4. QED
    BY <1>2, <2>1, <2>3, OneMoves
<1>3. CASE x \notin Games
  <2>1. games' = games
    BY <1>1, <1>3 DEF Stopped
  <2>2. QED
    BY <2>1, SameGames
<1>4. QED
  BY <1>2, <1>3

LEMMA AllCancelled ==
  ASSUME TableInv, games' = Cancelled
  PROVE  GamesNext
<1>1. /\ games \in Seq(Game) /\ Len(games) \in Nat /\ Games = 1..Len(games)
      /\ \A h \in Games : games[h] \in Game
  BY DEF TableInv, TableType, Games
<1>2. ASSUME NEW g \in Games
      PROVE  games'[g] \in Game /\ GameMoves(g, games'[g])
  <2> DEFINE to == [games[g] EXCEPT !.cause = IF Playing(g) /\ @ = "" THEN "told" ELSE @]
  <2>1. games'[g] = to
    BY <1>2 DEF Cancelled
  <2>2. /\ to \in Game /\ to.match = games[g].match /\ to.pc = games[g].pc /\ to.saw = games[g].saw
        /\ to.cause = "matchEnded" => games[g].cause = "matchEnded"
        /\ to.cause = "" => games[g].cause = ""
    BY <1>1 DEF Game, Causes
  <2> HIDE DEF to
  <2>3. QED
    BY <2>1, <2>2 DEF GameMoves, Knows, Playing, InPlay, Listens
<1>3. games' = [g \in 1..Len(games) |-> games'[g]]
  BY <1>1 DEF Cancelled
<1>4. games' \in Seq(Game) /\ Len(games') = Len(games)
  BY <1>1, <1>2, <1>3
<1>5. QED
  BY <1>2, <1>4 DEF GamesNext

-----------------------------------------------------------------------------
(* Steps that hear nothing and change nothing of zaehlwerk.                *)

Loops ==
  \/ WaitOver \/ WaitLeague \/ FallAsleep \/ Woken \/ LeagueMatchOver \/ ResumeLeague \/ WakeLeague
  \/ AskSeries \/ SeriesGameOver \/ Shutdown \/ Closed \/ OutOfTime

LEMMA LoopsKeep ==
  ASSUME TableInv, Loops
  PROVE  TableInv'
<1>1. UNCHANGED <<kinds, live, won, pending, left, reopened, games, running, start>>
  BY DEF Loops, WaitOver, WaitLeague, FallAsleep, Woken, LeagueMatchOver, ResumeLeague, WakeLeague,
     AskSeries, SeriesGameOver, Shutdown, Closed, OutOfTime, Request, tableVars, matchVars, boundVars, loopVars
<1>2. GamesNext /\ RunsNext
  BY <1>1, SameGames, SameRuns
<1>3. QED
  BY <1>1, <1>2, NoNews

Begun == StartGame \/ StartScreensaver \/ StartDemo \/ StartSeriesGame \/ StartLeagueMatch

LEMMA BegunKeeps ==
  ASSUME TableInv, Begun
  PROVE  TableInv'
<1>1. UNCHANGED <<kinds, live, won, pending, left, reopened, games, running>>
  BY DEF Begun, StartGame, StartScreensaver, Asks, StartDemo, StartSeriesGame, StartLeagueMatch,
     tableVars, matchVars, boundVars, loopVars
<1>2. start' = start \/ \E for \in Callers : Begins(for)
  BY DEF Begun, StartGame, StartScreensaver, Asks, StartDemo, StartSeriesGame, StartLeagueMatch, Callers
<1>3. GamesNext
  BY <1>1, SameGames
<1>4. CASE start' = start
  BY <1>1, <1>3, <1>4, SameRuns, NoNews
<1>5. ASSUME NEW for \in Callers, Begins(for) PROVE TableInv'
  <2>1. ~Launching /\ start' \in Start /\ start'.pc \in {"follow", "yield"}
    BY <1>5 DEF Begins, Launching, Start, NoStart
  <2>2. RunsNext
    BY <1>1, <2>1, StartsOnly
  <2>3. QED
    BY <1>1, <1>3, <2>1, <2>2, NoNews
<1>6. QED
  BY <1>2, <1>4, <1>5

Marks == LeagueNow \/ HoldLeague \/ (\E late \in BOOLEAN : Close(late)) \/ (\E g \in Games : Abandon(g))

LEMMA MarksKeep ==
  ASSUME TableInv, Marks
  PROVE  TableInv'
<1>1. UNCHANGED <<kinds, live, won, pending, left, reopened, running, start>>
  BY DEF Marks, LeagueNow, HoldLeague, Close, Abandon, tableVars, matchVars, boundVars, loopVars
<1>2. games' = games \/ games' = Cancelled \/ \E x : games' = Stopped(x)
  BY DEF Marks, LeagueNow, HoldLeague, Close, Abandon
<1>3. GamesNext
  BY <1>2, SameGames, AllCancelled, Marked
<1>4. RunsNext
  BY <1>1, SameRuns
<1>5. QED
  BY <1>1, <1>3, <1>4, NoNews

-----------------------------------------------------------------------------
(* A start that yields and follows.                                        *)

LEMMA YieldKeeps ==
  ASSUME TableInv, Yield
  PROVE  TableInv'
<1>1. UNCHANGED <<kinds, live, won, pending, left, reopened, running>> /\ ~Launching
  BY DEF Yield, Launching, tableVars, matchVars, boundVars
<1>2. start' \in Start /\ start'.pc \in {"yielding", "follow"}
  BY GoesFree DEF Yield, Step
<1>3. games' = games \/ \E x : games' = Stopped(x)
  BY DEF Yield
<1>4. GamesNext
  BY <1>3, SameGames, Marked
<1>5. RunsNext
  BY <1>1, <1>2, StartsOnly
<1>6. QED
  BY <1>1, <1>2, <1>4, <1>5, NoNews

LEMMA YieldedKeeps ==
  ASSUME TableInv, Yielded
  PROVE  TableInv'
<1>1. UNCHANGED <<kinds, live, won, pending, left, reopened, games>> /\ ~Launching
  BY DEF Yielded, Launching, tableVars, matchVars, boundVars
<1>2. start' \in Start /\ start'.pc = "follow"
  BY GoesFree DEF Yielded, Step
<1>3. GamesNext
  BY <1>1, SameGames
<1>4. RunsNext
  <2>1. CASE running' = running
    BY <1>1, <1>2, <2>1, StartsOnly
  <2>2. CASE running # 0 /\ LetsGo(running) /\ running' = 0
    <3>1. \A g \in Games : ~Playing(g)
      BY <2>2 DEF TableInv, RunsIsPlayed, LetsGo, Playing
    <3>2. \A g \in Games : games'[g].pc \notin InPlay
      BY <1>1, <3>1 DEF Playing, InPlay
    <3>3. QED
      BY <1>1, <1>2, <2>2, <3>2 DEF RunsNext, NewGame
  <2>3. QED
    BY <2>1, <2>2 DEF Yielded
<1>5. QED
  BY <1>1, <1>2, <1>3, <1>4, NoNews

(* One reader reads, or begins to, or goes.                                *)
LEMMA OneReads ==
  ASSUME TableInv, UNCHANGED <<kinds, live, won>>, left \subseteq left', reopened \subseteq reopened',
         NEW r \in Readers, NEW x \in Seq(Event), pending' = [pending EXCEPT ![r] = x],
         EndsTrue(x, Len(kinds), Back),
         r \in Games /\ games[r].match \in Back /\ Listens(games'[r]) => Warned(x, games[r].match, live),
         \/ start'.pc \notin {"look", "skip", "create"}
         \/ r # Launch /\ start' = start
         \/ r = Launch /\ LaunchHears(start'.pc, x, Len(kinds), live),
         GamesNext, RunsNext
  PROVE  TableInv'
<1>1. TableType /\ EndsAreTrue /\ LaunchReads /\ GamesRead
  BY DEF TableInv
<1>2. MatchesNext
  BY SameMatches
<1>3. /\ pending' \in [Readers -> Seq(Event)] /\ pending'[r] = x
      /\ \A q \in Readers : q # r => pending'[q] = pending[q]
  BY <1>1 DEF TableType
<1>4. Launch \in Readers /\ Games \subseteq Readers
  BY <1>1, PongTableAssumption DEF TableType, Games, Readers
<1>5. Back' = Back
  BY DEF Back
<1>6. \A q \in Readers : EndsTrue(pending'[q], Len(kinds'), Back')
  BY <1>1, <1>3, <1>5 DEF EndsAreTrue
<1>7. start'.pc \in {"look", "skip", "create"} => LaunchHears(start'.pc, pending'[Launch], Len(kinds'), live')
  BY <1>1, <1>3, <1>4 DEF LaunchReads, Launching
<1>8. ASSUME NEW g \in Games, games[g].match \in Back', Listens(games'[g])
      PROVE  Warned(pending'[g], games[g].match, live')
  <2>1. CASE g = r
    BY <1>3, <1>5, <1>8, <2>1
  <2>2. CASE g # r
    <3>1. Listens(games[g])
      BY <1>8 DEF GamesNext, GameMoves
    <3>2. Warned(pending[g], games[g].match, live)
      BY <1>1, <1>5, <1>8, <3>1 DEF GamesRead
    <3>3. QED
      BY <1>3, <1>4, <2>2, <3>2
  <2>3. QED
    BY <2>1, <2>2
<1>9. StreamsNext
  BY <1>3, <1>6, <1>7, <1>8 DEF StreamsNext
<1>10. QED
  BY <1>2, <1>9, Assembled

LEMMA NothingToRead ==
  ASSUME NEW n, NEW l
  PROVE  <<>> \in Seq(Event) /\ EndsTrue(<<>>, n, l)
<1>1. <<>> \in Seq(Event) /\ Len(<<>>) = 0
  OBVIOUS
<1>2. QED
  BY <1>1 DEF EndsTrue

LEMMA FirstShown ==
  ASSUME TableInv
  PROVE  /\ <<Shows(live)>> \in Seq(Event) /\ EndsTrue(<<Shows(live)>>, Len(kinds), Back)
         /\ LaunchHears("look", <<Shows(live)>>, Len(kinds), live)
<1> DEFINE shown == Shows(live)
<1>1. shown \in Event /\ shown.kind \in {"none", "snapshot"} /\ (shown.kind = "none" => live = {})
  <2>1. Len(kinds) \in Nat /\ live \in SUBSET (1..Len(kinds))
    BY DEF TableInv, TableType, Matches
  <2>2. QED
    BY <2>1, CurrentIsLive
<1> HIDE DEF shown
<1>2. <<shown>> \in Seq(Event) /\ Len(<<shown>>) = 1 /\ <<shown>>[1] = shown
  BY <1>1
<1>3. EndsTrue(<<shown>>, Len(kinds), Back)
  BY <1>1, <1>2 DEF EndsTrue
<1>4. NewAfterNone(<<shown>>, Len(kinds))
  BY <1>2 DEF NewAfterNone
<1>5. LaunchHears("look", <<shown>>, Len(kinds), live)
  BY <1>1, <1>2, <1>4 DEF LaunchHears
<1>6. QED
  BY <1>2, <1>3, <1>5 DEF shown

LEMMA FollowKeeps ==
  ASSUME TableInv, Follow
  PROVE  TableInv'
<1>1. UNCHANGED <<kinds, live, won, left, reopened, games>> /\ ~Launching
  BY DEF Follow, Launching, matchVars
<1>2. GamesNext
  BY <1>1, SameGames
<1>3. ASSUME start' = NoStart, UNCHANGED <<running, pending>> PROVE TableInv'
  <2>1. start' \in Start /\ start'.pc = "free"
    BY <1>3, GoesFree
  <2>2. RunsNext
    BY <1>1, <1>3, <2>1, StartsOnly
  <2>3. QED
    BY <1>1, <1>2, <1>3, <2>1, <2>2, NoNews
<1>4. ASSUME Free, running' = NewGame, Step("look"), pending' = [pending EXCEPT ![Launch] = <<Shows(live)>>]
      PROVE  TableInv'
  <2>1. start' \in Start /\ start'.pc = "look"
    BY <1>4, GoesFree DEF Step
  <2>2. \A g \in Games : games'[g].pc \notin InPlay
    BY <1>1, <1>4, NobodyPlaying DEF Free, Playing, InPlay
  <2>3. RunsNext
    BY <1>1, <1>4, <2>1, <2>2 DEF RunsNext
  <2>4. Launch \in Readers /\ Launch \notin Games
    BY DEF Readers, Launch, Games
  <2>5. /\ <<Shows(live)>> \in Seq(Event) /\ EndsTrue(<<Shows(live)>>, Len(kinds), Back)
        /\ LaunchHears("look", <<Shows(live)>>, Len(kinds), live)
    BY FirstShown
  <2>6. QED
    BY <1>1, <1>2, <1>4, <2>1, <2>3, <2>4, <2>5, OneReads
<1>5. QED
  BY <1>3, <1>4 DEF Follow, NotStarted

-----------------------------------------------------------------------------
(* The games.                                                              *)

LEMMA GameOf ==
  ASSUME TableInv, NEW g \in Games
  PROVE  /\ games[g] \in Game /\ games[g].match \in Matches
         /\ Launch # g /\ g \in Readers /\ Len(games) \in Nat
<1>1. TableType
  BY DEF TableInv
<1>2. QED
  BY <1>1, PongTableAssumption DEF TableType, Games, Readers, Launch

(* A game that is over, when its match is or nobody could end it.          *)
LEMMA Finishes ==
  ASSUME TableInv, NEW g \in Games, Playing(g), NEW status \in {"won", "ended"},
         games' = Finished(g, status),
         games[g].match \notin live' \/ games[g].match \in left' \cup reopened'
  PROVE  GamesNext
<1> DEFINE to == [games[g] EXCEPT !.pc = "done", !.status = status, !.cause = "", !.saw = ""]
<1>1. games' = [games EXCEPT ![g] = to]
  BY DEF Finished
<1>2. /\ to \in Game /\ to.match = games[g].match /\ to.pc = "done" /\ to.saw = "" /\ to.cause = ""
  BY GameOf DEF Game, Causes
<1> HIDE DEF to
<1>3. GameMoves(g, to)
  BY <1>2 DEF GameMoves, Knows, InPlay, Listens
<1>4. QED
  BY <1>1, <1>3, OneMoves

(* A game that plays on, won or not, knows no more than it did.             *)
LEMMA PlaysOn ==
  ASSUME TableInv, NEW g \in Games, Playing(g), NEW pc \in InPlay, games' = [games EXCEPT ![g].pc = pc]
  PROVE  GamesNext
<1> DEFINE to == [games[g] EXCEPT !.pc = pc]
<1>1. games' = [games EXCEPT ![g] = to]
  OBVIOUS
<1>2. /\ to \in Game /\ to.match = games[g].match /\ to.pc = pc
      /\ to.saw = games[g].saw /\ to.cause = games[g].cause
  BY GameOf DEF Game, InPlay
<1> HIDE DEF to
<1>3. GameMoves(g, to)
  BY <1>2 DEF GameMoves, Knows, Listens, Playing, InPlay
<1>4. QED
  BY <1>1, <1>3, OneMoves

(* An answer that is lost: the game goes on, or is over with its match.    *)
LEMMA GoesOnWithout ==
  ASSUME TableInv, NEW g \in Games, Playing(g), live' = live, games' \in {AnswerLost(g), Stopped(g)}
  PROVE  GamesNext
<1>1. CASE games' = Stopped(g)
  BY <1>1, Marked
<1>2. CASE games' = AnswerLost(g) /\ games[g].match \in live
  <2>1. games' = [games EXCEPT ![g].pc = "play"]
    BY <1>2 DEF AnswerLost
  <2>2. QED
    BY <2>1, PlaysOn DEF InPlay
<1>3. CASE games' = AnswerLost(g) /\ games[g].match \notin live
  <2>1. games' = Finished(g, "ended")
    BY <1>3 DEF AnswerLost
  <2>2. QED
    BY <1>3, <2>1, Finishes
<1>4. QED
  BY <1>1, <1>2, <1>3

LEMMA AnswerRefuseKeep ==
  ASSUME TableInv, NEW g \in Games, Answer(g) \/ Refuse(g)
  PROVE  TableInv'
<1>1. /\ UNCHANGED <<kinds, live, won, pending, left, running, start>>
      /\ reopened \subseteq reopened' /\ Playing(g)
  BY DEF Answer, Refuse, Playing, tableVars, matchVars, boundVars
<1>2. GamesNext
  <2>1. CASE games' = Finished(g, "won") /\ (games[g].match \in live => games[g].match \in reopened')
    BY <1>1, <2>1, Finishes
  <2>2. CASE games' = Finished(g, "ended") /\ games[g].match \notin live
    BY <1>1, <2>2, Finishes
  <2>3. CASE games' \in {AnswerLost(g), Stopped(g)}
    BY <1>1, <2>3, GoesOnWithout
  <2>4. QED
    BY <2>1, <2>2, <2>3 DEF Answer, Refuse
<1>3. RunsNext
  BY <1>1, SameRuns
<1>4. QED
  BY <1>1, <1>2, <1>3, NoNews

LEMMA LetGoKeeps ==
  ASSUME TableInv, NEW g \in Games, LetGo(g)
  PROVE  TableInv'
<1>1. /\ UNCHANGED <<kinds, live, won, pending, left, reopened, start>>
      /\ games[g].pc = "done" /\ ~Playing(g)
      /\ running' = IF running = g THEN 0 ELSE running
  BY DEF LetGo, Playing, tableVars, matchVars, boundVars
<1> DEFINE to == [games[g] EXCEPT !.pc = "gone"]
<1>2. games' = [games EXCEPT ![g] = to]
  BY DEF LetGo
<1>3. /\ to \in Game /\ to.match = games[g].match /\ to.pc = "gone"
      /\ to.saw = games[g].saw /\ to.cause = games[g].cause
  BY GameOf DEF Game
<1> HIDE DEF to
<1>4. GamesNext
  <2>1. GameMoves(g, to)
    BY <1>1, <1>3 DEF GameMoves, Knows, InPlay, Listens
  <2>2. QED
    BY <1>2, <2>1, OneMoves
<1>5. RunsNext
  <2>1. CASE running = g
    <3>1. \A h \in Games : ~Playing(h)
      BY <1>1, <2>1 DEF TableInv, RunsIsPlayed
    <3>2. \A h \in Games : games'[h].pc \notin InPlay
      BY <1>4, <3>1 DEF GamesNext, GameMoves
    <3>3. g # NewGame
      BY DEF Games, NewGame
    <3>4. QED
      BY <1>1, <2>1, <3>2, <3>3 DEF RunsNext, TableInv, TableType, Launching, NewGame
  <2>2. CASE running # g
    BY <1>1, <2>2, SameRuns
  <2>3. QED
    BY <2>1, <2>2
<1>6. QED
  BY <1>1, <1>4, <1>5, NoNews

(* What a game takes an event for is so: no_match comes after its match's  *)
(* end by hand, unless it was won or is not the one shown, and then the    *)
(* game would have heard that before.                                      *)
LEMMA EventsAreSo ==
  ASSUME TableInv, NEW g \in Games, pending[g] # <<>>, Listens(games[g])
  PROVE  LET e == Head(pending[g]) IN
         /\ e \in Event
         /\ Means(g, e) \in Causes /\ Saw(g, e) \in {"", "ended", "won"}
         /\ Means(g, e) = "matchEnded" => games[g].match \notin Back
         /\ Saw(g, e) = "ended" => games[g].saw = "ended" \/ games[g].match \notin Back
         /\ Means(g, e) = "" /\ Saw(g, e) # "won" => ~StopsWatch(e, games[g].match)
<1> DEFINE s == pending[g]
           e == Head(s)
           m == games[g].match
<1>1. s \in Seq(Event)
  BY GameOf DEF TableInv, TableType
<1>2. Len(s) \in Nat \ {0} /\ e = s[1] /\ e \in Event /\ 1 \in 1..Len(s)
  <2>1. Len(s) \in Nat \ {0} /\ Head(s) = s[1] /\ Head(s) \in Event
    BY <1>1, Rest
  <2>2. QED
    BY <2>1
<1>3. e.kind = "none" => m \notin Back
  <2> SUFFICES ASSUME e.kind = "none", m \in Back PROVE FALSE
    OBVIOUS
  <2>1. StopsFirst(s, m)
    BY DEF TableInv, GamesRead, Warned
  <2>2. PICK j \in 1..(1 - 1) : TRUE
    BY <1>2, <2>1 DEF StopsFirst
  <2>3. QED
    BY <2>2
<1>4. e.kind = "ended" => e.match \notin Back
  BY <1>2, GameOf DEF TableInv, EndsAreTrue, EndsTrue
<1>5. e.kind \in {"none", "snapshot", "ended", "won"}
  BY <1>2 DEF Event
<1>6. games[g].saw \in {"", "ended", "won"}
  BY GameOf DEF Game
<1> HIDE DEF e, s
<1>7. /\ Means(g, e) \in Causes /\ (Means(g, e) = "matchEnded" => e.kind = "none")
      /\ Means(g, e) = "" => ~(e.kind = "snapshot" /\ e.match # m)
  BY <1>5 DEF Means, Causes
<1>8. CASE e.kind \in {"ended", "won"} /\ e.match = m
  <2>1. Saw(g, e) = e.kind
    BY <1>8 DEF Saw
  <2>2. Saw(g, e) # "won" => ~(e.kind = "won" /\ e.match = m)
    BY <2>1
  <2>3. Saw(g, e) = "ended" => m \notin Back
    BY <1>4, <1>8, <2>1
  <2>4. QED
    BY <1>2, <1>3, <1>5, <1>7, <1>8, <2>1, <2>2, <2>3 DEF e, s, StopsWatch
<1>9. CASE ~(e.kind \in {"ended", "won"} /\ e.match = m)
  <2>1. Saw(g, e) = games[g].saw
    BY <1>9 DEF Saw
  <2>2. ~(e.kind = "won" /\ e.match = m)
    BY <1>9
  <2>3. QED
    BY <1>2, <1>3, <1>6, <1>7, <2>1, <2>2 DEF e, s, StopsWatch
<1>10. QED
  BY <1>8, <1>9

LEMMA WatchKeeps ==
  ASSUME TableInv, NEW g \in Games, Watch(g)
  PROVE  TableInv'
<1> DEFINE e == Head(pending[g])
           to == [games[g] EXCEPT !.cause = Means(g, e), !.saw = Saw(g, e)]
           x == IF Means(g, e) = "" THEN Tail(pending[g]) ELSE <<>>
<1>1. /\ UNCHANGED <<kinds, live, won, left, reopened, running, start>>
      /\ Playing(g) /\ Listens(games[g]) /\ pending[g] # <<>>
      /\ games' = [games EXCEPT ![g] = to]
  BY DEF Watch, Watches, Playing, InPlay, Listens, matchVars, boundVars
<1>2. pending[g] \in Seq(Event) /\ EndsTrue(pending[g], Len(kinds), Back) /\ Len(kinds) \in Nat
  BY GameOf DEF TableInv, TableType, EndsAreTrue
<1>3. pending' = [pending EXCEPT ![g] = x]
  BY DEF Watch, Read
<1>4. /\ e \in Event /\ Means(g, e) \in Causes /\ Saw(g, e) \in {"", "ended", "won"}
      /\ Means(g, e) = "matchEnded" => games[g].match \notin Back
      /\ Saw(g, e) = "ended" => games[g].saw = "ended" \/ games[g].match \notin Back
      /\ Means(g, e) = "" /\ Saw(g, e) # "won" => ~StopsWatch(e, games[g].match)
  BY <1>1, EventsAreSo
<1>5. to \in Game /\ to.match = games[g].match /\ to.pc = games[g].pc /\ to.cause = Means(g, e) /\ to.saw = Saw(g, e)
  <2> DEFINE c == Means(g, e)
             w == Saw(g, e)
  <2>1. c \in Causes /\ w \in {"", "ended", "won"} /\ games[g] \in Game
    BY <1>4, GameOf
  <2> HIDE DEF c, w
  <2>2. to = [games[g] EXCEPT !.cause = c, !.saw = w]
    BY DEF c, w
  <2>3. to \in Game /\ to.match = games[g].match /\ to.pc = games[g].pc /\ to.cause = c /\ to.saw = w
    BY <2>1, <2>2 DEF Game
  <2>4. QED
    BY <2>3 DEF c, w
<1> HIDE DEF to, e
<1>6. GamesNext
  <2>1. Back' = Back
    BY <1>1 DEF Back
  <2>2. Knows(to) => Knows(games[g]) \/ games[g].match \notin Back'
    BY <1>4, <1>5, <2>1 DEF Knows
  <2>3. GameMoves(g, to)
    BY <1>1, <1>5, <2>2 DEF GameMoves, Playing, InPlay
  <2>4. QED
    BY <1>1, <2>3, OneMoves
<1>7. RunsNext
  BY <1>1, SameRuns
<1>8. games'[g] = to
  BY <1>1 DEF TableInv, TableType, Games
<1>9. /\ x \in Seq(Event) /\ EndsTrue(x, Len(kinds), Back)
      /\ games[g].match \in Back /\ Listens(games'[g]) => Warned(x, games[g].match, live)
  <2>1. CASE Means(g, e) = ""
    <3>1. games[g].match \in Back => Warned(pending[g], games[g].match, live)
      BY <1>1 DEF TableInv, GamesRead
    <3>2. /\ Tail(pending[g]) \in Seq(Event)
          /\ EndsTrue(Tail(pending[g]), Len(kinds), Back)
          /\ \A m, c : Warned(pending[g], m, c) /\ ~StopsWatch(Head(pending[g]), m) =>
               Warned(Tail(pending[g]), m, c)
      BY <1>1, <1>2, Shrinks
    <3>3. Listens(games'[g]) => ~StopsWatch(Head(pending[g]), games[g].match)
      BY <1>4, <1>5, <1>8, <2>1 DEF Listens, e
    <3>4. QED
      BY <2>1, <3>1, <3>2, <3>3
  <2>2. CASE Means(g, e) # ""
    <3>1. ~Listens(games'[g])
      BY <1>5, <1>8, <2>2 DEF Listens
    <3>2. QED
      BY <2>2, <3>1, NothingToRead
  <2>3. QED
    BY <2>1, <2>2
<1> HIDE DEF x
<1>10. QED
  BY <1>1, <1>3, <1>6, <1>7, <1>9, GameOf, OneReads

LEMMA StreamBreaksKeeps ==
  ASSUME TableInv, NEW g \in Games, StreamBreaks(g)
  PROVE  TableInv'
<1> DEFINE to == [games[g] EXCEPT !.cause = IF games[g].saw = "ended" THEN "matchEnded" ELSE "lost"]
<1>1. /\ UNCHANGED <<kinds, live, won, left, reopened, running, start>> /\ Playing(g)
      /\ games' = [games EXCEPT ![g] = to]
      /\ pending' = [pending EXCEPT ![g] = <<>>]
  BY DEF StreamBreaks, Watches, matchVars
<1>2. /\ to \in Game /\ to.match = games[g].match /\ to.pc = games[g].pc /\ to.saw = games[g].saw
      /\ to.cause # "" /\ (to.cause = "matchEnded" => games[g].saw = "ended")
  BY GameOf DEF Game, Causes
<1> HIDE DEF to
<1>3. GameMoves(g, to)
  BY <1>1, <1>2 DEF GameMoves, Knows, Listens, Playing, InPlay
<1>4. GamesNext
  BY <1>1, <1>3, OneMoves
<1>5. RunsNext
  BY <1>1, SameRuns
<1>6. ~Listens(games'[g])
  <2>1. games'[g] = to
    BY <1>1 DEF TableInv, TableType, Games
  <2>2. QED
    BY <1>2, <2>1 DEF Listens
<1>7. QED
  BY <1>1, <1>4, <1>5, <1>6, GameOf, NothingToRead, OneReads

-----------------------------------------------------------------------------
(* The table watch reads.                                                  *)

WatchReads == WatchTable \/ Blinded \/ TableEvent

LEMMA WatchReadsKeeps ==
  ASSUME TableInv, WatchReads
  PROVE  TableInv'
<1>1. UNCHANGED <<kinds, live, won, left, reopened, games, running, start>>
  BY DEF WatchReads, WatchTable, Blinded, TableEvent, matchVars, boundVars
<1>2. GamesNext /\ RunsNext
  BY <1>1, SameGames, SameRuns
<1>3. Table \in Readers /\ Table \notin Games /\ Table # Launch
  BY DEF Readers, Table, Launch, Games
<1>4. pending[Table] \in Seq(Event) /\ EndsTrue(pending[Table], Len(kinds), Back) /\ Len(kinds) \in Nat
  BY <1>3 DEF TableInv, TableType, EndsAreTrue
<1>5. PICK x \in Seq(Event) : pending' = [pending EXCEPT ![Table] = x] /\ EndsTrue(x, Len(kinds), Back)
  <2>1. CASE WatchTable
    BY <2>1, FirstShown DEF WatchTable
  <2>2. CASE Blinded
    BY <2>2, NothingToRead DEF Blinded
  <2>3. CASE TableEvent
    <3>1. pending[Table] # <<>> /\ pending' = [pending EXCEPT ![Table] = Tail(pending[Table])]
      BY <2>3 DEF TableEvent, Read
    <3>2. Tail(pending[Table]) \in Seq(Event) /\ EndsTrue(Tail(pending[Table]), Len(kinds), Back)
      BY <1>4, <3>1, Shrinks
    <3>3. QED
      BY <3>1, <3>2
  <2>4. QED
    BY <2>1, <2>2, <2>3 DEF WatchReads
<1>6. QED
  BY <1>1, <1>2, <1>3, <1>5, OneReads

-----------------------------------------------------------------------------
(* The launch.                                                             *)

(* It gives up, and its stream with it; nothing of zaehlwerk changes.      *)
LEMMA GivesUpKeeps ==
  ASSUME TableInv, Launching, GivesUp, Hangs, UNCHANGED <<kinds, live, won, left, reopened, games>>
  PROVE  TableInv'
<1>1. running = NewGame
  BY DEF TableInv, TableType
<1>2. start' \in Start /\ start'.pc = "free" /\ running' = 0
  BY GoesFree DEF GivesUp, NotStarted
<1>3. GamesNext
  BY SameGames
<1>4. RunsNext
  BY <1>1, <1>2, NobodyPlaying DEF RunsNext, Playing, InPlay, NewGame
<1>5. pending' = [pending EXCEPT ![Launch] = <<>>] /\ Launch \in Readers /\ Launch \notin Games
  BY DEF Hangs, Readers, Launch, Games
<1>6. QED
  BY <1>2, <1>3, <1>4, <1>5, NothingToRead, OneReads

(* It reads one event and goes on.                                         *)
LEMMA LaunchGoesOn ==
  ASSUME TableInv, Launching, NEW pc \in {"skip", "create"}, Step(pc), pending' = Read(Launch),
         pending[Launch] # <<>>, pc = "create" => Head(pending[Launch]).kind = "none",
         UNCHANGED <<kinds, live, won, left, reopened, games, running>>
  PROVE  TableInv'
<1> DEFINE s == pending[Launch]
           x == Tail(s)
<1>1. Launch \in Readers /\ Launch \notin Games
  BY DEF Readers, Launch, Games
<1>2. s \in Seq(Event) /\ EndsTrue(s, Len(kinds), Back) /\ Len(kinds) \in Nat
  BY <1>1 DEF TableInv, TableType, EndsAreTrue
<1>3. LaunchHears(start.pc, s, Len(kinds), live)
  BY DEF TableInv, LaunchReads
<1>4. NewAfterNone(s, Len(kinds)) /\ (s[Len(s)].kind = "none" => live = {})
  BY <1>3 DEF LaunchHears
<1>5. pending' = [pending EXCEPT ![Launch] = x]
  BY DEF Read
<1>6. start' \in Start /\ start'.pc = pc
  BY GoesFree DEF Step
<1>7. /\ x \in Seq(Event) /\ EndsTrue(x, Len(kinds), Back) /\ NewAfterNone(x, Len(kinds))
      /\ x # <<>> => x[Len(x)] = s[Len(s)]
      /\ x = <<>> => s[Len(s)] = Head(s)
      /\ Head(s).kind = "none" /\ x # <<>> => x[1].kind = "snapshot" /\ x[1].match \in 1..Len(kinds)
  BY <1>2, <1>4, Shrinks
<1> HIDE DEF x
<1>8. LaunchHears(pc, x, Len(kinds), live)
  BY <1>4, <1>7 DEF LaunchHears
<1>9. GamesNext
  BY SameGames
<1>10. RunsNext
  BY <1>6 DEF RunsNext, TableInv, TableType, Launching
<1>11. QED
  BY <1>1, <1>5, <1>6, <1>7, <1>8, <1>9, <1>10, OneReads

LEMMA SkipKeeps ==
  ASSUME TableInv, Skip
  PROVE  TableInv'
<1>1. UNCHANGED <<kinds, live, won, left, reopened, games>> /\ start.pc = "skip" /\ Launching
  BY DEF Skip, Launching, matchVars
<1>2. CASE GivesUp /\ Hangs
  BY <1>1, <1>2, GivesUpKeeps
<1>3. CASE ~(GivesUp /\ Hangs)
  <2>1. /\ pending[Launch] # <<>> /\ pending' = Read(Launch) /\ running' = running
        /\ Step(IF Head(pending[Launch]).kind = "none" THEN "create" ELSE "skip")
    BY <1>3 DEF Skip
  <2>2. CASE Head(pending[Launch]).kind = "none"
    BY <1>1, <2>1, <2>2, LaunchGoesOn
  <2>3. CASE Head(pending[Launch]).kind # "none"
    BY <1>1, <2>1, <2>3, LaunchGoesOn
  <2>4. QED
    BY <2>2, <2>3
<1>4. QED
  BY <1>2, <1>3

-----------------------------------------------------------------------------
(* Steps that tell the readers something.                                  *)

LEMMA ToldToAll ==
  ASSUME TableInv, MatchesNext, NEW es, Tells(es), pending' = Published(es),
         \/ start'.pc \notin {"look", "skip", "create"}
         \/ start' = start
         \/ Launching /\ start'.pc = "skip",
         GamesNext, RunsNext
  PROVE  TableInv'
<1>1. Len(kinds) <= Len(kinds') /\ Len(kinds') \in Nat /\ \A m \in Matches : m \in Back' => m \in Back
  BY DEF MatchesNext
<1> DEFINE p == Published(es)
<1>2. /\ p \in [Readers -> Seq(Event)]
      /\ \A r \in Readers : EndsTrue(p[r], Len(kinds'), Back')
      /\ Launching => LaunchHears(start.pc, p[Launch], Len(kinds'), live')
      /\ \A g \in Games : games[g].match \in Back' /\ Listens(games[g]) =>
           Warned(p[g], games[g].match, live')
  BY <1>1, StreamsTold
<1> HIDE DEF p
<1>3. pending' = p
  BY DEF p
<1>4. Launching => LaunchHears("skip", p[Launch], Len(kinds'), live')
  BY <1>2 DEF LaunchHears
<1>5. \A g \in Games : Listens(games'[g]) => Listens(games[g])
  BY DEF GamesNext, GameMoves
<1>6. StreamsNext
  BY <1>2, <1>3, <1>4, <1>5 DEF StreamsNext, Launching
<1>7. QED
  BY <1>6, Assembled

LEMMA AddsNext ==
  ASSUME TableInv, NEW kind \in {"demo", "real"}, Adds(kind), left \subseteq left', reopened' = reopened
  PROVE  MatchesNext
<1>1. TableType
  BY DEF TableInv
<1>2. /\ kinds' \in Seq({"demo", "real"}) /\ Len(kinds') = Len(kinds) + 1
      /\ Len(kinds) \in Nat /\ Len(kinds') <= MaxMatches
      /\ live' \subseteq 1..Len(kinds') /\ won' = won /\ live' \cap won' = {}
      /\ \A m \in Matches : m \in live' => m \in live
  BY <1>1, AddsTells
<1>3. Len(kinds) <= Len(kinds') /\ won' \subseteq 1..Len(kinds')
  BY <1>1, <1>2 DEF TableType, Matches
<1>4. \A g \in Games : games[g].match \in live' => games[g].match \in live
  BY <1>1, <1>2 DEF TableType
<1>5. QED
  BY <1>2, <1>3, <1>4 DEF MatchesNext, Back

LEMMA OthersMatchKeeps ==
  ASSUME TableInv, NEW kind \in {"demo", "real"}, OthersMatch(kind)
  PROVE  TableInv'
<1>1. /\ UNCHANGED <<left, reopened, games, running, start>>
      /\ Adds(kind) /\ pending' = Published(AddsEvents(kind))
  BY DEF OthersMatch, boundVars
<1>2. GamesNext /\ RunsNext
  BY <1>1, SameGames, SameRuns
<1>3. MatchesNext
  BY <1>1, AddsNext
<1>4. Tells(AddsEvents(kind))
  BY <1>1, AddsTells DEF TableInv
<1>5. QED
  BY <1>1, <1>2, <1>3, <1>4, ToldToAll

(* A match stops: everybody is told, or nobody.                            *)
LEMMA StopsKeeps ==
  ASSUME TableInv, NEW m \in live, NEW how \in {"ended", "won"}, Stops(m, how),
         left \subseteq left', reopened \subseteq reopened',
         \/ start' = start
         \/ start'.pc \notin {"look", "skip", "create"}
         \/ Launching /\ start'.pc = "skip",
         GamesNext, RunsNext
  PROVE  TableInv'
<1>1. TableType /\ Len(kinds) \in Nat
  BY DEF TableInv, TableType
<1>2. /\ kinds' = kinds /\ live' = live \ {m}
      /\ won' \subseteq Matches /\ live' \cap won' = {} /\ Back' \subseteq Back
      /\ Silent \/ \E es : Tells(es) /\ pending' = Published(es)
  BY <1>1, StopsTells
<1>3. MatchesNext
  BY <1>1, <1>2 DEF MatchesNext, TableType, Matches
<1>4. CASE \E es : Tells(es) /\ pending' = Published(es)
  BY <1>3, <1>4, ToldToAll
<1>5. CASE Silent
  BY <1>3, <1>5, NothingHeard
<1>6. QED
  BY <1>2, <1>4, <1>5

LEMMA EndsKeeps ==
  ASSUME TableInv, NEW m, Ends(m), left' = left, reopened' = reopened,
         \/ start' = start
         \/ start'.pc \notin {"look", "skip", "create"}
         \/ Launching /\ start'.pc = "skip",
         GamesNext, RunsNext
  PROVE  TableInv'
<1>1. CASE m \in live
  <2>1. Stops(m, "ended")
    BY <1>1 DEF Ends
  <2>2. QED
    BY <1>1, <2>1, StopsKeeps
<1>2. CASE m \notin live
  <2>1. UNCHANGED <<kinds, live, pending>> /\ won' = won \ {m}
    BY <1>2 DEF Ends
  <2>2. TableType /\ Len(kinds) \in Nat
    BY DEF TableInv, TableType
  <2>3. /\ live' \subseteq Matches /\ won' \subseteq Matches /\ live' \cap won' = {}
        /\ \A x \in Matches : x \in Back' => x \in Back
    BY <2>1, <2>2 DEF TableType, Back
  <2>4. MatchesNext
    BY <2>1, <2>2, <2>3 DEF MatchesNext, TableType, Matches
  <2>5. Silent
    BY <2>1 DEF Silent
  <2>6. QED
    BY <2>4, <2>5, NothingHeard
<1>3. QED
  BY <1>1, <1>2

(* A won match runs again: no game that is over has it, or somebody undid  *)
(* it.                                                                     *)
LEMMA UndoesKeeps ==
  ASSUME TableInv, NEW m, Undoes(m), left' = left, reopened \subseteq reopened', start' = start,
         \A g \in Games : games[g].match = m => Playing(g) \/ m \in reopened',
         GamesNext, RunsNext
  PROVE  TableInv'
<1>1. CASE m \notin won
  BY <1>1, NoNews DEF Undoes, tableVars, matchVars
<1>2. CASE m \in won
  <2>1. TableType /\ Len(kinds) \in Nat
    BY DEF TableInv, TableType
  <2>2. /\ kinds' = kinds /\ live' = live \cup {m} /\ won' = won \ {m} /\ m \in Matches
        /\ live' \subseteq Matches /\ live' \cap won' = {} /\ Back' = Back
        /\ Silent \/ \E es : Tells(es) /\ pending' = Published(es)
    BY <1>2, <2>1, UndoesTells
  <2>3. MatchesNext
    <3>1. \A g \in Games : ~Playing(g) /\ games[g].match \in live' =>
            games[g].match \in live \/ games[g].match \in reopened'
      BY <2>2
    <3>2. QED
      BY <2>1, <2>2, <3>1 DEF MatchesNext, TableType, Matches
  <2>4. CASE Silent
    BY <2>3, <2>4, NothingHeard
  <2>5. CASE \E es : Tells(es) /\ pending' = Published(es)
    BY <2>3, <2>5, ToldToAll
  <2>6. QED
    BY <2>2, <2>4, <2>5
<1>3. QED
  BY <1>1, <1>2

LEMMA OthersEndKeeps ==
  ASSUME TableInv, NEW m \in Matches, NEW how \in {"ended", "won"}, OthersEnd(m, how)
  PROVE  TableInv'
<1>1. UNCHANGED <<left, reopened, games, running, start>>
  BY DEF OthersEnd, boundVars
<1>2. GamesNext /\ RunsNext
  BY <1>1, SameGames, SameRuns
<1>3. CASE m \in live /\ Stops(m, how)
  BY <1>1, <1>2, <1>3, StopsKeeps
<1>4. CASE Ends(m)
  BY <1>1, <1>2, <1>4, EndsKeeps
<1>5. QED
  BY <1>3, <1>4 DEF OthersEnd

LEMMA OthersUndoKeeps ==
  ASSUME TableInv, NEW m \in Matches, OthersUndo(m)
  PROVE  TableInv'
<1>1. /\ UNCHANGED <<left, games, running, start>> /\ Undoes(m)
      /\ reopened' = IF \E g \in Games : games[g].match = m /\ ~Playing(g) THEN reopened \cup {m} ELSE reopened
  BY DEF OthersUndo
<1>2. GamesNext /\ RunsNext
  BY <1>1, SameGames, SameRuns
<1>3. reopened \subseteq reopened' /\ \A g \in Games : games[g].match = m => Playing(g) \/ m \in reopened'
  BY <1>1
<1>4. QED
  BY <1>1, <1>2, <1>3, UndoesKeeps

LEMMA WinKeeps ==
  ASSUME TableInv, NEW g \in Games, Win(g)
  PROVE  TableInv'
<1>1. /\ UNCHANGED <<left, reopened, running, start>>
      /\ Playing(g) /\ games[g].match \in live /\ Stops(games[g].match, "won")
      /\ \E pc \in InPlay : games' = [games EXCEPT ![g].pc = pc]
  BY DEF Win, Playing, InPlay, boundVars
<1>2. GamesNext
  BY <1>1, PlaysOn
<1>3. RunsNext
  BY <1>1, SameRuns
<1>4. QED
  BY <1>1, <1>2, <1>3, StopsKeeps

LEMMA CorrectKeeps ==
  ASSUME TableInv, NEW g \in Games, Correct(g)
  PROVE  TableInv'
<1> DEFINE m == games[g].match
<1>1. UNCHANGED <<left, reopened, running, start>> /\ Playing(g)
  BY DEF Correct, Playing, boundVars
<1>2. RunsNext
  BY <1>1, SameRuns
<1>3. CASE Undoes(m) /\ (games' = [games EXCEPT ![g].pc = "play"] \/ games' = Stopped(g))
  <2>1. GamesNext
    BY <1>1, <1>3, PlaysOn, Marked DEF InPlay
  <2>2. \A h \in Games : games[h].match = m => Playing(h)
    BY <1>1 DEF TableInv, TableType
  <2>3. QED
    BY <1>1, <1>2, <1>3, <2>1, <2>2, UndoesKeeps
<1>4. CASE UNCHANGED tableVars /\ games' \in {Stopped(g), AnswerLost(g)}
  <2>1. UNCHANGED <<kinds, live, won, pending>>
    BY <1>4 DEF tableVars, matchVars
  <2>2. GamesNext
    BY <1>1, <1>4, <2>1, GoesOnWithout
  <2>3. QED
    BY <1>1, <1>2, <2>1, <2>2, NoNews
<1>5. QED
  BY <1>3, <1>4 DEF Correct

LEMMA OverKeeps ==
  ASSUME TableInv, NEW g \in Games, Over(g)
  PROVE  TableInv'
<1> DEFINE m == games[g].match
<1>1. UNCHANGED <<reopened, running, start>> /\ Playing(g) /\ games' = Finished(g, "ended")
  BY DEF Over
<1>2. RunsNext
  BY <1>1, SameRuns
<1>3. CASE EndMatch(g) /\ Ends(m) /\ left' = left
  <2>1. m \notin live'
    BY <1>3 DEF Ends, Stops
  <2>2. GamesNext
    BY <1>1, <2>1, Finishes
  <2>3. QED
    BY <1>1, <1>2, <1>3, <2>2, EndsKeeps
<1>4. CASE left' = left \cup {m} /\ UNCHANGED tableVars
  <2>1. GamesNext
    BY <1>1, <1>4, Finishes
  <2>2. UNCHANGED <<kinds, live, won, pending>> /\ left \subseteq left'
    BY <1>4 DEF tableVars, matchVars
  <2>3. QED
    BY <1>1, <1>2, <2>1, <2>2, NoNews
<1>5. CASE ~EndMatch(g) /\ UNCHANGED <<tableVars, left>>
  <2>1. UNCHANGED <<kinds, live, won, pending, left>>
    BY <1>5 DEF tableVars, matchVars
  <2>2. m \notin live'
    BY <1>5, <2>1 DEF EndMatch, TableInv, GamesKnow, Back
  <2>3. GamesNext
    BY <1>1, <2>2, Finishes
  <2>4. QED
    BY <1>1, <1>2, <2>1, <2>3, NoNews
<1>6. QED
  BY <1>3, <1>4, <1>5 DEF Over

LEMMA QuietKeeps ==
  ASSUME TableInv, Quiet
  PROVE  TableInv'
<1>1. UNCHANGED <<left, reopened, games, running, start>>
  BY DEF Quiet
<1>2. GamesNext /\ RunsNext
  BY <1>1, SameGames, SameRuns
<1>3. CASE Ends(attract.current)
  BY <1>1, <1>2, <1>3, EndsKeeps
<1>4. CASE UNCHANGED tableVars
  <2>1. UNCHANGED <<kinds, live, won, pending>>
    BY <1>4 DEF tableVars, matchVars
  <2>2. QED
    BY <1>1, <1>2, <2>1, NoNews
<1>5. QED
  BY <1>3, <1>4 DEF Quiet

LEMMA LookKeeps ==
  ASSUME TableInv, Look
  PROVE  TableInv'
<1> DEFINE e == Head(pending[Launch])
<1>1. UNCHANGED <<games, left, reopened>> /\ start.pc = "look" /\ Launching
  BY DEF Look, Launching
<1>2. Launch \in Readers /\ pending[Launch] \in Seq(Event) /\ pending[Launch] # <<>>
  BY <1>1 DEF Readers, TableInv, TableType, LaunchReads, LaunchHears
<1>3. e \in Event
  BY <1>2, Rest
<1>4. CASE e.kind = "none" /\ Step("create") /\ pending' = Read(Launch) /\ UNCHANGED <<matchVars, running>>
  BY <1>1, <1>2, <1>4, LaunchGoesOn DEF matchVars
<1>5. CASE GivesUp /\ Hangs /\ UNCHANGED matchVars
  BY <1>1, <1>5, GivesUpKeeps DEF matchVars
<1>6. CASE /\ Ends(e.match) /\ UNCHANGED running
           /\ start' = [start EXCEPT !.pc = "skip", !.match = e.match]
  <2>1. start' \in Start /\ start'.pc = "skip"
    BY <1>3, <1>6 DEF TableInv, TableType, Start, Event
  <2>2. GamesNext
    BY <1>1, SameGames
  <2>3. RunsNext
    BY <1>1, <1>6, <2>1 DEF RunsNext, TableInv, TableType
  <2>4. QED
    BY <1>1, <1>6, <2>1, <2>2, <2>3, EndsKeeps
<1>7. QED
  BY <1>4, <1>5, <1>6 DEF Look

(* A launch that has seen the table free hears of an older match before it *)
(* hears that there is none.                                               *)
LEMMA LaunchHearsOlder ==
  ASSUME TableInv, start.pc = "create", NEW m \in Nat, m > Len(kinds)
  PROVE  StopsFirst(pending[Launch], m)
<1> DEFINE s == pending[Launch]
<1>1. s \in Seq(Event) /\ LaunchHears("create", s, Len(kinds), live) /\ Len(kinds) \in Nat
  BY DEF TableInv, TableType, LaunchReads, Launching, Readers
<1> HIDE DEF s
<1>2. s # <<>> => s[1].kind = "snapshot" /\ s[1].match \in 1..Len(kinds)
  BY <1>1 DEF LaunchHears
<1>3. ASSUME NEW i \in 1..Len(s), s[i].kind = "none"
      PROVE  \E j \in 1..(i - 1) : StopsWatch(s[j], m)
  <2>1. s # <<>> /\ Len(s) \in Nat
    BY <1>1, <1>3, EmptySeq
  <2>2. s[1].kind = "snapshot" /\ s[1].match # m
    BY <1>1, <1>2, <2>1
  <2>3. i # 1
    BY <1>3, <2>2
  <2>4. 1 \in 1..(i - 1)
    BY <2>1, <2>3
  <2>5. QED
    BY <2>2, <2>4 DEF StopsWatch
<1>4. StopsFirst(s, m)
  BY <1>3 DEF StopsFirst
<1>5. QED
  BY <1>4 DEF s

LEMMA LostAnswerKeeps ==
  ASSUME TableInv, Launching, NEW kind \in {"demo", "real"}, Adds(kind),
         pending' = [Published(AddsEvents(kind)) EXCEPT ![Launch] = <<>>],
         GivesUp, left \subseteq left', UNCHANGED <<games, reopened>>
  PROVE  TableInv'
<1> DEFINE es == AddsEvents(kind)
           p == Published(es)
<1>1. MatchesNext
  BY AddsNext
<1>2. Tells(es)
  BY AddsTells DEF TableInv
<1>3. /\ p \in [Readers -> Seq(Event)]
      /\ \A r \in Readers : EndsTrue(p[r], Len(kinds'), Back')
      /\ \A g \in Games : games[g].match \in Back' /\ Listens(games[g]) =>
           Warned(p[g], games[g].match, live')
  <2>1. Len(kinds) <= Len(kinds') /\ Len(kinds') \in Nat /\ \A m \in Matches : m \in Back' => m \in Back
    BY <1>1 DEF MatchesNext
  <2> HIDE DEF es
  <2>2. QED
    BY <1>2, <2>1, StreamsTold
<1>4. running = NewGame /\ running' = 0 /\ start' \in Start /\ start'.pc = "free"
  BY GoesFree DEF TableInv, TableType, GivesUp, NotStarted
<1>5. pending' = [p EXCEPT ![Launch] = <<>>]
  OBVIOUS
<1> HIDE DEF p
<1>6. Launch \in Readers /\ Launch \notin Games
  BY DEF Readers, Launch, Games
<1>7. /\ pending' \in [Readers -> Seq(Event)] /\ pending'[Launch] = <<>>
      /\ \A r \in Readers : r # Launch => pending'[r] = p[r]
  BY <1>3, <1>5, <1>6, NothingToRead
<1>8. \A r \in Readers : EndsTrue(pending'[r], Len(kinds'), Back')
  BY <1>3, <1>7, NothingToRead
<1>9. \A g \in Games : games[g].match \in Back' /\ Listens(games'[g]) =>
        Warned(pending'[g], games[g].match, live')
  BY <1>3, <1>6, <1>7, GameOf
<1>10. StreamsNext
  BY <1>4, <1>7, <1>8, <1>9 DEF StreamsNext
<1>11. GamesNext
  BY SameGames
<1>12. RunsNext
  BY <1>4, NobodyPlaying DEF RunsNext, Playing, InPlay, NewGame
<1>13. QED
  BY <1>1, <1>10, <1>11, <1>12, Assembled

(* The match is created and its game begins, reading where the launch was. *)
LEMMA LaunchedKeeps ==
  ASSUME TableInv, start.pc = "create", NEW kind \in {"demo", "real"}, Adds(kind),
         games' = Append(games, Launched), running' = Len(games'), start' = NoStart,
         NEW p, p = Published(AddsEvents(kind)),
         pending' = [[p EXCEPT ![Launch] = <<>>] EXCEPT ![Len(games')] = p[Launch]],
         UNCHANGED <<left, reopened>>
  PROVE  TableInv'
<1> DEFINE es == AddsEvents(kind)
           n == Len(kinds')
           h == Len(games) + 1
<1>1. /\ TableType /\ Launching /\ Len(games) \in Nat /\ Len(kinds) \in Nat /\ MaxMatches \in Nat
      /\ Len(games) <= Len(kinds)
  BY PongTableAssumption DEF TableInv, TableType, Launching
<1>2. /\ kinds' \in Seq({"demo", "real"}) /\ n = Len(kinds) + 1 /\ n <= MaxMatches
      /\ live' \subseteq 1..n /\ n \in live' /\ Current(live') = n
      /\ won' = won /\ live' \cap won' = {}
      /\ \A m \in Matches : m \in live' => m \in live
      /\ Tells(es)
  BY <1>1, AddsTells
<1> HIDE DEF es
<1>3. /\ p \in [Readers -> Seq(Event)]
      /\ \A r \in Readers : EndsTrue(p[r], n, Back')
      /\ \A g \in Games : games[g].match \in Back' /\ Listens(games[g]) =>
           Warned(p[g], games[g].match, live')
  <2>1. Len(kinds) <= n /\ n \in Nat /\ p = Published(es) /\ \A m \in Matches : m \in Back' => m \in Back
    BY <1>1, <1>2 DEF es, Back
  <2>2. QED
    BY <1>2, <2>1, StreamsTold
<1>4. /\ Launched \in Game /\ Launched.match = n /\ Launched.pc = "play"
      /\ Launched.cause = "" /\ Launched.saw = ""
  <2>1. start.for \in Callers /\ n \in Nat
    BY <1>1, <1>2 DEF TableType, Start
  <2>2. QED
    BY <2>1 DEF Launched, Game, Causes
<1>5. /\ games' \in Seq(Game) /\ Len(games') = h /\ games'[h] = Launched
      /\ \A g \in Games : games'[g] = games[g]
  <2>1. games \in Seq(Game)
    BY <1>1 DEF TableType
  <2> DEFINE new == Launched
  <2>2. new \in Game /\ games' = Append(games, new)
    BY <1>4
  <2> HIDE DEF new
  <2>3. /\ games' \in Seq(Game) /\ Len(games') = h /\ games'[h] = new
        /\ \A g \in 1..Len(games) : games'[g] = games[g]
    BY <1>1, <2>1, <2>2
  <2>4. QED
    BY <2>3 DEF Games, new
<1>6. /\ h \in Readers /\ h # Launch /\ h \notin Games /\ Games' = Games \cup {h}
      /\ Launch \in Readers /\ Launch \notin Games
  BY <1>1, <1>2, <1>5 DEF Readers, Launch, Games
<1>7. /\ pending' \in [Readers -> Seq(Event)] /\ pending'[Launch] = <<>> /\ pending'[h] = p[Launch]
      /\ \A r \in Readers : r # Launch /\ r # h => pending'[r] = p[r]
  BY <1>3, <1>5, <1>6, NothingToRead
<1>8. StopsFirst(p[Launch], n)
  <2>1. pending[Launch] \in Seq(Event) /\ p[Launch] = pending[Launch] \o es
    <3>1. Connected(Launch)
      BY <1>1 DEF Connected, Launching, Launch, Table
    <3>2. pending[Launch] \in Seq(Event)
      BY <1>1, <1>6 DEF TableType
    <3>3. p = Published(es)
      BY DEF es
    <3>4. p[Launch] = pending[Launch] \o es
      BY <1>6, <3>1, <3>3 DEF Published
    <3>5. QED
      BY <3>2, <3>4
  <2>2. StopsFirst(pending[Launch], n)
    BY <1>1, <1>2, LaunchHearsOlder
  <2>3. n \in Nat /\ n = Len(kinds') /\ Len(kinds) <= n /\ \A m \in Matches : m \in Back' => m \in Back
    BY <1>1, <1>2 DEF Back
  <2>4. \A m : live' # {} /\ StopsFirst(pending[Launch], m) => StopsFirst(pending[Launch] \o es, m)
    BY <1>1, <1>2, <2>1, <2>3, Grows
  <2>5. QED
    BY <1>2, <2>1, <2>2, <2>4
<1>9. start'.pc = "free" /\ start' \in Start
  BY GoesFree
<1>10. TableType'
  <2>1. Len(games') <= Len(kinds')
    BY <1>1, <1>2, <1>5
  <2>2. \A g \in Games' : games'[g].match \in 1..n
    <3>1. n \in 1..n /\ \A g \in Games : games[g].match \in 1..n
      BY <1>1, <1>2 DEF TableType, Matches
    <3>2. QED
      BY <1>4, <1>5, <1>6, <3>1
  <2>3. running' \in Games' \cup {0, NewGame} /\ running' # NewGame
    BY <1>1, <1>5, <1>6 DEF NewGame
  <2>4. won' \subseteq 1..n
    BY <1>1, <1>2 DEF TableType, Matches
  <2>5. \A g, f \in Games' : games'[g].match = games'[f].match => g = f
    <3>1. \A g \in Games : games[g].match \in Matches /\ games[g].match # n
      BY <1>1, <1>2 DEF TableType, Matches
    <3>2. \A g, f \in Games : games[g].match = games[f].match => g = f
      BY <1>1 DEF TableType
    <3>3. games'[h].match = n /\ \A g \in Games : games'[g].match = games[g].match /\ games'[g].match # n
      BY <1>4, <1>5, <3>1
    <3>4. ASSUME NEW g \in Games', NEW f \in Games', games'[g].match = games'[f].match PROVE g = f
      <4>1. CASE g \in Games /\ f \in Games
        BY <3>2, <3>3, <3>4, <4>1
      <4>2. CASE ~(g \in Games /\ f \in Games)
        <5>1. (g \in Games \/ g = h) /\ (f \in Games \/ f = h)
          BY <1>6
        <5> HIDE DEF h, n
        <5>2. QED
          BY <3>3, <3>4, <4>2, <5>1
      <4>3. QED
        BY <4>1, <4>2
    <3>5. QED
      BY <3>4
  <2>6. QED
    BY <1>2, <1>5, <1>7, <1>9, <2>1, <2>2, <2>3, <2>4, <2>5 DEF TableType, Matches, Launching
<1>11. \A g \in Games : ~Playing(g)
  BY <1>1, NobodyPlaying DEF TableType
<1>12. RunsIsPlayed'
  BY <1>5, <1>6, <1>11 DEF RunsIsPlayed, Playing
<1>13. EndsAreTrue'
  <2>1. \A r \in Readers : EndsTrue(pending'[r], n, Back')
    BY <1>3, <1>6, <1>7, NothingToRead
  <2>2. QED
    BY <2>1 DEF EndsAreTrue
<1>14. LaunchReads'
  BY <1>9 DEF LaunchReads, Launching
<1>15. GamesRead'
  <2>1. \A g \in Games : g \in Readers
    BY GameOf
  <2>2. \A g \in Games : games'[g].match \in Back' /\ Listens(games'[g]) =>
          Warned(pending'[g], games'[g].match, live')
    BY <1>3, <1>5, <1>6, <1>7, <2>1
  <2>3. Warned(pending'[h], games'[h].match, live')
    BY <1>2, <1>4, <1>5, <1>7, <1>8 DEF Warned
  <2>4. QED
    BY <1>6, <2>2, <2>3 DEF GamesRead
<1>16. GamesKnow'
  <2>1. \A g \in Games : games[g].match \in Matches
    BY GameOf
  <2>2. QED
    BY <1>2, <1>4, <1>5, <1>6, <2>1 DEF GamesKnow, TableInv, Back
<1>17. NoMatchLeftBehind'
  <2>1. \A g \in Games :
          games[g].match \in Matches /\ (games[g].match \in live => games[g].match \in left \cup reopened)
    BY <1>11, GameOf DEF TableInv, NoMatchLeftBehind
  <2>2. QED
    BY <1>2, <1>4, <1>5, <1>6, <2>1 DEF NoMatchLeftBehind, Playing
<1>18. QED
  BY <1>10, <1>12, <1>13, <1>14, <1>15, <1>16, <1>17 DEF TableInv

LEMMA CreateKeeps ==
  ASSUME TableInv, Create
  PROVE  TableInv'
<1> DEFINE kind == KindOf(start.for)
<1>1. reopened' = reopened /\ start.pc = "create" /\ Launching
  BY DEF Create, Launching
<1>2. kind \in {"demo", "real"}
  BY DEF KindOf
<1> HIDE DEF kind
<1>3. CASE GivesUp /\ Hangs /\ UNCHANGED <<matchVars, games, left>>
  BY <1>1, <1>3, GivesUpKeeps DEF matchVars
<1>4. CASE /\ ~Refused(kind) /\ Adds(kind) /\ GivesUp /\ UNCHANGED games
           /\ pending' = [Published(AddsEvents(kind)) EXCEPT ![Launch] = <<>>]
           /\ left \subseteq left'
  BY <1>1, <1>2, <1>4, LostAnswerKeeps
<1>5. CASE /\ ~Refused(kind) /\ Adds(kind) /\ UNCHANGED left
           /\ games' = Append(games, Launched) /\ running' = Len(games') /\ start' = NoStart
           /\ pending' = [[Published(AddsEvents(kind)) EXCEPT ![Launch] = <<>>]
                            EXCEPT ![Len(games')] = Published(AddsEvents(kind))[Launch]]
  BY <1>1, <1>2, <1>5, LaunchedKeeps
<1>6. \/ GivesUp /\ Hangs /\ UNCHANGED <<matchVars, games, left>>
      \/ /\ ~Refused(kind) /\ Adds(kind) /\ GivesUp /\ UNCHANGED games
         /\ pending' = [Published(AddsEvents(kind)) EXCEPT ![Launch] = <<>>]
         /\ left \subseteq left'
      \/ /\ ~Refused(kind) /\ Adds(kind) /\ UNCHANGED left
         /\ games' = Append(games, Launched) /\ running' = Len(games') /\ start' = NoStart
         /\ pending' = [[Published(AddsEvents(kind)) EXCEPT ![Launch] = <<>>]
                          EXCEPT ![Len(games')] = Published(AddsEvents(kind))[Launch]]
  BY DEF Create, Started, kind
<1>7. QED
  BY <1>3, <1>4, <1>5, <1>6

-----------------------------------------------------------------------------
(* Together.                                                               *)

LEMMA TableInvInit ==
  ASSUME Init
  PROVE  TableInv
<1>1. kinds = <<>> /\ live = {} /\ won = {} /\ games = <<>> /\ running = 0 /\ start = NoStart
  BY DEF Init
<1>2. pending = [r \in Readers |-> <<>>]
  BY DEF Init
<1>3. kinds \in Seq({"demo", "real"}) /\ Len(kinds) = 0 /\ games \in Seq(Game) /\ Len(games) = 0
  BY <1>1
<1>4. Games = {} /\ start \in Start /\ start.pc = "free" /\ MaxMatches \in Nat
  BY <1>1, <1>3, PongTableAssumption DEF Games, Start, NoStart, Callers
<1>5. pending \in [Readers -> Seq(Event)]
  BY <1>2, NothingToRead
<1>6. TableType
  BY <1>1, <1>3, <1>4, <1>5 DEF TableType, Launching, NewGame
<1>7. EndsAreTrue
  BY <1>2, NothingToRead DEF EndsAreTrue
<1>8. QED
  BY <1>1, <1>4, <1>6, <1>7
     DEF TableInv, RunsIsPlayed, LaunchReads, Launching, GamesRead, GamesKnow, NoMatchLeftBehind

LEMMA TableInvStep ==
  ASSUME TableInv, [Next]_vars
  PROVE  TableInv'
<1>1. CASE UNCHANGED vars
  <2>1. UNCHANGED <<kinds, live, won, pending, left, reopened, games, running, start>>
    BY <1>1 DEF vars, tableVars, matchVars, boundVars
  <2>2. GamesNext /\ RunsNext
    BY <2>1, SameGames, SameRuns
  <2>3. QED
    BY <2>1, <2>2, NoNews
<1>2. CASE Loops \/ Begun \/ Marks \/ WatchReads
  BY <1>2, LoopsKeep, BegunKeeps, MarksKeep, WatchReadsKeeps
<1>3. CASE Starting
  BY <1>3, YieldKeeps, YieldedKeeps, FollowKeeps, LookKeeps, SkipKeeps, CreateKeeps DEF Starting
<1>4. ASSUME NEW g \in Games, Plays(g) \/ Win(g) \/ Refuse(g) \/ StreamBreaks(g)
      PROVE  TableInv'
  BY <1>4, AnswerRefuseKeep, CorrectKeeps, WatchKeeps, OverKeeps, LetGoKeeps, WinKeeps, StreamBreaksKeeps DEF Plays
<1>5. CASE \E kind \in {"demo", "real"} : OthersMatch(kind)
  BY <1>5, OthersMatchKeeps
<1>6. CASE \E m \in Matches : OthersUndo(m) \/ \E how \in {"ended", "won"} : OthersEnd(m, how)
  BY <1>6, OthersEndKeeps, OthersUndoKeeps
<1>7. CASE Quiet
  BY <1>7, QuietKeeps
<1>8. QED
  BY <1>1, <1>2, <1>3, <1>4, <1>5, <1>6, <1>7
     DEF Next, Loops, Begun, Marks, WatchReads, Attracts, Leagues, Serial

(* In every state the service and zaehlwerk can be in, a stream says an    *)
(* end by hand only of a match no undo brings back, a launch that has seen *)
(* the table free still hears of any match there since, a game that still  *)
(* looks hears that its match was won, or is not the one shown, before it  *)
(* hears that there is none, and one that takes its match for ended is     *)
(* right, also when matches that were won run again (server.go, launch;    *)
(* game.go, watch; client.go, Undo).                                       *)
THEOREM PongTableInvariant == Spec => []TableInv
<1>1. Init => TableInv
  BY TableInvInit
<1>2. TableInv /\ [Next]_vars => TableInv'
  BY TableInvStep
<1>3. QED
  BY <1>1, <1>2, PTL DEF Spec

(* Two games never play at once, whoever starts them and however the wait  *)
(* for a demo to yield ends (server.go, start; attract.go, yield).         *)
THEOREM PongTableOneGameAtATime == Spec => []OneGameAtATime
<1>1. TableInv => OneGameAtATime
  BY DEF TableInv, RunsIsPlayed, OneGameAtATime
<1>2. QED
  BY <1>1, PongTableInvariant, PTL

(* A game's match runs at zaehlwerk only while the game plays, through its *)
(* own corrections of the winning point, unless the call that was to end   *)
(* it had no answer or somebody else's undo let it run again when the game *)
(* was over (game.go, run, press).                                         *)
THEOREM PongTableNoMatchLeftBehind == Spec => []NoMatchLeftBehind
<1>1. TableInv => NoMatchLeftBehind
  BY DEF TableInv
<1>2. QED
  BY <1>1, PongTableInvariant, PTL
=============================================================================
