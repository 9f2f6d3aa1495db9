------------------------------ MODULE PongGame ------------------------------
(***************************************************************************)
(* internal/pong's Game.play: one game of the demo player against the      *)
(* match it created.  The game decides every rally, sends the press for it *)
(* through a set of injected faults, and compares what zaehlwerk awards    *)
(* with the truth and with what the faults explain.  An action is one call *)
(* of report with everything report does: the press, a counter reset       *)
(* before it, the late press it overtook, and its resend.                  *)
(***************************************************************************)
EXTENDS Rules

CONSTANTS
  FaultSets,          \* the sets of faults a game may be started with
  RestartMaxEventID,  \* the scorer's
  MaxReports,         \* maxReports: the game gives up
  MaxFaults,          \* bound: faults injected in one game
  MaxLostAnswers      \* bound: reports whose answer does not come

FaultKinds == {"wrong_half", "correct", "resend", "bounce", "lost", "ghost", "wrong_phase",
               "counter_reset", "latency"}

ASSUME PongGameAssumption ==
  /\ FaultSets \subseteq SUBSET FaultKinds
  /\ RestartMaxEventID \in Nat \ {0}
  /\ MaxReports \in Nat /\ MaxFaults \in Nat /\ MaxLostAnswers \in Nat

VARIABLES
  m, undo, high,   \* zaehlwerk: the match, its undo stack, the game's watermark
  st,              \* the match as zaehlwerk last answered
  at,              \* where play is
  doing,           \* the press under way: whose rally, which half, what it was sent in
  standing, acted, \* where the players stand, the phase of the last report
  rally, counter,  \* presses made, and the event id of the last
  late,            \* the press held back, NotLate while none is
  truth,           \* rallies won, what the faults explain, the serve rally
  parted,          \* the unexplained difference at the last comparison
  found,           \* what disagreed with no fault to explain it
  faults,          \* the faults this game injects
  (* History, not in the code. *)
  injected, lost   \* faults injected, answers lost

matchVars == <<m, undo, high>>
pressVars == <<rally, counter, late>>
placeVars == <<standing, acted>>
vars == <<matchVars, st, at, doing, placeVars, pressVars, truth, parted, found, faults, injected, lost>>

NotLate == [id |-> 0, half |-> "left"]
Idle    == [player |-> "a", half |-> "left", before |-> NewMatch, next |-> "top"]
Over    == {"won", "refused", "failed"}

Place  == [Half -> Player]
Ends(x) == [h \in Half |-> PlayerAt(x, h)]
At(p)  == CHOOSE h \in Half : standing[h] = p
Waiting(x) == IF Phase(x) \in {"warmup", "change_ends"} THEN Half \ x.pressed ELSE {}

TypeOK ==
  /\ m \in Match /\ undo \in Seq(Match) /\ high \in 0..rally /\ st \in Match
  /\ at \in {"top", "ready", "serve", "open", "ghost", "rally", "point", "bounce", "bounced",
             "wrong", "right"} \cup Over
  /\ doing.player \in Player /\ doing.half \in Half /\ doing.next \in {"top", "serve", "point"}
  /\ standing \in Place /\ acted \in {"warmup", "serve_rally", "change_ends", "playing"}
  /\ rally \in 0..MaxReports + 3 /\ counter \in 0..rally
  /\ late \in [id : 0..rally, half : Half]
  /\ truth.won \in Score /\ truth.explained \in [Player -> Int]
  /\ parted \in [Player -> Int] /\ found \subseteq {"points", "serve", "ends", "undo"} \cup FaultKinds
  /\ injected \in 0..MaxFaults /\ lost \in 0..MaxLostAnswers

Init ==
  /\ m = NewMatch /\ undo = <<>> /\ high = 0 /\ st = NewMatch
  /\ at = "top" /\ doing = Idle /\ standing = Ends(NewMatch) /\ acted = Phase(NewMatch)
  /\ rally = 0 /\ counter = 0 /\ late = NotLate
  /\ truth = [won |-> Love, explained |-> Love, serve |-> None, explainedServe |-> None]
  /\ parted = Love /\ found = {} /\ faults \in FaultSets /\ injected = 0 /\ lost = 0

-----------------------------------------------------------------------------
(* zaehlwerk's side: what one event makes of the match.                    *)

Pushed(z) == Stacked(z.undo, z.m)

Pressed(z, h) ==
  LET p == PlayerAt(z.m, h) IN
  CASE Phase(z.m) \in {"warmup", "change_ends"} ->
         IF h \in z.m.pressed THEN z ELSE [z EXCEPT !.m = Confirmed(z.m, h)]
    [] Phase(z.m) = "serve_rally" -> [z EXCEPT !.undo = Pushed(z), !.m = ServeDecided(z.m, p)]
    [] Phase(z.m) = "playing"     -> [z EXCEPT !.undo = Pushed(z), !.m = Scored(z.m, p, 1)]

Ingested_Twice(z, id, h, quiet) == IF z.m.complete THEN z ELSE Pressed([z EXCEPT !.high = id], h)
Ingested(z, id, h, quiet) ==
  IF z.m.complete \/ ~(id > z.high \/ (quiet /\ id <= RestartMaxEventID))
  THEN z
  ELSE Pressed([z EXCEPT !.high = id], h)

-----------------------------------------------------------------------------
(* report.                                                                 *)

Rolls(kind) == IF kind \in faults /\ injected < MaxFaults THEN BOOLEAN ELSE {FALSE}
Counts(n) == injected' = IF injected + n > MaxFaults THEN MaxFaults ELSE injected + n
One(b) == IF b THEN 1 ELSE 0

(* The press is refused: its answer was lost, and it had won the match.    *)
Refused(z) ==
  /\ m' = z.m /\ undo' = z.undo /\ high' = z.high
  /\ at' = "refused" /\ lost' = lost + 1
  /\ UNCHANGED <<st, found, late, injected>>

(* Nothing answers ingestAttempts times, whether or not it arrived.        *)
Unanswered(z) ==
  /\ \E arrived \in {[m |-> m, undo |-> undo, high |-> high], z} :
       m' = arrived.m /\ undo' = arrived.undo /\ high' = arrived.high
  /\ at' = "failed" /\ lost' = lost + 1
  /\ UNCHANGED <<st, found, late, injected>>

(* One press for half h, with the faults any press can meet.  `changes'    *)
(* says it must change the match, `fault' that it is a fault itself.  Over *)
(* the press that wins the match nothing is sent again.                    *)
Report(h, changes, fault, then) ==
  \E reset \in (IF changes /\ counter > 0 THEN Rolls("counter_reset") ELSE {FALSE}) :
    LET now    == [m |-> m, undo |-> undo, high |-> high]
        id     == IF reset THEN 1 ELSE counter + 1
        first  == Ingested(now, id, h, reset)
        behind == late # NotLate /\ ~first.m.complete
        second == IF behind THEN Ingested(first, late.id, late.half, FALSE) ELSE first
    IN  /\ rally' = rally + 1 /\ counter' = id
        /\ \/ \E again \in (IF second.m.complete THEN {FALSE} ELSE Rolls("resend")) :
                LET third == IF again THEN Ingested(second, id, h, FALSE) ELSE second IN
                /\ m' = third.m /\ undo' = third.undo /\ high' = third.high /\ st' = third.m
                /\ late' = NotLate
                /\ found' = found \cup {f \in FaultKinds :
                     \/ f = "counter_reset" /\ reset /\ first.m = st
                     \/ f = "latency" /\ behind /\ second.m # first.m
                     \/ f = "resend" /\ third.m # second.m
                     \/ f = "wrong_phase" /\ fault = f /\ third.m # st}
                /\ Counts(One(reset) + One(again) + One(fault # None))
                /\ at' = then /\ UNCHANGED lost
           \/ lost < MaxLostAnswers /\ first.m.complete /\ Refused(first)
           \/ lost < MaxLostAnswers /\ Unanswered(first)

-----------------------------------------------------------------------------
(* play: the loop.                                                         *)

Top == at = "top" /\ ~st.complete /\ rally < MaxReports

(* A change of ends is walked once, on the answer that called it.          *)
Walk ==
  /\ acted' = Phase(st)
  /\ standing' = IF Phase(st) = "change_ends" /\ acted # "change_ends" THEN Ends(st) ELSE standing

Done ==
  /\ at = "top"
  /\ \/ st.complete /\ at' = "won"
     \/ ~st.complete /\ rally >= MaxReports /\ at' = "failed"
  /\ UNCHANGED <<matchVars, st, doing, placeVars, pressVars, truth, parted, found, faults, injected, lost>>

(* A player is ready; a browser can press for a half that already has.     *)
Ready(h) ==
  /\ Top /\ Phase(st) \in {"warmup", "change_ends"} /\ Walk
  /\ doing' = [Idle EXCEPT !.half = h]
  /\ Report(h, h \in Waiting(st), None, "ready")
  /\ UNCHANGED <<truth, parted, faults>>

(* wrong_phase: the same half again while the other is awaited.            *)
Readied ==
  /\ at = "ready"
  /\ \E again \in (IF Waiting(st) # {} THEN Rolls("wrong_phase") ELSE {FALSE}) :
       IF again THEN Report(doing.half, FALSE, "wrong_phase", "top")
       ELSE at' = "top" /\ UNCHANGED <<matchVars, st, pressVars, found, injected, lost>>
  /\ UNCHANGED <<doing, placeVars, truth, parted, faults>>

(* press: the winner's half, or as a wrong_half the other one first.       *)
Press(p, h, next) ==
  \E wrong \in Rolls("wrong_half") :
    /\ doing' = [player |-> p, half |-> h, before |-> st, next |-> next]
    /\ IF wrong THEN Report(OtherHalf(h), TRUE, None, "wrong")
       ELSE Report(h, TRUE, None, next)

ServeRally(p) ==
  /\ Top /\ Phase(st) = "serve_rally" /\ Walk
  /\ truth' = [truth EXCEPT !.serve = p, !.explainedServe = p]
  /\ Press(p, At(p), "serve")
  /\ UNCHANGED <<parted, faults>>

Served ==
  /\ at = "serve" /\ at' = "top"
  /\ found' = IF Serving(st) # truth.explainedServe THEN found \cup {"serve"} ELSE found
  /\ UNCHANGED <<matchVars, st, doing, placeVars, pressVars, truth, parted, faults, injected, lost>>

(* The mis-press stays, and is explained ...                               *)
Uncorrected ==
  /\ at = "wrong" /\ "correct" \notin faults
  /\ LET w == doing.player IN
     truth' = IF Phase(doing.before) = "serve_rally"
              THEN [truth EXCEPT !.explainedServe = Opponent(w)]
              ELSE [truth EXCEPT !.explained[w] = @ - 1, !.explained[Opponent(w)] = @ + 1]
  /\ Counts(1) /\ at' = doing.next
  /\ UNCHANGED <<matchVars, st, doing, placeVars, pressVars, parted, found, faults, lost>>

(* ... or it is taken back, wherever it left the match, and sent again.    *)
TakeBack ==
  /\ at = "wrong" /\ "correct" \in faults
  /\ IF undo = <<>>
     THEN found' = found \cup {"undo"} /\ UNCHANGED <<m, undo, st>>
     ELSE /\ m' = undo[Len(undo)] /\ undo' = SubSeq(undo, 1, Len(undo) - 1) /\ st' = m'
          /\ found' = IF st' # doing.before THEN found \cup {"undo"} ELSE found
  /\ Counts(1) /\ at' = "right"
  /\ UNCHANGED <<high, doing, placeVars, pressVars, truth, parted, faults, lost>>

SendRight ==
  /\ at = "right" /\ Report(doing.half, TRUE, None, doing.next)
  /\ UNCHANGED <<doing, placeVars, truth, parted, faults>>

-----------------------------------------------------------------------------
(* A rally for a point.                                                    *)

Awarded(x, p) ==
  LET sets[i \in 0..Len(x.completed)] == IF i = 0 THEN 0 ELSE sets[i - 1] + x.completed[i][p]
  IN  sets[Len(x.completed)] + (IF x.complete THEN 0 ELSE x.points[p])

(* points: the difference no fault explains, found where it changes.       *)
Compare(t) ==
  LET unexplained == [p \in Player |-> Awarded(st, p) - t.won[p] - t.explained[p]] IN
  /\ truth' = t /\ parted' = unexplained
  /\ found' = IF unexplained # parted THEN found \cup {"points"} ELSE found

Point ==
  /\ Top /\ Phase(st) = "playing" /\ Walk /\ at' = "open"
  /\ found' = IF Ends(st) # standing THEN found \cup {"ends"} ELSE found
  /\ UNCHANGED <<matchVars, st, doing, pressVars, truth, parted, faults, injected, lost>>

(* A press no rally produced, before it.                                   *)
Ghost(h) ==
  /\ at = "open" /\ TRUE \in Rolls("ghost")
  /\ doing' = [Idle EXCEPT !.half = h]
  /\ Report(h, TRUE, "ghost", "ghost")
  /\ UNCHANGED <<placeVars, truth, parted, faults>>

Won(p) == [truth EXCEPT !.won[p] = @ + 1]

(* The press is made and never arrives, or is held back until the next.    *)
NotSent(p, held) ==
  /\ rally' = rally + 1 /\ counter' = counter + 1
  /\ late' = IF held THEN [id |-> counter', half |-> At(p)] ELSE late
  /\ Compare([Won(p) EXCEPT !.explained[p] = @ - 1]) /\ Counts(1) /\ at' = "top"
  /\ UNCHANGED <<matchVars, st, doing, lost>>

Rally(p) ==
  /\ at \in {"open", "rally"}
  /\ \/ TRUE \in Rolls("lost") /\ NotSent(p, FALSE)
     \/ late = NotLate /\ TRUE \in Rolls("latency") /\ NotSent(p, TRUE)
     \/ truth' = Won(p) /\ Press(p, At(p), "point") /\ UNCHANGED parted
  /\ UNCHANGED <<placeVars, faults>>

(* The points after a press: a ghost or a bounce scored for whoever stands *)
(* at its half.  A ghost can end the set, and the rally is then played     *)
(* after the change of ends; a press bounces only while points are played. *)
Compared ==
  /\ at \in {"ghost", "point", "bounced"}
  /\ Compare(IF at = "point" THEN truth ELSE [truth EXCEPT !.explained[standing[doing.half]] = @ + 1])
  /\ at' = IF at = "bounced" \/ Phase(st) # "playing" THEN "top"
           ELSE IF at = "ghost" THEN "rally" ELSE "bounce"
  /\ UNCHANGED <<matchVars, st, doing, placeVars, pressVars, faults, injected, lost>>

Bounce ==
  /\ at = "bounce"
  /\ \/ at' = "top" /\ UNCHANGED <<matchVars, st, pressVars, found, injected, lost>>
     \/ TRUE \in Rolls("bounce") /\ Report(doing.half, TRUE, "bounce", "bounced")
  /\ UNCHANGED <<doing, placeVars, truth, parted, faults>>

Next ==
  \/ Done \/ Readied \/ Served \/ Uncorrected \/ TakeBack \/ SendRight
  \/ Point \/ Compared \/ Bounce
  \/ \E h \in Half : Ready(h) \/ Ghost(h)
  \/ \E p \in Player : ServeRally(p) \/ Rally(p)

Spec == Init /\ [][Next]_vars

-----------------------------------------------------------------------------
(* Properties.                                                             *)

(* The game cries no wolf: whatever faults it injects, in whatever phase   *)
(* and next to which other fault, the scorer's answer is the one the game  *)
(* expects, and every difference in points, serve and ends is explained    *)
(* (report, press, points, truth.go).                                      *)
NoFindings == found = {}

(* client.go of a lost answer: "zaehlwerk discards the repeat and answers  *)
(* with the state the first one left", so the match played to its last     *)
(* point is won.                                                           *)
PlayedOutIsWon == at \in Over /\ m.complete => at = "won"
=============================================================================
