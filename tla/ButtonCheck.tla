----------------------------- MODULE ButtonCheck -----------------------------
(***************************************************************************)
(* internal/pong/check.go: the button check, a game that presses nothing.  *)
(* It says what to press, and whatever arrives on the table's stream came  *)
(* from the buttons: in time or too late, at the asked half or the other,  *)
(* twice, or without anybody having asked.  zaehlwerk and the game's last  *)
(* state of the match are PongGame's m, undo and st.                       *)
(***************************************************************************)
EXTENDS PongGame, FiniteSets

CONSTANTS
  FewWon, EnoughLost,  \* 3 and 8 in the code: points the winner's half waits for, the other may take
  MaxMissed,           \* maxMissed: prompts in a row nobody answers
  MaxPrompts,          \* maxCheckPrompts
  MaxStrays            \* bound: presses nobody asked for, points taken back, prompts left unanswered (a row is one)

ASSUME CheckAssumption ==
  /\ FewWon \in 1..PointsPerSet - 1 /\ EnoughLost \in 1..PointsPerSet - 1
  /\ MaxMissed \in Nat \ {0} /\ MaxPrompts \in Nat /\ MaxStrays \in Nat

VARIABLES
  check,     \* the prompt, what the plan has seen, and where runCheck is
  outcomes,  \* the outcomes other than ok it has counted
  table,     \* what the game has not read yet from the table's stream
  (* History, not in the code. *)
  strays,    \* what was done but press what was asked, once and in time
  heeded,    \* the last prompt somebody pressed for
  undone,    \* somebody has taken a point back
  shown      \* the points answered right, by half and player

checkVars == <<check, outcomes, table, strays, heeded, undone, shown>>

Nowhere  == "none"
NoPrompt == [kind |-> "none", phase |-> "none", half |-> Nowhere]
CheckOver == {"checked", "nobody", "stuck", "ended", "displaced", "blind"}

PressKind(phase) == IF phase \in {"warmup", "change_ends"} THEN "ready" ELSE "rally"

CheckInit ==
  /\ \E winner \in Half :
       check = [pc |-> "top", prompt |-> NoPrompt, prompts |-> 0, missed |-> 0, answered |-> Nowhere,
                winner |-> winner, changed |-> FALSE, after |-> {}]
  /\ outcomes = {} /\ table = <<[kind |-> "snapshot", state |-> NewMatch]>>
  /\ strays = 0 /\ heeded = 0 /\ undone = FALSE /\ shown = {}

-----------------------------------------------------------------------------
(* At the table, and at zaehlwerk.                                         *)

Transition(x, y) ==
  CASE Phase(x) = "warmup"      -> IF y.warmup THEN "confirmed" ELSE "warmup_over"
    [] Phase(x) = "change_ends" -> IF y.endsPending THEN "confirmed" ELSE "ends_changed"
    [] Phase(x) = "serve_rally" -> "serve_decided"
    [] OTHER -> IF y.complete THEN "match_won" ELSE IF y.setIndex # x.setIndex THEN "set_won" ELSE "point"

Sends(kind, state) == table' = Append(table, [kind |-> kind, state |-> state])

Strays == strays < MaxStrays /\ strays' = strays + 1

(* A button is pressed.  A ready that is not waited for changes nothing.   *)
ButtonPress(h) ==
  /\ check.pc \notin CheckOver /\ ~m.complete
  /\ IF check.pc = "prompt" /\ heeded # check.prompts /\ h = check.prompt.half
     THEN UNCHANGED strays ELSE Strays
  /\ LET z == Pressed([m |-> m, undo |-> undo, high |-> high], h) IN
     /\ m' = z.m /\ undo' = z.undo
     /\ IF z.m = m THEN UNCHANGED table ELSE Sends(Transition(m, z.m), z.m)
  /\ heeded' = check.prompts
  /\ UNCHANGED <<check, outcomes, undone, shown>>

(* Somebody takes back a point on the page.                                *)
PageUndo ==
  /\ Strays /\ check.pc \notin CheckOver /\ undo # <<>>
  /\ m' = undo[Len(undo)] /\ undo' = SubSeq(undo, 1, Len(undo) - 1) /\ Sends("undo", m')
  /\ undone' = TRUE
  /\ UNCHANGED <<check, outcomes, heeded, shown>>

(* The match is ended by hand, another match takes the table, or the       *)
(* stream breaks.                                                          *)
TableGoes ==
  /\ check.pc \notin CheckOver /\ ~\E i \in 1..Len(table) : table[i].kind \in {"ended", "displaced", "blind"}
  /\ \E kind \in {"ended", "displaced", "blind"} : Sends(kind, m)
  /\ UNCHANGED <<m, undo, check, outcomes, strays, heeded, undone, shown>>

-----------------------------------------------------------------------------
(* checkPlan.next: the prompts it may draw; none once it is through.       *)

Asks(h) == [kind |-> PressKind(Phase(st)), phase |-> Phase(st), half |-> h]

Rallies_WithoutTheOther(c) == IF c.changed THEN Half \ c.after ELSE Half
Rallies(c) ==
  LET points(h) == st.points[PlayerAt(st, h)]
      loser     == OtherHalf(c.winner)
  IN  IF c.changed THEN Half \ c.after
      ELSE IF points(loser) >= EnoughLost THEN {c.winner}
      ELSE IF points(loser) = 0 /\ points(c.winner) >= FewWon THEN {loser}
      ELSE Half

Prompts ==
  {Asks(h) : h \in CASE Phase(st) \in {"warmup", "change_ends"} -> Waiting(st)
                     [] Phase(st) = "serve_rally"              -> Half
                     [] Phase(st) = "playing"                  -> Rallies(check)
                     [] Phase(st) = "complete"                 -> {}}

Ask ==
  /\ check.pc = "top"
  /\ IF check.prompts >= MaxPrompts THEN check' = [check EXCEPT !.pc = "stuck"]
     ELSE IF Prompts = {} THEN check' = [check EXCEPT !.pc = "checked"]
     ELSE \E p \in Prompts :
            check' = [check EXCEPT !.pc = "prompt", !.prompt = p, !.prompts = @ + 1]
  /\ UNCHANGED <<m, undo, st, outcomes, table, strays, heeded, undone, shown>>

-----------------------------------------------------------------------------
(* runCheck: an event of the game's own match, or a timer.                 *)

(* Whose point it was, by the ends they stood at before it.                *)
Ahead(x, y) ==
  {p \in Player : y.sets[p] > x.sets[p] \/ (y.setIndex = x.setIndex /\ y.points[p] > x.points[p])}
WinnersHalf_AsTheyStand(x, y) == {HalfOf(y, p) : p \in Ahead(x, y)}
WinnersHalf(x, y) == {HalfOf(x, p) : p \in Ahead(x, y)}

(* Nowhere for what no single press makes.                                 *)
PressedHalf(kind, x, y) ==
  LET halves ==
        CASE kind = "confirmed"                       -> Waiting(x) \ Waiting(y)
          [] kind \in {"warmup_over", "ends_changed"} -> IF Cardinality(Waiting(x)) = 1 THEN Waiting(x) ELSE {}
          [] kind = "serve_decided"                   -> {HalfOf(x, p) : p \in {Serving(y)} \ {None}}
          [] kind \in {"point", "set_won", "match_won"} -> WinnersHalf(x, y)
          [] OTHER                                    -> {}
  IN  IF halves = {} THEN Nowhere ELSE CHOOSE h \in halves : TRUE

Reads ==
  /\ check.pc \in {"prompt", "gap"} /\ table # <<>> /\ table' = Tail(table)
  /\ UNCHANGED <<m, undo, strays, heeded, undone>>

Found(o) == outcomes' = outcomes \cup {o}

Leaves ==
  /\ Reads /\ Head(table).kind \in {"ended", "displaced", "blind"}
  /\ check' = [check EXCEPT !.pc = Head(table).kind, !.prompt = NoPrompt]
  /\ UNCHANGED <<st, outcomes, shown>>

Sees ==
  /\ Reads /\ Head(table).kind = "snapshot" /\ st' = Head(table).state
  /\ UNCHANGED <<check, outcomes, shown>>

Own == table # <<>> /\ Head(table).kind \notin {"ended", "displaced", "blind", "snapshot"}

(* A press that is no answer to the prompt leaves it standing.             *)
Answers(h) ==
  /\ h # Nowhere /\ PressKind(Phase(st)) = check.prompt.kind /\ Phase(st) = check.prompt.phase

Answered(h, kind) ==
  LET right == h = check.prompt.half
      after == IF right /\ Phase(st) = "playing" /\ check.changed THEN check.after \cup {h} ELSE check.after
  IN  /\ IF right THEN UNCHANGED outcomes ELSE Found("wrong_half")
      /\ shown' = IF right /\ Phase(st) = "playing" THEN shown \cup {<<h, PlayerAt(st, h)>>} ELSE shown
      /\ check' = [check EXCEPT !.pc = "gap", !.prompt = NoPrompt, !.missed = 0, !.answered = h,
                                !.after = after, !.changed = @ \/ kind = "ends_changed"]

Answer ==
  /\ check.pc = "prompt" /\ Own /\ Reads /\ st' = Head(table).state
  /\ LET e == Head(table)
         h == PressedHalf(e.kind, st, e.state)
     IN  IF Answers(h) THEN Answered(h, e.kind)
         ELSE Found("unexpected") /\ UNCHANGED <<check, shown>>

Missing ==
  /\ check.pc = "prompt" /\ Found("missing")
  /\ IF check.missed > 0 THEN UNCHANGED strays ELSE Strays
  /\ check' = [check EXCEPT !.pc = IF check.missed + 1 >= MaxMissed THEN "nobody" ELSE "gap",
                            !.prompt = NoPrompt, !.missed = @ + 1, !.answered = Nowhere]
  /\ UNCHANGED <<m, undo, st, table, heeded, undone, shown>>

(* Between two prompts: the button just pressed again is a bounce.         *)
Between ==
  /\ check.pc = "gap" /\ Own /\ Reads /\ st' = Head(table).state
  /\ LET e == Head(table)
         h == PressedHalf(e.kind, st, e.state)
     IN  /\ Found(IF h # Nowhere /\ h = check.answered THEN "double" ELSE "unexpected")
         /\ check' = [check EXCEPT !.changed = @ \/ e.kind = "ends_changed"]
  /\ UNCHANGED shown

GapOver ==
  /\ check.pc = "gap" /\ check' = [check EXCEPT !.pc = "top", !.answered = Nowhere]
  /\ UNCHANGED <<m, undo, st, outcomes, table, strays, heeded, undone, shown>>

AtTheTable == PageUndo \/ TableGoes \/ \E h \in Half : ButtonPress(h)
CheckNext ==
  \/ AtTheTable /\ UNCHANGED st
  \/ Ask \/ Leaves \/ Sees \/ Answer \/ Missing \/ Between \/ GapOver

-----------------------------------------------------------------------------
(* Properties.                                                             *)

(* Hardware and people that do as the prompts say, each press once and in  *)
(* time, get no finding, in any phase and over a change of ends: the half  *)
(* read off two states is the half that was pressed (pressedHalf, runCheck).*)
NoFalseAlarm == strays = 0 => outcomes = {}

(* A check that got through, and was not through because the match was     *)
(* won, has seen a change of ends and a point answered right at either     *)
(* half, unless a point was taken back; and when everybody did as asked it *)
(* has seen either half count for either player (checkPlan: "What it makes *)
(* sure of").                                                              *)
CheckSeesItAll ==
  check.pc = "checked" /\ ~st.complete =>
    /\ ~undone => st.setIndex > 0 /\ {x[1] : x \in shown} = Half
    /\ strays = 0 => shown = Half \X Player
=============================================================================
