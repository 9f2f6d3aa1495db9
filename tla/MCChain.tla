------------------------------ MODULE MCChain ------------------------------
(* Chain with the settings and the shares of the work TLC runs it with.    *)
EXTENDS Chain

MCButton == [h \in {"A", "B"} |-> IF h = "A" THEN "button-a" ELSE "button-b"]

Set(device, debounce, ackLost, dedup, answerLost, bothEnds) ==
  [device |-> device, debounce |-> debounce, ackLost |-> ackLost, dedup |-> dedup,
   answerLost |-> answerLost, bothEnds |-> bothEnds]

Default  == Set("button", TRUE, FALSE, TRUE, FALSE, FALSE)
BadAir   == Set("button", TRUE, TRUE, TRUE, TRUE, TRUE)
Far      == Set("button", TRUE, TRUE, TRUE, FALSE, TRUE)
Bounces  == Set("button", FALSE, FALSE, TRUE, FALSE, TRUE)
Forgets  == Set("button", TRUE, TRUE, FALSE, FALSE, TRUE)
BadKeys  == Set("keys", FALSE, FALSE, TRUE, TRUE, FALSE)
Display  == Set("display", TRUE, TRUE, FALSE, TRUE, FALSE)
MCSettings == {Default, BadAir, Far, Bounces, Forgets, BadKeys, Display}

R(p, f, c, e) == [presses |-> p, fobs |-> f, changes |-> c, failures |-> e]
B(r, e, o, j) == [rallies |-> r, edits |-> e, outages |-> o, joins |-> j]
W(o, a, c, t, sides, saver) ==
  [open |-> o, asks |-> a, claims |-> c, ticks |-> t, sides |-> sides, saver |-> saver]
P(rig, set, brd, scr, n) ==
  [rig |-> rig, set |-> set, board |-> brd, screens |-> scr, page |-> n]

NoRig   == R(0, 0, 0, 0)
NoBoard == B(0, 0, 0, TRUE)
NoScreens == W({}, 0, 0, 0, FALSE, FALSE)

(* The buttons alone, and with somebody at the page; the board alone, with *)
(* two edits of its knobs, beside two requests from the page, starting its *)
(* own matches; both at one table; and the screens, without and with the   *)
(* side select.                                                            *)
MCPlays ==
  {P(R(3, 1, 0, 0), {Far}, NoBoard, NoScreens, 0),
   P(R(2, 1, 0, 0), {Bounces, Forgets}, NoBoard, NoScreens, 0),
   P(R(1, 1, 0, 1), {BadAir, Display}, NoBoard, NoScreens, 0),
   P(R(2, 0, 0, 0), {BadKeys}, NoBoard, NoScreens, 1),
   P(R(2, 0, 1, 0), {Default}, NoBoard, NoScreens, 0),
   P(R(2, 0, 0, 1), {Far}, NoBoard, NoScreens, 0),
   P(R(1, 0, 0, 1), {BadAir}, NoBoard, NoScreens, 1),
   P(NoRig, {Default}, B(2, 2, 0, TRUE), NoScreens, 0),
   P(NoRig, {Default}, B(3, 0, 1, TRUE), NoScreens, 1),
   P(NoRig, {Default}, B(2, 0, 1, TRUE), NoScreens, 2),
   P(NoRig, {Default}, B(2, 0, 2, FALSE), NoScreens, 1),
   P(R(1, 0, 0, 0), {Default}, B(2, 0, 0, TRUE), NoScreens, 1),
   P(NoRig, {Default}, NoBoard, W({"u"}, 0, 1, 0, FALSE, FALSE), 3),
   P(NoRig, {Default}, NoBoard, W({"w", "u"}, 2, 1, 2, FALSE, TRUE), 1),
   P(NoRig, {Default}, NoBoard, W({"w", "u"}, 3, 1, 2, TRUE, TRUE), 1),
   P(NoRig, {Default}, NoBoard, W({"w", "l"}, 3, 1, 3, TRUE, TRUE), 1),
   P(NoRig, {Default}, NoBoard, W({"w"}, 3, 2, 2, TRUE, TRUE), 1)}
MCRigBudgets   == {p.rig : p \in MCPlays}
MCBoardBudgets == {p.board : p \in MCPlays}
MCScreenBudgets == {p.screens : p \in MCPlays}

MCPageKind == [p \in {"u", "w", "l"} |->
                 IF p = "u" THEN "score" ELSE IF p = "w" THEN "watch" ELSE "live"]
=============================================================================
