------------------------------ MODULE Buttons ------------------------------
(***************************************************************************)
(* tools/chain-mock/buttons: two buttons, the radio and the hub that turns *)
(* their frames into calls on zaehlwerk, and the fob reader at the hub.    *)
(*                                                                         *)
(* A press is numbered on the button and goes on the air as the frames the *)
(* hub will receive, in the order of its request; two requests race for    *)
(* the hub.  The hub's lock is held over the calls a frame leads to: hub   *)
(* is where it is in them.  A long press waits out the window on a timer,  *)
(* whose callback takes the same lock.                                     *)
(***************************************************************************)
EXTENDS Zaehlwerk

CONSTANTS
  Button,      \* Button[h]: the source of the button at half h
  SettingsIn,  \* the settings the page is used with
  RigBudgets   \* bounds: presses, fobs held, settings changed, calls failed

Halves == {"A", "B"}

ASSUME ButtonsAssumption ==
  /\ Button \in [Halves -> Senders] /\ Button["A"] # Button["B"]
  /\ SettingsIn \subseteq [device : {"button", "keys", "display"}, debounce : BOOLEAN,
                           ackLost : BOOLEAN, dedup : BOOLEAN, answerLost : BOOLEAN,
                           bothEnds : BOOLEAN]
  /\ RigBudgets \subseteq [presses : Nat, fobs : Nat, changes : Nat, failures : Nat]

VARIABLES
  settings,   \* Settings
  eventID,    \* per half: the button's counter
  air,        \* the requests under way: their frames the hub has not received
  hub,        \* what the hub does under its lock
  hubSeen,    \* per half: the hub's watermark
  waits,      \* the long presses that waited or wait for the window
  pending,    \* the one a long press may pair with, or 0
  lastMatch,  \* the match last scored into, or 0
  fob,        \* the fob that waits for a press, or 0
  hubEvent,   \* the hub's own counter
  desk,       \* external: the check-ins zaehlwerk has resolved
  (* History. *)
  did,        \* what the hub has taken which press for
  twice,      \* it has taken one for a second thing
  deduped,    \* HubDedup has been on all the time
  rigLeft     \* bounds

rigVars == <<settings, eventID, air, hub, hubSeen, waits, pending, lastMatch, fob,
             hubEvent, desk, did, twice, deduped, rigLeft>>

Free == [pc |-> "free"]
Frame == [half : Halves, gesture : {"short", "long", "point", "undo"}, id : Nat]

RigInit ==
  /\ settings \in SettingsIn
  /\ eventID = [h \in Halves |-> 0] /\ hubSeen = [h \in Halves |-> 0]
  /\ air = {} /\ hub = Free
  /\ waits = <<>> /\ pending = 0 /\ lastMatch = 0
  /\ fob = 0 /\ hubEvent = 0 /\ desk = <<>>
  /\ did = {} /\ twice = FALSE /\ deduped = settings.dedup
  /\ rigLeft \in RigBudgets
-----------------------------------------------------------------------------
(* The buttons.                                                            *)

(* wake: a contact that bounces with nothing to lock it out wakes twice.   *)
Wakes == IF settings.debounce \/ settings.device = "display" THEN 1 ELSE 2

(* A frame without its ACK is sent again, with its id.                     *)
Sends == IF settings.ackLost THEN 2 ELSE 1

FramesOf(h, g) ==
  [n \in 1..(Wakes * Sends) |->
     [half |-> h, gesture |-> g, id |-> eventID[h] + (n - 1) \div Sends + 1]]

OnAir(h, g) ==
  /\ rigLeft.presses > 0
  /\ eventID' = [eventID EXCEPT ![h] = @ + Wakes]
  /\ air' = air \cup {FramesOf(h, g)}
  /\ rigLeft' = [rigLeft EXCEPT !.presses = @ - 1]
  /\ UNCHANGED <<matches, settings, hub, hubSeen, waits, pending, lastMatch, fob, hubEvent,
                 desk, did, twice, deduped>>

(* A button tells a press by its hold; one with two keys, by the key.      *)
Press(h)    == settings.device = "button" /\ \E g \in {"short", "long"} : OnAir(h, g)
PressKey(h) == settings.device = "keys" /\ \E g \in {"point", "undo"} : OnAir(h, g)

(* A tap on one of the display's zones.                                    *)
Tap(h) == settings.device = "display" /\ \E g \in {"point", "undo"} : OnAir(h, g)

(* PressBoth: two long presses in one request.                             *)
PressBoth ==
  /\ rigLeft.presses > 1 /\ settings.device = "button"
  /\ eventID' = [h \in Halves |-> eventID[h] + Wakes]
  /\ air' = air \cup {FramesOf("A", "long") \o FramesOf("B", "long")}
  /\ rigLeft' = [rigLeft EXCEPT !.presses = @ - 2]
  /\ UNCHANGED <<matches, settings, hub, hubSeen, waits, pending, lastMatch, fob, hubEvent,
                 desk, did, twice, deduped>>

(* HoldFob: it takes the place of the one before.                          *)
HoldFob ==
  /\ rigLeft.fobs > 0
  /\ fob' = rigLeft.fobs
  /\ rigLeft' = [rigLeft EXCEPT !.fobs = @ - 1]
  /\ UNCHANGED <<matches, settings, eventID, air, hub, hubSeen, waits, pending, lastMatch,
                 hubEvent, desk, did, twice, deduped>>

(* No press within FobWindow.                                              *)
FobExpires ==
  /\ fob # 0 /\ fob' = 0
  /\ UNCHANGED <<matches, settings, eventID, air, hub, hubSeen, waits, pending, lastMatch,
                 hubEvent, desk, did, twice, deduped, rigLeft>>

SetSettings ==
  /\ rigLeft.changes > 0
  /\ settings' \in SettingsIn
  /\ deduped' = (deduped /\ settings'.dedup)
  /\ rigLeft' = [rigLeft EXCEPT !.changes = @ - 1]
  /\ UNCHANGED <<matches, eventID, air, hub, hubSeen, waits, pending, lastMatch, fob,
                 hubEvent, desk, did, twice>>
-----------------------------------------------------------------------------
(* The hub takes a frame off the radio.                                    *)

Taken(f, what) == [half |-> f.half, id |-> f.id, what |-> what]

Took(frames, what) ==
  /\ did' = did \cup {Taken(f, what) : f \in frames}
  /\ twice' = (twice \/ \E f \in frames, d \in did : f.half = d.half /\ f.id = d.id)

(* takeFob: a press that names a half takes the fob, once.                 *)
FobAfter(f) == 0

CheckIn(f) ==
  /\ hub' = [pc |-> "checkin", event |-> hubEvent + 1, fob |-> fob, half |-> f.half,
             attempts |-> IF settings.answerLost THEN 2 ELSE 1]
  /\ hubEvent' = hubEvent + 1
  /\ fob' = FobAfter(f)
  /\ Took({f}, "check-in")
  /\ UNCHANGED <<waits, pending>>

(* point and undo ask for the running match first.                         *)
Asks(f, what) ==
  /\ hub' = [pc |-> "ask", frame |-> f, what |-> what]
  /\ Took({f}, what)
  /\ UNCHANGED <<waits, pending, fob, hubEvent>>

(* long: Stop says whether the other one's timer was still to fire.        *)
Pairs_Unasked(f) == pending # 0 /\ waits[pending].frame.half # f.half
Pairs(f) ==
  /\ pending # 0
  /\ waits[pending].frame.half # f.half
  /\ waits[pending].timer = "set"

BothLong(f) ==
  /\ waits' = [waits EXCEPT ![pending].timer = IF @ = "set" THEN "stopped" ELSE @]
  /\ pending' = 0
  /\ hub' = IF settings.bothEnds THEN [pc |-> "both"] ELSE Free
  /\ Took({waits[pending].frame, f}, "both")
  /\ UNCHANGED <<fob, hubEvent>>

Waits(f) ==
  /\ waits' = Append(waits, [frame |-> f, timer |-> "set"])
  /\ pending' = Len(waits) + 1
  /\ UNCHANGED <<hub, fob, hubEvent, did, twice>>

Known(f) == settings.dedup /\ f.id <= hubSeen[f.half]

Acts(f) ==
  CASE f.gesture \in {"short", "point"} /\ fob # 0 -> CheckIn(f)
    [] f.gesture \in {"short", "point"} /\ fob = 0 -> Asks(f, "point")
    [] f.gesture = "undo" -> Asks(f, "undo")
    [] f.gesture = "long" -> IF Pairs(f) THEN BothLong(f) ELSE Waits(f)

Receive(frames) ==
  /\ hub = Free
  /\ air' = (air \ {frames}) \cup IF Len(frames) > 1 THEN {Tail(frames)} ELSE {}
  /\ LET f == Head(frames) IN
       /\ hubSeen' = IF settings.dedup /\ ~Known(f) THEN [hubSeen EXCEPT ![f.half] = f.id]
                  ELSE hubSeen
       /\ IF Known(f) THEN UNCHANGED <<hub, waits, pending, fob, hubEvent, did, twice>>
          ELSE Acts(f)
  /\ UNCHANGED <<matches, settings, eventID, lastMatch, desk, deduped, rigLeft>>

(* The window ends; the callback then waits for the lock.                  *)
TimerFires(w) ==
  /\ waits[w].timer = "set"
  /\ waits' = [waits EXCEPT ![w].timer = "fired"]
  /\ UNCHANGED <<matches, settings, eventID, air, hub, hubSeen, pending, lastMatch, fob,
                 hubEvent, desk, did, twice, deduped, rigLeft>>

(* The undo goes out whether or not another long press waits by now.       *)
UndoOf_Pending(w) ==
  IF pending = w THEN [pc |-> "ask", frame |-> waits[w].frame, what |-> "undo"] ELSE Free
UndoOf(w) == [pc |-> "ask", frame |-> waits[w].frame, what |-> "undo"]

TimerRuns(w) ==
  /\ hub = Free /\ waits[w].timer = "fired"
  /\ waits' = [waits EXCEPT ![w].timer = "done"]
  /\ pending' = IF pending = w THEN 0 ELSE pending
  /\ hub' = UndoOf(w)
  /\ Took({f \in {waits[w].frame} : hub' # Free}, "undo")
  /\ UNCHANGED <<matches, settings, eventID, air, hubSeen, lastMatch, fob, hubEvent, desk,
                 deduped, rigLeft>>
-----------------------------------------------------------------------------
(* The hub's calls.                                                        *)

HubOnly == UNCHANGED <<settings, eventID, air, hubSeen, waits, pending, fob, hubEvent, did,
                       twice, deduped>>

(* playerOn: the players change ends with every set.                       *)
PlayerOn(half, set) ==
  IF set % 2 = 1 THEN half ELSE IF half = "A" THEN "B" ELSE "A"

EventOf(f, what, set) ==
  [source |-> Button[f.half], id |-> f.id, kind |-> what,
   player |-> IF what = "undo" THEN "A" ELSE PlayerOn(f.half, set)]

Post(e, named) ==
  [pc |-> "post", event |-> e, named |-> named,
   attempts |-> IF settings.answerLost THEN 2 ELSE 1]

(* GET /matches/current; an undo with no match running looks at the last.  *)
Ask ==
  /\ hub.pc = "ask"
  /\ LET i == Current
         f == hub.frame
     IN CASE i # 0 /\ hub.what = "point" ->
               /\ hub' = Post(EventOf(f, "point", SetNumber(matches[i])), 0)
               /\ lastMatch' = i
          [] i # 0 /\ hub.what = "undo" ->
               /\ hub' = Post(EventOf(f, "undo", 1), 0)
               /\ UNCHANGED lastMatch
          [] i = 0 /\ hub.what = "undo" /\ lastMatch # 0 ->
               /\ hub' = [hub EXCEPT !.pc = "look"]
               /\ UNCHANGED lastMatch
          [] OTHER -> hub' = Free /\ UNCHANGED lastMatch
  /\ HubOnly /\ UNCHANGED <<matches, desk, rigLeft>>

(* GET /matches/{lastMatch}.                                               *)
Look ==
  /\ hub.pc = "look"
  /\ hub' = Post(EventOf(hub.frame, "undo", 1), lastMatch)
  /\ HubOnly /\ UNCHANGED <<matches, desk, lastMatch, rigLeft>>

(* POST /ingest/button, once more when the first answer counts as lost.    *)
Try ==
  /\ hub.pc = "post"
  /\ Ingest(Resolved(hub.named), hub.event)
  /\ hub' = IF hub.attempts > 1 THEN [hub EXCEPT !.attempts = @ - 1] ELSE Free
  /\ HubOnly /\ UNCHANGED <<desk, lastMatch, rigLeft>>

(* bothLong: GET the running match and end it.                             *)
BothAsk ==
  /\ hub.pc = "both"
  /\ hub' = IF Current = 0 THEN Free ELSE [pc |-> "end", match |-> Current]
  /\ HubOnly /\ UNCHANGED <<matches, desk, lastMatch, rigLeft>>

BothEnd ==
  /\ hub.pc = "end"
  /\ EndMatch(hub.match)
  /\ hub' = Free
  /\ HubOnly /\ UNCHANGED <<desk, lastMatch, rigLeft>>

(* POST /ingest/checkin: an event is resolved once (checkin.Desk).         *)
Resolves(c) ==
  IF \E n \in 1..Len(desk) : desk[n].event = c.event THEN desk
  ELSE Append(desk, [event |-> c.event, fob |-> c.fob, half |-> c.half])

TryCheckIn ==
  /\ hub.pc = "checkin"
  /\ desk' = Resolves(hub)
  /\ hub' = IF hub.attempts > 1 THEN [hub EXCEPT !.attempts = @ - 1] ELSE Free
  /\ HubOnly /\ UNCHANGED <<matches, lastMatch, rigLeft>>

(* No answer, with or without the call's effect: the hub gives up, and the *)
(* press is not tried again.                                               *)
CallFails ==
  /\ hub # Free /\ rigLeft.failures > 0
  /\ rigLeft' = [rigLeft EXCEPT !.failures = @ - 1]
  /\ \/ UNCHANGED <<matches, desk>>
     \/ hub.pc = "post" /\ Ingest(Resolved(hub.named), hub.event) /\ UNCHANGED desk
     \/ hub.pc = "end" /\ EndMatch(hub.match) /\ UNCHANGED desk
     \/ hub.pc = "checkin" /\ desk' = Resolves(hub) /\ UNCHANGED matches
  /\ hub' = Free
  /\ HubOnly /\ UNCHANGED lastMatch

HubCall == Ask \/ Look \/ Try \/ BothAsk \/ BothEnd \/ TryCheckIn

RigNext ==
  \/ \E h \in Halves : Press(h) \/ PressKey(h) \/ Tap(h)
  \/ PressBoth \/ HoldFob \/ FobExpires \/ SetSettings
  \/ \E frames \in air : Receive(frames)
  \/ \E w \in 1..Len(waits) : TimerFires(w) \/ TimerRuns(w)
  \/ HubCall \/ CallFails

RigTypeOK ==
  /\ settings \in SettingsIn
  /\ eventID \in [Halves -> Nat] /\ hubSeen \in [Halves -> Nat]
  /\ \A h \in Halves : hubSeen[h] <= eventID[h]
  /\ \A frames \in air : frames \in Seq(Frame) /\ frames # <<>>
  /\ hub.pc \in {"free", "ask", "look", "post", "both", "end", "checkin"}
  /\ pending \in 0..Len(waits) /\ lastMatch \in 0..Len(matches)
  /\ hubEvent \in Nat
-----------------------------------------------------------------------------
(* Properties.                                                             *)

(* The hub takes a press for one thing and once, however often its frame   *)
(* arrives and whatever timer it raced: a point, an undo, a check-in or    *)
(* half of a both-long (HubDedup; "half of a both-long" is decided by what *)
(* the timer's Stop answers).  And a fob checks in once, under an event of *)
(* its own, however its press is sent (takeFob).                           *)
UsedOnce ==
  /\ deduped => ~twice
  /\ \A m, n \in 1..Len(desk) : m # n => desk[m].fob # desk[n].fob

(* No long press is dropped while it waits: its timer is only stopped to   *)
(* make both-long of it, and one that fired has gone out as its undo, even *)
(* if another long press has taken its place (long).                       *)
LongsAreAnswered ==
  \A w \in 1..Len(waits) :
    LET f == waits[w].frame
        took(what) == Taken(f, what) \in did
    IN  /\ waits[w].timer = "stopped" => took("both")
        /\ waits[w].timer = "done" => took("undo")
=============================================================================
