------------------------------ MODULE Screens ------------------------------
(***************************************************************************)
(* internal/ui: the pages that follow the table.  The scoring page /ui     *)
(* shows the running match; /ui/watch and /ui/live are screens nobody      *)
(* touches, which between matches show the side select, who holds which    *)
(* half, and on /ui/watch the screensaver when the table is idle.          *)
(*                                                                         *)
(* A page asks /next when the table's stream or its poll says so, and the  *)
(* side select asks /sides besides; both may be asked at any time.  The    *)
(* answer to a redirect is a load of the page, a step of its own.          *)
(***************************************************************************)
EXTENDS Zaehlwerk

CONSTANTS
  PageKind,       \* PageKind[p]: "score", "watch" or "live", per page open
  ResultHold,     \* ticks a finished match stays up
  SaverAfter,     \* ticks of a free table before the screensaver
  ScreenBudgets   \* open: the pages; bounds: asks, claims, ticks; sides, saver: WithSides,
                  \* WithScreensaver

Pages == DOMAIN PageKind

ASSUME ScreensAssumption ==
  /\ PageKind \in [Pages -> {"score", "watch", "live"}]
  /\ ResultHold \in Nat /\ SaverAfter \in Nat
  /\ ScreenBudgets \subseteq [open : SUBSET Pages, asks : Nat, claims : Nat, ticks : Nat,
                        sides : BOOLEAN, saver : BOOLEAN]

VARIABLES
  page,        \* per page: the match on it, what it shows without one, and
               \* whether it is about to load again
  sent,        \* the matches whose result Schmetterpause has
  lone,        \* external: one half of the table is claimed
  now,         \* the clock
  over,        \* per match: when a screen was first answered that it is over, or -1
  freeSince,   \* when the table was last seen free, or -1
  (* History. *)
  followed,    \* per page: when a real match last ran on it, or -1
  overFrom,    \* per match: since when it has not run, or -1
  reopened,    \* the matches an undo has reopened
  screenLeft   \* bounds

screenVars == <<page, sent, lone, now, over, freeSince, followed, overFrom, reopened,
                screenLeft>>

Ids == 1..MaxMatches
Never == -1

ScreensInit ==
  /\ page = [p \in Pages |-> [match |-> 0, shows |-> "nothing", loads |-> TRUE]]
  /\ sent = {} /\ lone = FALSE /\ now = 0
  /\ over = [i \in Ids |-> Never] /\ freeSince = Never
  /\ followed = [p \in Pages |-> Never]
  /\ overFrom = [i \in Ids |-> Never] /\ reopened = {}
  /\ screenLeft \in ScreenBudgets

(* WithSides, WithScreensaver.                                             *)
Sides == screenLeft.sides
Saver == screenLeft.saver
-----------------------------------------------------------------------------
(* What a page is answered.                                                *)

Claimed == lone

(* current: with the side select on, no screen follows a demo.             *)
Followed(p) ==
  LET i == Current
  IN  IF PageKind[p] # "score" /\ i # 0 /\ matches[i].demo
         /\ (Sides \/ PageKind[p] = "live")
      THEN 0 ELSE i

Asked == screenLeft.asks > 0 /\ screenLeft' = [screenLeft EXCEPT !.asks = @ - 1]

(* idle starts and stops the clock of the free table; busy stops it.       *)
FreeSince == IF Claimed THEN Never ELSE IF freeSince = Never THEN now ELSE freeSince
Idle == FreeSince # Never /\ now - FreeSince >= SaverAfter
Busy == freeSince' = Never

(* sidesNow: the columns, or the screensaver on a screen that takes it.    *)
SidesNow(p) == IF Saver /\ Idle /\ PageKind[p] = "watch" THEN "saver" ELSE "sides"
SidesSeen   == freeSince' = IF Saver THEN FreeSince ELSE freeSince

Shows(p, i, what) == page' = [page EXCEPT ![p] = [match |-> i, shows |-> what, loads |-> FALSE]]

(* index: GET /ui.                                                         *)
LoadScore(p) ==
  /\ PageKind[p] = "score" /\ page[p].loads
  /\ Shows(p, Current, "nothing")
  /\ UNCHANGED <<matches, sent, lone, now, over, freeSince, screenLeft>>

(* watch: GET /ui/watch and /ui/live.                                      *)
LoadWatch(p) ==
  /\ PageKind[p] # "score" /\ page[p].loads
  /\ IF Followed(p) = 0 /\ Sides
     THEN Shows(p, 0, SidesNow(p)) /\ SidesSeen
     ELSE Shows(p, Followed(p), "nothing") /\ UNCHANGED freeSince
  /\ UNCHANGED <<matches, sent, lone, now, over, screenLeft>>

(* reportWaits.                                                            *)
ReportWaits(i) == i # 0 /\ matches[i].wanted /\ i \notin sent

(* GET /ui/next.                                                           *)
Redirects(p) == Current # 0 /\ Current # page[p].match /\ ~ReportWaits(page[p].match)

ScoreNext(p) ==
  /\ PageKind[p] = "score" /\ ~page[p].loads
  /\ Redirects(p) /\ page' = [page EXCEPT ![p].loads = TRUE]
  /\ UNCHANGED <<matches, sent, lone, now, over, freeSince, screenLeft>>

(* held: the hold starts when it is first asked about.                     *)
OverSince_Free(i) ==
  IF freeSince # Never THEN freeSince ELSE IF over[i] = Never THEN now ELSE over[i]
OverSince(i) == IF over[i] = Never THEN now ELSE over[i]
Held(i) == now - OverSince(i) < ResultHold

(* GET /ui/watch/next.                                                     *)
WatchNext(p) ==
  /\ PageKind[p] # "score" /\ ~page[p].loads
  /\ LET i == Followed(p)
         shown == page[p].match
         asksHold == i = 0 /\ shown # 0 /\ Sides /\ ~Claimed
     IN  /\ over' = IF asksHold THEN [over EXCEPT ![shown] = OverSince(shown)] ELSE over
         /\ page' = [page EXCEPT ![p].loads =
              \/ i # 0 /\ i # shown
              \/ i = 0 /\ shown # 0 /\ Sides /\ (Claimed \/ ~Held(shown))]
  /\ Asked
  /\ UNCHANGED <<matches, sent, lone, now, freeSince>>

(* GET /ui/watch/sides: the columns ask it, and the screensaver.           *)
WatchSides(p) ==
  /\ page[p].shows # "nothing" /\ ~page[p].loads
  /\ IF Followed(p) # 0
     THEN /\ Busy
          /\ page' = [page EXCEPT ![p].loads = TRUE]
     ELSE /\ SidesSeen
          /\ page' = [page EXCEPT ![p].shows = SidesNow(p)]
  /\ Asked
  /\ UNCHANGED <<matches, sent, lone, now, over>>
-----------------------------------------------------------------------------
(* What happens at the table meanwhile.                                    *)

(* createMatch: the answer is the page with its new match.                 *)
CreateOnPage(p, wanted) ==
  /\ PageKind[p] = "score" /\ ~page[p].loads /\ screenLeft.claims > 0
  /\ StartMatch(FALSE, wanted)
  /\ page' = [page EXCEPT ![p].match = Len(matches')]
  /\ lone' = FALSE
  /\ screenLeft' = [screenLeft EXCEPT !.claims = @ - 1]
  /\ UNCHANGED <<sent, now, over, freeSince>>

(* checkin.Desk: a check-in holds a half, and the second starts the match. *)
Claim ==
  /\ screenLeft.claims > 0
  /\ Current # 0 => matches[Current].demo
  /\ screenLeft' = [screenLeft EXCEPT !.claims = @ - 1]
  /\ IF lone THEN StartMatch(FALSE, TRUE) ELSE UNCHANGED matches
  /\ lone' = ~lone
  /\ UNCHANGED <<page, sent, now, over, freeSince>>

(* The desk's claim runs out, the reporter's result is at Schmetterpause,  *)
(* and a screensaver opens the pong page, which starts a demo.             *)
Elsewhere ==
  /\ \/ lone /\ lone' = FALSE /\ UNCHANGED <<matches, sent>>
     \/ /\ \E i \in Matches : Complete(matches[i]) /\ ReportWaits(i) /\ sent' = sent \cup {i}
        /\ UNCHANGED <<matches, lone>>
     \/ /\ \E p \in Pages : page[p].shows = "saver" /\ StartMatch(TRUE, FALSE)
        /\ UNCHANGED <<sent, lone>>
  /\ UNCHANGED <<page, now, over, freeSince, screenLeft>>

ClockTicks ==
  /\ now < screenLeft.ticks /\ now' = now + 1
  /\ UNCHANGED <<matches, page, sent, lone, over, freeSince, screenLeft>>

RunsIn(m, i) == i \in 1..Len(m) /\ Running(m[i])
RealRuns(m, i) == RunsIn(m, i) /\ ~m[i].demo

(* Part of every step.                                                     *)
WatchTheTable ==
  /\ followed' = [p \in Pages |->
                    IF ~page[p].loads /\ RealRuns(matches, page[p].match)
                    THEN now ELSE followed[p]]
  /\ overFrom' = [i \in Ids |-> IF i > Len(matches) \/ RunsIn(matches', i) THEN Never
                                ELSE IF overFrom[i] = Never THEN now ELSE overFrom[i]]
  /\ reopened' = reopened \cup {i \in Matches : ~Running(matches[i]) /\ Running(matches'[i])}

ScreensNext ==
  /\ \/ \E p \in screenLeft.open : \/ LoadScore(p) \/ LoadWatch(p) \/ ScoreNext(p) \/ WatchNext(p)
                                   \/ WatchSides(p)
                                   \/ \E wanted \in BOOLEAN : CreateOnPage(p, wanted)
     \/ Claim \/ Elsewhere \/ ClockTicks
  /\ WatchTheTable

(* What the others at the table do, seen from here: a real match drops the *)
(* claims.                                                                 *)
ScreensStay ==
  /\ UNCHANGED <<page, sent, now, over, freeSince, screenLeft>>
  /\ lone' = (lone /\ Len(matches') = Len(matches))
  /\ WatchTheTable

ScreensTypeOK ==
  /\ \A p \in Pages :
       /\ page[p].match \in 0..Len(matches) /\ page[p].shows \in {"nothing", "sides", "saver"}
       /\ page[p].shows # "nothing" => page[p].match = 0 /\ PageKind[p] # "score"
  /\ sent \subseteq Matches
  /\ now \in Nat /\ freeSince \in {Never} \cup 0..now
  /\ \A i \in Ids : over[i] \in {Never} \cup 0..now
-----------------------------------------------------------------------------
(* Properties.                                                             *)

(* A result stays on a screen for as long as it should: a screen that      *)
(* leaves a finished match for the side select has shown it through the    *)
(* hold, unless a player checks in, whichever screen's question started    *)
(* the hold.  Not so a match that was won, taken back and won again: its   *)
(* hold was started by the first win (held).                               *)
ResultsStayUp ==
  [][\A p \in Pages :
       page'[p].loads /\ ~page[p].loads /\ PageKind[p] # "score" /\ Followed(p) = 0 =>
         LET i == page[p].match
         IN  lone \/ i = 0 \/ i \in reopened \/ now - overFrom[i] >= ResultHold]_screenVars

(* WithScreensaver hands the screen over "after the table has been free for *)
(* after": so never sooner after a real match has run on that very screen. *)
SaverNeedsAFreeTable ==
  [][\A p \in Pages :
       page'[p].shows = "saver" /\ page[p].shows # "saver" =>
         followed[p] = Never \/ now - followed[p] >= SaverAfter]_screenVars

(* next: "A finished match whose result still waits to go to               *)
(* Schmetterpause keeps the page", and nothing else does while another     *)
(* match runs.                                                             *)
PageMovesOn ==
  \A p \in Pages :
    LET i == page[p].match
    IN  PageKind[p] = "score" /\ i # 0 /\ Current # 0 /\ Current # i /\ ~Redirects(p) =>
          Complete(matches[i]) /\ i \notin sent
=============================================================================
