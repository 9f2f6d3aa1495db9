-------------------------------- MODULE Games --------------------------------
(***************************************************************************)
(* internal/pong's games by what decides them: two bots, nobody (a button  *)
(* check), or a page.  One game is played, and only its own part moves.    *)
(***************************************************************************)
EXTENDS ButtonCheck, Browser

VARIABLE driver  \* Config.Driver, or "check" for a game that presses nothing

gamesVars == <<vars, checkVars, browserVars, driver>>

Drivers == {"bots", "check", "browser"}

GamesInit ==
  /\ driver \in Drivers /\ Init /\ CheckInit /\ BrowserInit
  /\ driver # "bots"  => faults = CHOOSE f \in FaultSets : TRUE
  /\ driver # "check" => check.winner = "left"

(* What the check and the bots share is zaehlwerk's match.                 *)
OfTheGame == <<high, at, doing, standing, acted, rally, counter, late, truth, parted, found, faults,
               injected, lost>>

Plays(p) ==
  \/ p = "bots"    /\ Next        /\ UNCHANGED <<checkVars, browserVars>>
  \/ p = "check"   /\ CheckNext   /\ UNCHANGED <<OfTheGame, browserVars>>
  \/ p = "browser" /\ BrowserNext /\ UNCHANGED <<vars, checkVars>>

GamesNext == Plays(driver) /\ UNCHANGED driver

GamesSpec == GamesInit /\ [][GamesNext]_gamesVars
=============================================================================
