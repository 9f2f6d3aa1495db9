------------------------------- MODULE Chain -------------------------------
(***************************************************************************)
(* The table's chain: the buttons and the board of tools/chain-mock score  *)
(* into one zaehlwerk, somebody at a page starts, ends and corrects        *)
(* matches meanwhile, and the screens follow the table.                    *)
(***************************************************************************)
EXTENDS Buttons, Board, Screens

CONSTANT Plays   \* bounds: what the rig, with which settings, the board, the screens and
                 \* the page do together

ASSUME ChainAssumption ==
  /\ Plays \subseteq [rig : RigBudgets, set : SUBSET SettingsIn, board : BoardBudgets,
                     screens : ScreenBudgets, page : Nat]
  /\ PiezoSource \notin {Button[h] : h \in Halves}   \* one counter to a source

VARIABLE pageLeft

chainVars == <<matches, rigVars, boardVars, screenVars, pageLeft>>

ChainInit ==
  /\ ZaehlwerkInit /\ RigInit /\ BoardInit /\ ScreensInit
  /\ \E p \in Plays : /\ rigLeft = p.rig /\ settings \in p.set
                      /\ boardLeft = p.board /\ screenLeft = p.screens
                      /\ pageLeft = p.page

(* What the rig and the page do to the match the board is in.              *)
Touched ==
  touched' = (touched \/ (board.match # 0 /\ ScoreOf(matches'[board.match])
                                               # ScoreOf(matches[board.match])))

BoardStays == Touched /\ UNCHANGED <<board, boardID, ctl, edits, rallied, boardLeft>>

Rig == RigNext /\ BoardStays /\ ScreensStay /\ UNCHANGED pageLeft

PiezoBoard == BoardNext /\ ScreensStay /\ UNCHANGED <<rigVars, pageLeft>>

Watching == ScreensNext /\ BoardStays /\ UNCHANGED <<rigVars, pageLeft>>

(* Any page and any client of the API.                                     *)
PageRequest ==
  /\ pageLeft > 0 /\ pageLeft' = pageLeft - 1
  /\ \/ \E demo \in BOOLEAN : StartMatch(demo, FALSE)
     \/ \E i \in Matches : EndMatch(i) \/ PageUndo(i) \/ \E p \in Players : PagePoint(i, p)
  /\ BoardStays /\ ScreensStay /\ UNCHANGED rigVars

ChainNext == Rig \/ PiezoBoard \/ Watching \/ PageRequest

ChainSpec == ChainInit /\ [][ChainNext]_chainVars

ChainTypeOK == ZaehlwerkTypeOK /\ RigTypeOK /\ BoardTypeOK /\ ScreensTypeOK
-----------------------------------------------------------------------------
(* Properties.                                                             *)

CountedIn(i, e) ==
  Cardinality({n \in 1..Len(matches[i].counted) :
                 /\ matches[i].counted[n].source = e.source
                 /\ matches[i].counted[n].id = e.id})

(* Whatever is sent twice, a press and a rally change a match's score      *)
(* once: frames resent and not deduplicated at the hub, calls repeated     *)
(* because their answer was lost, a retry that finds another match         *)
(* current.  A rally, which names its match, counts in no second match     *)
(* either (ADR-0002, ADR-0012).                                            *)
CountsOnce ==
  \A i \in Matches : \A e \in ToSet(matches[i].counted) :
    /\ e.source # Page => CountedIn(i, e) = 1
    /\ e.source = PiezoSource => \A j \in Matches \ {i} : CountedIn(j, e) = 0
=============================================================================
