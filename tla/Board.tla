------------------------------- MODULE Board -------------------------------
(***************************************************************************)
(* tools/chain-mock/piezo: a board that joins the running match and sends  *)
(* one ingest event per rally, and the page's switch that pauses it.       *)
(*                                                                         *)
(* board is where Run is between two of its calls.  A call zaehlwerk does  *)
(* not answer, whether or not it was carried out, is made again with the   *)
(* same body for as long as it takes (ask).                                *)
(***************************************************************************)
EXTENDS Zaehlwerk

CONSTANTS
  PiezoSource,   \* the board's source
  BoardBudgets   \* bounds: rallies, pauses, unanswered calls; joins: Config.Join

ASSUME BoardAssumption ==
  /\ PiezoSource \in Senders
  /\ BoardBudgets \subseteq [rallies : Nat, edits : Nat, outages : Nat, joins : BOOLEAN]

VARIABLES
  board,      \* Run
  boardID,    \* the board's counter
  ctl,        \* Control
  edits,      \* the page's requests that have read the Control
  touched,    \* history: others have scored in the board's match since it was answered
  rallied,    \* history: rallies begun while it has been paused
  boardLeft   \* bounds

boardVars == <<board, boardID, ctl, edits, touched, rallied, boardLeft>>

NoScore == [p \in Players |-> 0]
At(pc, i) == [pc |-> pc, match |-> i, set |-> 1, event |-> 0, kind |-> "point",
              player |-> "A", score |-> NoScore, undoes |-> FALSE]

BoardInit ==
  /\ boardLeft \in BoardBudgets
  /\ board = At(IF boardLeft.joins THEN "join" ELSE "create", 0)
  /\ boardID = 0
  /\ ctl = [paused |-> FALSE, resend |-> TRUE] /\ edits = {}
  /\ touched = FALSE /\ rallied = 0

Quiet == UNCHANGED <<ctl, edits, rallied>>
-----------------------------------------------------------------------------
(* Run.                                                                    *)

(* create: the page's form, which is not asked again; it ends a demo, and  *)
(* a match it started without an answer runs on without the board.         *)
Create ==
  /\ board.pc = "create"
  /\ \/ StartMatch(FALSE, FALSE) /\ board' = At("join", 0) /\ UNCHANGED boardLeft
     \/ /\ boardLeft.outages > 0
        /\ StartMatch(FALSE, FALSE) \/ UNCHANGED matches
        /\ boardLeft' = [boardLeft EXCEPT !.outages = @ - 1]
        /\ board' = At("gaveUp", 0)
  /\ Quiet /\ UNCHANGED <<boardID, touched>>

(* join: a demo is not joined but waited out.                              *)
Joinable(i) == i # 0 /\ ~matches[i].demo

Join ==
  /\ board.pc = "join" /\ Joinable(Current)
  /\ board' = At("look", Current)
  /\ Quiet /\ UNCHANGED <<matches, boardID, touched, boardLeft>>

(* play asks for the state before every rally.                             *)
LookAgain ==
  /\ board.pc = "look"
  /\ board' = IF Current = board.match
              THEN [board EXCEPT !.pc = "pause", !.set = SetNumber(matches[board.match])]
              ELSE [board EXCEPT !.pc = "final"]
  /\ Quiet /\ UNCHANGED <<matches, boardID, touched, boardLeft>>

(* Somebody else's match, or none: the board's is over, and Run goes on.   *)
Final ==
  /\ board.pc = "final"
  /\ board' = At(IF boardLeft.joins THEN "join" ELSE "create", 0)
  /\ Quiet /\ UNCHANGED <<matches, boardID, touched, boardLeft>>

(* waitWhilePaused: between rallies, never inside one.                     *)
GoesOn == ~ctl.paused

WaitWhilePaused ==
  /\ board.pc = "pause" /\ GoesOn
  /\ board' = [board EXCEPT !.pc = "rally"]
  /\ Quiet /\ UNCHANGED <<matches, boardID, touched, boardLeft>>

(* rally: the player is the one the set before the pause put on the half.  *)
PlayerAtHalf(half, set) ==
  IF set % 2 = 1 THEN half ELSE IF half = "A" THEN "B" ELSE "A"

Rally(half, kind) ==
  /\ board.pc = "rally" /\ boardLeft.rallies > 0
  /\ boardID' = boardID + 1
  /\ board' = [board EXCEPT !.pc = "send", !.event = boardID + 1, !.kind = kind,
                            !.player = PlayerAtHalf(half, board.set)]
  /\ boardLeft' = [boardLeft EXCEPT !.rallies = @ - 1]
  /\ rallied' = IF ctl.paused THEN rallied + 1 ELSE 0
  /\ UNCHANGED <<matches, touched, ctl, edits>>

BoardEvent ==
  [source |-> PiezoSource, id |-> board.event, kind |-> board.kind,
   player |-> board.player]

(* The match is named, whichever runs by now.                              *)
BoardMatch_Current == Current
BoardMatch == board.match

(* Answered: the event again, its correction, or the next rally.           *)
Onwards(answered) ==
  {[answered EXCEPT !.pc = "look"]}
    \cup (IF answered.undoes THEN {[answered EXCEPT !.pc = "undo"]} ELSE {})
    \cup (IF board.pc = "send" /\ ctl.resend THEN {[answered EXCEPT !.pc = "again"]} ELSE {})

(* An answer: OK with a score, or errMatchOver.                            *)
Send ==
  /\ board.pc \in {"send", "again"}
  /\ LET i == BoardMatch
         s == Status(i, BoardEvent)
     IN  /\ Ingest(i, BoardEvent)
         /\ IF s # 200 THEN board' = [board EXCEPT !.pc = "look"]
            ELSE IF board.pc = "send"
            THEN board' \in Onwards([board EXCEPT
                   !.score = ScoreOf(matches'[i]),
                   !.undoes = board.kind = "point" /\ ~Complete(matches'[i])])
            ELSE IF ScoreOf(matches'[i]) # board.score
            THEN board' = [board EXCEPT !.pc = "countedTwice"]
            ELSE board' \in Onwards(board)
  /\ touched' = (touched /\ board'.pc = "countedTwice")
  /\ Quiet /\ UNCHANGED <<boardID, boardLeft>>

(* A correction counts on the board's own counter.                         *)
Correct ==
  /\ board.pc = "undo"
  /\ boardID' = boardID + 1
  /\ board' = [board EXCEPT !.pc = "send", !.event = boardID + 1, !.kind = "undo"]
  /\ Quiet /\ UNCHANGED <<matches, touched, boardLeft>>

(* ask: no answer, and the same call again.                                *)
Unanswered ==
  /\ board.pc \in {"send", "again"} /\ boardLeft.outages > 0
  /\ Ingest(BoardMatch, BoardEvent)
  /\ boardLeft' = [boardLeft EXCEPT !.outages = @ - 1]
  /\ Quiet /\ UNCHANGED <<board, boardID, touched>>
-----------------------------------------------------------------------------
(* The page's piezo form: the whole Control is read, changed and sent.     *)

ReadControl(form) ==
  /\ boardLeft.edits > 0
  /\ edits' = edits \cup {[read |-> ctl, form |-> form]}
  /\ boardLeft' = [boardLeft EXCEPT !.edits = @ - 1]
  /\ UNCHANGED <<matches, board, boardID, ctl, touched, rallied>>

Changed(e) ==
  CASE e.form = "pause"  -> [e.read EXCEPT !.paused = TRUE]
    [] e.form = "resume" -> [e.read EXCEPT !.paused = FALSE]
    [] e.form = "knobs"  -> [e.read EXCEPT !.resend = ~@]

SetControl(e) ==
  /\ ctl' = Changed(e)
  /\ edits' = edits \ {e}
  /\ rallied' = IF ctl'.paused /\ ctl.paused THEN rallied ELSE 0
  /\ UNCHANGED <<matches, board, boardID, touched, boardLeft>>

BoardNext ==
  \/ Create \/ Join \/ LookAgain \/ Final \/ WaitWhilePaused
  \/ \E half \in Players, kind \in {"point", "miss"} : Rally(half, kind)
  \/ Send \/ Correct \/ Unanswered
  \/ \E form \in {"pause", "resume", "knobs"} : ReadControl(form)
  \/ \E e \in edits : SetControl(e)

BoardTypeOK ==
  /\ board.pc \in {"create", "join", "look", "final", "pause", "rally", "send", "again",
                   "undo", "gaveUp", "countedTwice"}
  /\ board.match \in 0..Len(matches) /\ boardID \in Nat /\ board.event <= boardID
  /\ ctl \in [paused : BOOLEAN, resend : BOOLEAN]
  /\ touched \in BOOLEAN
-----------------------------------------------------------------------------
(* Properties.                                                             *)

(* A board that finds its event counted twice stops for good, so it may    *)
(* say so only of a match others have scored in since it was answered:     *)
(* its own resend changes nothing, a correction's neither (rally).         *)
ResendIsQuiet == board.pc = "countedTwice" => touched

=============================================================================
