----------------------------- MODULE ResultBook -----------------------------
(***************************************************************************)
(* What the hand-over of results promises, without saying how: a result    *)
(* entered at Schmetterpause is one the match was won with, a second entry *)
(* for the same match needs an answer that went missing and an operator's  *)
(* result, and what the match records as delivered is there.               *)
(***************************************************************************)
EXTENDS Sequences

CONSTANTS
  Matches,    \* the matches of one run of the service
  Scores,     \* the sets a match may be won with
  Wanted,     \* matches with a hand-over: two players and a proof they played
  CheckedIn   \* those of them whose proof is the two check-ins

VARIABLES
  won,      \* per match: the scores it has been won with
  book,     \* per match: the results Schmetterpause holds
  done,     \* per match: recorded as delivered
  unsure    \* per match: an attempt ended without knowing what became of it

vars == <<won, book, done, unsure>>

Init ==
  /\ won = [m \in Matches |-> {}]
  /\ book = [m \in Matches |-> <<>>]
  /\ done = [m \in Matches |-> FALSE]
  /\ unsure = [m \in Matches |-> FALSE]

Win(m, s) ==
  /\ won' = [won EXCEPT ![m] = @ \cup {s}]
  /\ UNCHANGED <<book, done, unsure>>

Enter(m, s) ==
  /\ m \in Wanted /\ s \in won[m]
  /\ book[m] = <<>> \/ (unsure[m] /\ m \notin CheckedIn)
  /\ book' = [book EXCEPT ![m] = Append(@, s)]
  /\ UNCHANGED <<won, done, unsure>>

Learn(m) ==
  /\ book[m] # <<>>
  /\ done' = [done EXCEPT ![m] = TRUE]
  /\ UNCHANGED <<won, book, unsure>>

Lose(m) ==
  /\ unsure' = [unsure EXCEPT ![m] = TRUE]
  /\ UNCHANGED <<won, book, done>>

Next == \E m \in Matches : \/ \E s \in Scores : Win(m, s) \/ Enter(m, s)
                           \/ Learn(m)
                           \/ Lose(m)

Spec == Init /\ [][Next]_vars
=============================================================================
