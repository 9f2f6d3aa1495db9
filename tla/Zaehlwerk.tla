----------------------------- MODULE Zaehlwerk -----------------------------
(***************************************************************************)
(* What the clients at the table meet of zaehlwerk: the matches they look  *)
(* up by id or as the current one, the ingest contract of ADR-0002 and     *)
(* ADR-0012, and the matches people start, end and correct on the page.    *)
(*                                                                         *)
(* Every request is one step here.  Registry takes the requests apart and  *)
(* Scorer the score, so a set is won with SetLength points and a match     *)
(* with MatchLength.                                                       *)
(***************************************************************************)
EXTENDS Integers, Sequences, SequencesExt

CONSTANTS
  Senders,      \* the sources the clients at the table send from
  SetLength,    \* points to a set, whoever wins them
  MatchLength,  \* points to a match
  MaxMatches    \* bound: matches started

Players == {"A", "B"}
Page    == "page"   \* the source of whoever scores on the page

ASSUME ZaehlwerkAssumption ==
  /\ SetLength \in Nat \ {0} /\ MatchLength \in Nat \ {0} /\ MaxMatches \in Nat \ {0}
  /\ Page \notin Senders

VARIABLE matches  \* oldest first

Event   == [source : Senders \cup {Page}, id : Nat,
            kind : {"point", "miss", "undo"}, player : Players]

Complete(m) == Len(m.log) = MatchLength
Running(m)  == ~m.ended /\ ~Complete(m)

Matches == 1..Len(matches)
(* Registry.Current; 0 is "no match is running".                           *)
Current ==
  LET running == {i \in Matches : Running(matches[i])}
  IN  IF running = {} THEN 0 ELSE Max(running)

(* scorer.State, as far as the clients read it.                            *)
SetNumber(m) == Len(m.log) \div SetLength + 1
ScoreOf(m)   == [p \in Players |-> Len(SelectSeq(m.log, LAMBDA e : e.player = p))]
-----------------------------------------------------------------------------
(* Ingest.                                                                 *)

(* 409: a match ended by hand takes nothing, a won one an undo.            *)
Refuses(m, e) == m.ended \/ (Complete(m) /\ e.kind # "undo")

Accepts_Undo(m, e) == e.kind = "undo" \/ e.id > m.seen[e.source]
Accepts(m, e) == e.id > m.seen[e.source]

(* Undo history does not reach behind the set the last point fell in.      *)
Pushed(m, e) ==
  [m EXCEPT !.log = Append(@, e),
            !.back = IF Len(m.log) % SetLength = 0 THEN 1 ELSE @ + 1,
            !.counted = Append(@, e)]

TakenBack(m) ==
  IF m.back = 0 THEN m ELSE [m EXCEPT !.log = Front(@), !.back = @ - 1]

Ingested(m, e) ==
  IF Refuses(m, e) \/ ~Accepts(m, e) THEN m
  ELSE LET seen == [m EXCEPT !.seen[e.source] = e.id]
       IN  CASE e.kind = "point" -> Pushed(seen, e)
             [] e.kind = "miss"  -> seen
             [] e.kind = "undo" /\ m.back = 0 -> seen
             [] e.kind = "undo" /\ m.back > 0 ->
                  [TakenBack(seen) EXCEPT !.counted = Append(@, e)]

(* resolve: the match named, or the one that runs; 0 is 404.               *)
Resolved(named) == IF named = 0 THEN Current ELSE named

Status(i, e) ==
  IF i = 0 THEN 404 ELSE IF Refuses(matches[i], e) THEN 409 ELSE 200

Ingest(i, e) ==
  matches' = IF i = 0 THEN matches ELSE [matches EXCEPT ![i] = Ingested(@, e)]
-----------------------------------------------------------------------------
(* The page and the API's other doors.                                     *)

Fresh(demo, wanted) ==
  [demo |-> demo, wanted |-> wanted, ended |-> FALSE, log |-> <<>>, back |-> 0, counted |-> <<>>,
   seen |-> [s \in Senders \cup {Page} |-> 0]]

(* A demo is refused while a real match runs; a real match ends the demos. *)
(* wanted: its result is to be reported (Handover.Wanted).                 *)
StartMatch(demo, wanted) ==
  /\ Len(matches) < MaxMatches
  /\ demo => \A i \in Matches : Running(matches[i]) => matches[i].demo
  /\ matches' = Append([i \in Matches |->
                          [matches[i] EXCEPT !.ended = @ \/ (~demo /\ matches[i].demo
                                                              /\ Running(matches[i]))]],
                       Fresh(demo, wanted))

EndMatch(i) == matches' = [matches EXCEPT ![i].ended = TRUE]

(* A click is its own event, from the source of a page load.               *)
PagePoint(i, p) ==
  /\ Running(matches[i])
  /\ Ingest(i, [source |-> Page, id |-> matches[i].seen[Page] + 1,
                kind |-> "point", player |-> p])

(* The page's undo has no event and asks only whether there is a point.    *)
PageUndo(i) == matches' = [matches EXCEPT ![i] = TakenBack(@)]

(* Nothing played yet, or a match or a demo just started.                  *)
ZaehlwerkInit == matches \in {<<>>, <<Fresh(FALSE, FALSE)>>, <<Fresh(TRUE, FALSE)>>}

ZaehlwerkTypeOK ==
  /\ Len(matches) <= MaxMatches
  /\ \A i \in Matches :
       /\ matches[i].log \in Seq(Event) /\ Len(matches[i].log) <= MatchLength
       /\ matches[i].back \in 0..Len(matches[i].log)
       /\ matches[i].seen \in [Senders \cup {Page} -> Nat]
=============================================================================
