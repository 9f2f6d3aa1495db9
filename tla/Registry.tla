------------------------------ MODULE Registry ------------------------------
(***************************************************************************)
(* internal/match/registry.go and the requests that reach its matches      *)
(* (internal/api, internal/ui): which match is the table's.                *)
(*                                                                         *)
(* A match is numbered in order of creation.  Whether it runs is not the   *)
(* registry's alone: the scorer ends it with a point and an undo reopens   *)
(* it, without the registry's lock.  So CreateFor holds that lock and yet  *)
(* looks at one match per step, and a request looks a match up, checks it  *)
(* and acts on it in three.  Requests for points carry the match id or, as *)
(* hardware does, leave it out ("press").                                  *)
(***************************************************************************)
EXTENDS Integers, Sequences, SequencesExt

CONSTANTS
  MaxRetained,  \* WithMaxRetained
  Clients,      \* requests under way at once
  MaxMatches    \* bound: matches created

ASSUME RegistryAssumption == MaxRetained \in Nat /\ MaxMatches \in Nat

VARIABLES
  order,      \* the registry's matches, oldest first
  made,       \* how many matches have been created
  demo,       \* per match: created as a demo
  over,       \* per match: its scorer's state is complete
  ended,      \* per match: endedAt is set
  creating,   \* CreateFor, which holds the registry's lock unless idle
  request,    \* per client: its request
  (* History, not in the code. *)
  reopened,   \* per match: an undo has reopened it
  steady      \* per client: matches that ran all the time since it began to scan

tableVars == <<order, made, demo, over, ended>>
vars == <<tableVars, creating, request, reopened, steady>>

Ids  == 1..MaxMatches
Kind == {"press", "point", "undo", "take_back", "end"}

Idle == [pc |-> "idle", kind |-> "press", match |-> 0, left |-> <<>>]
Unlocked == [pc |-> "unlocked", demo |-> FALSE, left |-> <<>>]

Increasing(s) == \A i, j \in 1..Len(s) : i < j => s[i] < s[j]

TypeOK ==
  /\ made \in 0..MaxMatches
  /\ order \in Seq(1..made) /\ Increasing(order)
  /\ demo \in [Ids -> BOOLEAN] /\ over \in [Ids -> BOOLEAN] /\ ended \in [Ids -> BOOLEAN]
  /\ creating \in [pc : {"unlocked", "refuse", "end", "evict"}, demo : BOOLEAN,
                   left : Seq(Ids)]
  /\ request \in [Clients -> [pc : {"idle", "scan", "check", "act"}, kind : Kind,
                              match : Ids \cup {0}, left : Seq(Ids)]]
  /\ reopened \in [Ids -> BOOLEAN] /\ steady \in [Clients -> SUBSET Ids]

Init ==
  /\ order = <<>> /\ made = 0
  /\ demo = [i \in Ids |-> FALSE]
  /\ over = [i \in Ids |-> FALSE]
  /\ ended = [i \in Ids |-> FALSE]
  /\ creating = Unlocked
  /\ request = [c \in Clients |-> Idle]
  /\ reopened = [i \in Ids |-> FALSE] /\ steady = [c \in Clients |-> {}]

Running(i) == ~ended[i] /\ ~over[i]

-----------------------------------------------------------------------------
(* CreateFor, under the registry's lock.                                   *)

(* A demo first asks whether a real match runs, a real match ends the      *)
(* demos that run.                                                         *)
ToAsk_OnlyNewest == IF order = <<>> THEN <<>> ELSE <<Last(order)>>
ToAsk == order

Create(asDemo) ==
  /\ creating = Unlocked /\ made < MaxMatches
  /\ creating' = [pc |-> IF asDemo THEN "refuse" ELSE "end", demo |-> asDemo,
                  left |-> ToAsk]
  /\ UNCHANGED <<tableVars, request, reopened>>

(* ErrTableTaken: the registry stays as it is.                             *)
AskReal ==
  /\ creating.pc = "refuse" /\ creating.left # <<>>
  /\ LET i == Head(creating.left) IN
       creating' = IF ~demo[i] /\ Running(i) THEN Unlocked
                   ELSE [creating EXCEPT !.left = Tail(@)]
  /\ UNCHANGED <<tableVars, request, reopened>>

EndDemo ==
  /\ creating.pc = "end" /\ creating.left # <<>>
  /\ LET i == Head(creating.left) IN
       ended' = [ended EXCEPT ![i] = @ \/ (demo[i] /\ Running(i))]
  /\ creating' = [creating EXCEPT !.left = Tail(@)]
  /\ UNCHANGED <<order, made, demo, over, request, reopened>>

(* evict starts, or the lock is let go of.                                 *)
Evicting(s) ==
  creating' = IF Len(s) > MaxRetained
              THEN [creating EXCEPT !.pc = "evict", !.left = s]
              ELSE Unlocked

Added == Append(order, made + 1)

Add ==
  /\ creating.pc \in {"refuse", "end"} /\ creating.left = <<>>
  /\ made' = made + 1
  /\ order' = Added
  /\ demo' = [demo EXCEPT ![made + 1] = creating.demo]
  /\ Evicting(order')
  /\ UNCHANGED <<over, ended, request, reopened>>

Droppable_Oldest(i) == TRUE
Droppable(i) == ~Running(i)

(* The oldest match that does not run goes; when all run, all stay.        *)
Evict ==
  /\ creating.pc = "evict"
  /\ IF creating.left = <<>>
     THEN creating' = Unlocked /\ UNCHANGED order
     ELSE LET i == Head(creating.left) IN
          IF Droppable(i)
          THEN /\ order' = RemoveAt(order, Len(order) - Len(creating.left) + 1)
               /\ Evicting(order')
          ELSE creating' = [creating EXCEPT !.left = Tail(@)] /\ UNCHANGED order
  /\ UNCHANGED <<made, demo, over, ended, request, reopened>>

-----------------------------------------------------------------------------
(* Requests.                                                               *)

(* Get under the lock; Current copies the order under it.                  *)
Resolve(c, kind) ==
  /\ request[c] = Idle /\ creating = Unlocked
  /\ IF kind = "press"
     THEN request' = [request EXCEPT ![c] =
                        [pc |-> "scan", kind |-> kind, match |-> 0, left |-> order]]
     ELSE \E i \in ToSet(order) :
            request' = [request EXCEPT ![c] =
                          [pc |-> IF kind \in {"point", "undo"} THEN "check" ELSE "act",
                           kind |-> kind, match |-> i, left |-> <<>>]]
  /\ UNCHANGED <<tableVars, creating, reopened>>

NextLook_Oldest(s) == <<Head(s), Tail(s)>>
NextLook(s) == <<Last(s), Front(s)>>

(* Current, newest first and without the lock; no match: 404.              *)
Scan(c) ==
  /\ request[c].pc = "scan"
  /\ request' = [request EXCEPT ![c] =
       IF @.left = <<>> THEN Idle
       ELSE LET look == NextLook(@.left) IN
            IF Running(look[1])
            THEN [@ EXCEPT !.pc = "check", !.match = look[1], !.left = <<>>]
            ELSE [@ EXCEPT !.left = look[2]]]
  /\ UNCHANGED <<tableVars, creating, reopened>>

(* ingest: 409 for a match ended by hand, and for one won unless the       *)
(* request has an undo.  The page's point asks Running alone.              *)
Check(c) ==
  /\ request[c].pc = "check"
  /\ LET i == request[c].match
         ok == ~ended[i] /\ (~over[i] \/ request[c].kind = "undo")
     IN  request' = [request EXCEPT ![c] = IF ok THEN [@ EXCEPT !.pc = "act"] ELSE Idle]
  /\ UNCHANGED <<tableVars, creating, reopened>>

(* A point scores, and may win the match; one for a match won meanwhile is *)
(* dropped.                                                                *)
Score(c) ==
  /\ request[c].pc = "act" /\ request[c].kind \in {"press", "point"}
  /\ over' = [over EXCEPT ![request[c].match] = TRUE] \/ UNCHANGED over
  /\ request' = [request EXCEPT ![c] = Idle]
  /\ UNCHANGED <<order, made, demo, ended, creating, reopened>>

(* An undo, as an event or from the page: takes the match point back.      *)
Undo(c) ==
  /\ request[c].pc = "act" /\ request[c].kind \in {"undo", "take_back"}
  /\ over' = [over EXCEPT ![request[c].match] = FALSE]
  /\ reopened' = [reopened EXCEPT ![request[c].match] = @ \/ over[request[c].match]]
  /\ request' = [request EXCEPT ![c] = Idle]
  /\ UNCHANGED <<order, made, demo, ended, creating>>

(* EndMatch.                                                               *)
End(c) ==
  /\ request[c].pc = "act" /\ request[c].kind = "end"
  /\ ended' = [ended EXCEPT ![request[c].match] = TRUE]
  /\ request' = [request EXCEPT ![c] = Idle]
  /\ UNCHANGED <<order, made, demo, over, creating, reopened>>

-----------------------------------------------------------------------------
RunningNext == {i \in ToSet(order') : ~ended'[i] /\ ~over'[i]}

Remember ==
  steady' = [c \in Clients |->
               CASE request[c].pc = "scan" -> steady[c] \cap RunningNext
                 [] request[c].pc # "scan" /\ request'[c].pc = "scan" -> RunningNext
                 [] OTHER -> {}]

Step ==
  \/ \E asDemo \in BOOLEAN : Create(asDemo)
  \/ AskReal \/ EndDemo \/ Add \/ Evict
  \/ \E c \in Clients : \/ \E kind \in Kind : Resolve(c, kind)
                        \/ Scan(c)
                        \/ Check(c)
                        \/ Score(c)
                        \/ Undo(c)
                        \/ End(c)

Next == Step /\ Remember

Spec == Init /\ [][Next]_vars

-----------------------------------------------------------------------------
(* Properties.                                                             *)

(* A real match and a demo run side by side only where an undo has         *)
(* reopened the older of them: whatever scores and ends while CreateFor    *)
(* looks from match to match, a demo is not let in beside a running real   *)
(* match, and a real match leaves no demo running (CreateFor, ADR-0008).   *)
RealTakesTheTable ==
  \A i, j \in 1..made :
    Running(i) /\ Running(j) /\ i < j /\ demo[i] # demo[j] => reopened[i]

(* What Current answers is not overtaken by the scan: no newer match that  *)
(* ran during all of it is passed over, and "no match is running" is only  *)
(* answered when none ran during all of it.                                *)
CurrentPassesNoneOver ==
  [][\A c \in Clients : request[c].pc = "scan" /\ request'[c].pc # "scan" =>
       \A i \in steady'[c] : request'[c].pc = "check" /\ i <= request'[c].match]_vars

(* Eviction never takes a match from under its players: one that runs and  *)
(* is no longer to be found was over when it was dropped, and reopened by  *)
(* a request that had found it before (evict, DefaultMaxRetained).         *)
RunningIsKept == \A i \in 1..made : Running(i) => i \in ToSet(order) \/ reopened[i]

-----------------------------------------------------------------------------
(* What comments and decisions say, and the code does not do.              *)

(* CreateFor: "So a running demo and a running real match never exist at   *)
(* once, and Current stays the newest running match."                      *)
OneKindRuns ==
  \A i, j \in 1..made : Running(i) /\ Running(j) => demo[i] = demo[j]

(* ADR-0012: "A match ended by hand takes no events, undo included."       *)
EndedTakesNoEvents ==
  [][\A c \in Clients :
       request[c].pc = "act" /\ request[c].kind \in {"press", "point", "undo"}
         /\ ended[request[c].match] => over' = over]_vars
=============================================================================
