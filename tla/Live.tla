-------------------------------- MODULE Live --------------------------------
(***************************************************************************)
(* internal/live and the streams that read it: one match's (api.stream,    *)
(* ui.stream) and the table's, which follows the match that is current     *)
(* (api.liveStream).                                                       *)
(*                                                                         *)
(* A state is told apart by how many transitions came before it.  Observe  *)
(* queues a transition under the scorer's lock; a match started or ended   *)
(* is announced after the registry has changed, with a state read before   *)
(* the hub's lock is taken.  A stream subscribes, looks at the match, and  *)
(* only then reads what is queued.                                         *)
(***************************************************************************)
EXTENDS Integers, Sequences, FiniteSets, FiniteSetsExt, Functions

CONSTANTS
  TableStreams,   \* connections of GET /live/stream
  MatchStreams,   \* connections of GET /matches/{id}/stream
  Buffer,         \* DefaultBuffer
  MaxMatches, MaxVersion,  \* bounds: matches, transitions of all of them,
  MaxConnected             \* streams connected at once

(* A connection is one of either endpoint.                                 *)
ASSUME LiveAssumption ==
  /\ Buffer \in Nat \ {0} /\ MaxMatches \in Nat /\ MaxVersion \in Nat
  /\ TableStreams \cap MatchStreams = {}

VARIABLES
  made,      \* matches created
  version,   \* per match: its transitions so far
  over,      \* per match: its state is complete
  ended,     \* per match: endedAt is set
  saying,    \* announcements that are not out yet
  pc,        \* per stream: where it is
  current,   \* per stream: the match it follows, 0 for none
  events,    \* per stream: its subscription's events
  wrote,     \* per stream: the event it wrote last
  (* History, not in the code. *)
  lost,      \* per stream: an event was dropped
  stale,     \* matches announced with a state that was no longer theirs
  crowded    \* two matches have run at once

matchVars == <<made, version, over, ended>>
streamVars == <<pc, current, events, wrote, lost>>
liveVars == <<matchVars, saying, streamVars, stale, crowded>>

Streams == TableStreams \cup MatchStreams
Ids == 1..MaxMatches
Event == [kind : {"transition", "snapshot", "started", "ended"}, match : Ids, version : 0..MaxVersion,
          complete : BOOLEAN]
NoMatch == [kind |-> "no_match", match |-> 0, version |-> 0, complete |-> FALSE]

LiveTypeOK ==
  /\ made \in 0..MaxMatches /\ version \in [Ids -> 0..MaxVersion]
  /\ over \in [Ids -> BOOLEAN] /\ ended \in [Ids -> BOOLEAN]
  /\ saying \subseteq Event
  /\ pc \in [Streams -> {"away", "follow", "snapshot", "loop"}]
  /\ current \in [Streams -> Ids \cup {0}]
  /\ events \in [Streams -> Seq(Event)] /\ \A s \in Streams : Len(events[s]) <= Buffer
  /\ wrote \in [Streams -> Event \cup {NoMatch}]
  /\ lost \in [Streams -> BOOLEAN] /\ stale \subseteq Ids /\ crowded \in BOOLEAN

LiveInit ==
  /\ made = 0 /\ version = [m \in Ids |-> 0]
  /\ over = [m \in Ids |-> FALSE] /\ ended = [m \in Ids |-> FALSE]
  /\ saying = {}
  /\ pc = [s \in Streams |-> "away"] /\ current = [s \in Streams |-> 0]
  /\ events = [s \in Streams |-> <<>>] /\ wrote = [s \in Streams |-> NoMatch]
  /\ lost = [s \in Streams |-> FALSE] /\ stale = {} /\ crowded = FALSE

StateOf(m, kind) == [kind |-> kind, match |-> m, version |-> version[m], complete |-> over[m]]

(* Registry.Current: the newest match that runs.                           *)
Running == {m \in 1..made : ~over[m] /\ ~ended[m]}
Current == IF Running = {} THEN 0 ELSE Max(Running)

-----------------------------------------------------------------------------
(* The hub.                                                                *)

(* A full subscription loses its oldest event.  One the reader takes from  *)
(* between the two selects loses another all the same.                     *)
Sent_NewestLost(q, ev) ==
  (IF Len(q) < Buffer THEN {Append(q, ev)} ELSE {})
    \cup (IF Len(q) >= Buffer - 1 /\ q # <<>> THEN {q} ELSE {})
Sent(q, ev) ==
  (IF Len(q) < Buffer THEN {Append(q, ev)} ELSE {})
    \cup (IF Len(q) >= Buffer - 1 /\ q # <<>> THEN {Append(Tail(q), ev)} ELSE {})

Gets(s, ev) ==
  /\ pc[s] # "away"
  /\ s \in TableStreams \/ (ev.kind = "transition" /\ current[s] = ev.match)

Publish(ev) ==
  /\ events' \in {q \in [Streams -> UNION {Sent(events[s], ev) \cup {events[s]} : s \in Streams}] :
                   \A s \in Streams : q[s] \in IF Gets(s, ev) THEN Sent(events[s], ev) ELSE {events[s]}}
  /\ lost' = [s \in Streams |-> lost[s] \/ (Gets(s, ev) /\ Len(events'[s]) <= Len(events[s]))]
  /\ UNCHANGED <<pc, current, wrote>>

-----------------------------------------------------------------------------
(* The matches: what the hub is told of.                                   *)

Crowds == crowded' = (crowded \/ Cardinality(Running') > 1)

(* A point, which may win the match, or an undo, which reopens it.         *)
Changes(m) ==
  /\ m <= made /\ SumFunction(version) < MaxVersion
  /\ version' = [version EXCEPT ![m] = @ + 1]
  /\ IF over[m] THEN over' = [over EXCEPT ![m] = FALSE]
     ELSE \E won \in BOOLEAN : over' = [over EXCEPT ![m] = won]
  /\ Publish(StateOf(m, "transition")')
  /\ UNCHANGED <<made, ended, saying, stale>>
  /\ Crowds

(* The registry has the match, or has it ended; its state is read to be    *)
(* announced.                                                              *)
Create ==
  /\ made < MaxMatches
  /\ made' = made + 1
  /\ saying' = saying \cup {StateOf(made', "started")}
  /\ UNCHANGED <<version, over, ended, streamVars, stale>>
  /\ Crowds

End(m) ==
  /\ m <= made /\ ~ended[m]
  /\ ended' = [ended EXCEPT ![m] = TRUE]
  /\ saying' = saying \cup {StateOf(m, "ended")}
  /\ UNCHANGED <<made, version, over, streamVars, stale, crowded>>

Announce(ev) ==
  /\ saying' = saying \ {ev}
  /\ Publish(ev)
  /\ stale' = IF ev.version # version[ev.match] THEN stale \cup {ev.match} ELSE stale
  /\ UNCHANGED <<matchVars, crowded>>

-----------------------------------------------------------------------------
(* The streams.                                                            *)

Wrote(s, ev) == wrote' = [wrote EXCEPT ![s] = ev]

(* Subscribed before anything is read.                                     *)
Subscribe(s) ==
  /\ pc[s] = "away" /\ Cardinality({x \in Streams : pc[x] # "away"}) < MaxConnected
  /\ events' = [events EXCEPT ![s] = <<>>]
  /\ lost' = [lost EXCEPT ![s] = FALSE]

ConnectToTable(s) ==
  /\ s \in TableStreams /\ Subscribe(s)
  /\ pc' = [pc EXCEPT ![s] = "follow"]
  /\ UNCHANGED <<matchVars, saying, stale, crowded, current, wrote>>

ConnectToMatch(s, m) ==
  /\ s \in MatchStreams /\ m <= made /\ Subscribe(s)
  /\ pc' = [pc EXCEPT ![s] = "snapshot"] /\ current' = [current EXCEPT ![s] = m]
  /\ UNCHANGED <<matchVars, saying, stale, crowded, wrote>>

(* follow: what is current now, then its state.                            *)
Follow_OnceThereIsOne(s) ==
  /\ pc[s] = "follow" /\ Current # 0
  /\ current' = [current EXCEPT ![s] = Current] /\ pc' = [pc EXCEPT ![s] = "snapshot"]
  /\ UNCHANGED <<matchVars, saying, stale, crowded, events, lost, wrote>>
Follow(s) ==
  /\ pc[s] = "follow"
  /\ current' = [current EXCEPT ![s] = Current]
  /\ IF Current = 0
     THEN pc' = [pc EXCEPT ![s] = "loop"] /\ Wrote(s, NoMatch)
     ELSE pc' = [pc EXCEPT ![s] = "snapshot"] /\ UNCHANGED wrote
  /\ UNCHANGED <<matchVars, saying, stale, crowded, events, lost>>

Snapshot(s) ==
  /\ pc[s] = "snapshot"
  /\ pc' = [pc EXCEPT ![s] = "loop"]
  /\ Wrote(s, StateOf(current[s], "snapshot"))
  /\ UNCHANGED <<matchVars, saying, stale, crowded, current, events, lost>>

(* The match is done with: what is current is looked up again.             *)
Final_WonOnly(ev) == ev.complete
Final(ev) == ev.complete \/ ev.kind = "ended"

ReadOwn(s) ==
  /\ pc[s] = "loop" /\ events[s] # <<>>
  /\ LET ev == Head(events[s]) IN
       /\ ev.match = current[s]
       /\ Wrote(s, ev)
       /\ pc' = IF s \in TableStreams /\ Final(ev) THEN [pc EXCEPT ![s] = "follow"] ELSE pc
  /\ events' = [events EXCEPT ![s] = Tail(@)]
  /\ UNCHANGED <<matchVars, saying, stale, crowded, current, lost>>

(* Another match's event: its state is the snapshot when it is current.    *)
ReadOther(s) ==
  /\ pc[s] = "loop" /\ events[s] # <<>>
  /\ LET ev == Head(events[s]) IN
       /\ ev.match # current[s]
       /\ IF ev.match = Current
          THEN Wrote(s, [ev EXCEPT !.kind = "snapshot"]) /\ current' = [current EXCEPT ![s] = ev.match]
          ELSE UNCHANGED <<wrote, current>>
  /\ events' = [events EXCEPT ![s] = Tail(@)]
  /\ UNCHANGED <<matchVars, saying, stale, crowded, pc, lost>>

(* The client has gone, or a write to it failed.                           *)
Leave(s) ==
  /\ pc[s] # "away"
  /\ pc' = [pc EXCEPT ![s] = "away"] /\ current' = [current EXCEPT ![s] = 0]
  /\ events' = [events EXCEPT ![s] = <<>>] /\ Wrote(s, NoMatch)
  /\ lost' = [lost EXCEPT ![s] = FALSE]
  /\ UNCHANGED <<matchVars, saying, stale, crowded>>

LiveNext ==
  \/ Create
  \/ \E m \in Ids : Changes(m) \/ End(m)
  \/ \E ev \in saying : Announce(ev)
  \/ \E s \in Streams : \/ ConnectToTable(s)
                        \/ \E m \in Ids : ConnectToMatch(s, m)
                        \/ Follow(s) \/ Snapshot(s) \/ ReadOwn(s) \/ ReadOther(s)
                        \/ Leave(s)

(* A connected stream's goroutine runs.                                    *)
LiveFairness == \A s \in Streams : WF_liveVars(Follow(s) \/ Snapshot(s) \/ ReadOwn(s) \/ ReadOther(s))

LiveSpec == LiveInit /\ [][LiveNext]_liveVars
LiveFairSpec == LiveSpec /\ LiveFairness

-----------------------------------------------------------------------------
(* Properties.                                                             *)

CaughtUp(s) == pc[s] = "loop" /\ events[s] = <<>>

(* A stream of one match that has read what it was sent shows the score as *)
(* it is now, however far behind it fell and whatever it lost: the newest  *)
(* state is never the one dropped, and none falls between the subscription *)
(* and the snapshot.  So does the table's stream that lost nothing, unless *)
(* a point fell between reading the state of a started or ended match and  *)
(* announcing it (stream, liveStream, send).                               *)
ScoreIsNow ==
  /\ \A s \in MatchStreams : CaughtUp(s) => wrote[s].version = version[current[s]]
  /\ \A s \in TableStreams :
       CaughtUp(s) /\ ~lost[s] /\ wrote[s].match \notin stale \cup {0}
         => wrote[s].version = version[wrote[s].match]

(* The table's stream that has read everything, and lost nothing, never    *)
(* stays on a match that was won or ended, whatever was undone and started *)
(* meanwhile; and while matches run one at a time it shows the one that    *)
(* runs (liveStream, tableTransition).                                     *)
TableIsFollowed ==
  \A s \in TableStreams : CaughtUp(s) /\ ~lost[s] /\ saying = {} =>
    /\ wrote[s].match \in Running \cup {0}
    /\ ~crowded => wrote[s].match = Current

(* A stream that stays connected catches up whenever the matches pause:    *)
(* no event sends it round in circles (liveStream, stream).                *)
CatchesUp == \A s \in Streams : pc[s] # "away" ~> (CaughtUp(s) \/ pc[s] = "away")

(* livestream.go: "this follows whatever match is current": with nothing   *)
(* left to read, the table's stream shows the current match.               *)
FollowsTheCurrent ==
  \A s \in TableStreams :
    CaughtUp(s) /\ ~lost[s] /\ saying = {} => wrote[s].match = Current
=============================================================================
