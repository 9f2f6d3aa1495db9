------------------------------- MODULE Browser -------------------------------
(***************************************************************************)
(* internal/pong's driver of a game played on a page (driver.go, play.go)  *)
(* and the relay between the devices that show its table (remote.go).  The *)
(* page reports one press at a time, sends it again when no answer came,   *)
(* and goes away when it likes; the game asks for one press after another  *)
(* and stops for any reason.  Where the match stands is the game's         *)
(* business: here the driver is just asked for a ready or a rally.         *)
(***************************************************************************)
EXTENDS Integers, FiniteSets

CONSTANTS
  Posts,     \* requests for one press, at once
  Watchers,  \* pages that follow the relay
  MaxRally,  \* bound: press numbers
  MaxPosts,  \* bound: requests made
  MaxFrames  \* bound: messages put into the relay

ASSUME BrowserAssumption == MaxRally \in Nat /\ MaxPosts \in Nat /\ MaxFrames \in Nat

VARIABLES
  asks,     \* the driver: "ready" or "rally" while it waits, "plays", "over" or "done"
  pending,  \* the request whose press the game works on, or NoPost
  mu,       \* the request that holds browser.mu, or NoPost
  last,     \* the number of the last press taken
  post,     \* per request: where submit is
  relay,    \* the numbers of the newest frame and sample, and the wake channel's
  watcher,  \* per watcher: where the relay's stream is, what it has sent
  (* History, not in the code. *)
  taken,    \* per number: how often the game has taken a press
  posts     \* bound

browserVars == <<asks, pending, mu, last, post, relay, watcher, taken, posts>>
driverVars  == <<asks, pending, mu, last, post, taken, posts>>

NoPost   == "none"
ASSUME PostsAssumption == NoPost \notin Posts
NotHere  == [pc |-> "none", n |-> 0, kind |-> "ready", gone |-> FALSE]
Asking   == asks \in {"ready", "rally"}
Messages == {"frame", "sample"}
NotOpen  == [pc |-> "away", sent |-> [w \in Messages |-> 0], wake |-> 0]

BrowserInit ==
  /\ asks = "plays" /\ pending = NoPost /\ mu = NoPost /\ last = 0
  /\ post = [r \in Posts |-> NotHere]
  /\ relay = [seq |-> [w \in Messages |-> 0], wake |-> 0]
  /\ watcher = [w \in Watchers |-> NotOpen]
  /\ taken = [n \in 1..MaxRally |-> 0] /\ posts = 0

-----------------------------------------------------------------------------
(* submit, one step from each lock, channel or answer to the next.         *)

(* The page sends its next press, one it has sent before, or skips one.    *)
PagePosts(r) ==
  /\ post[r].pc = "none" /\ posts < MaxPosts /\ posts' = posts + 1
  /\ \E n \in 1..MaxRally, kind \in {"ready", "rally"} :
       post' = [post EXCEPT ![r] = [pc |-> "lock", n |-> n, kind |-> kind, gone |-> FALSE]]
  /\ UNCHANGED <<asks, pending, mu, last, relay, watcher, taken>>

(* It has waited long enough, or is closed.                                *)
PageGoes(r) ==
  /\ post[r].pc # "none" /\ ~post[r].gone /\ post' = [post EXCEPT ![r].gone = TRUE]
  /\ UNCHANGED <<asks, pending, mu, last, relay, watcher, taken, posts>>

Returns(r) == post' = [post EXCEPT ![r] = NotHere]

GetsMu(r) ==
  /\ post[r].pc = "lock" /\ mu = NoPost
  /\ IF post[r].n # last + 1 THEN Returns(r) /\ UNCHANGED mu
     ELSE post' = [post EXCEPT ![r].pc = "offer"] /\ mu' = r
  /\ UNCHANGED <<asks, pending, last, relay, watcher, taken, posts>>

(* The channel is not buffered: next takes the press as it is handed over. *)
(* One of the other kind is answered at once and waited past.              *)
HandsOver(r) ==
  /\ post[r].pc = "offer" /\ Asking
  /\ IF post[r].kind # asks
     THEN Returns(r) /\ mu' = NoPost /\ UNCHANGED <<asks, pending, taken>>
     ELSE /\ pending' = r /\ asks' = "plays" /\ post' = [post EXCEPT ![r].pc = "wait"]
          /\ taken' = [taken EXCEPT ![post[r].n] = @ + 1] /\ UNCHANGED mu
  /\ UNCHANGED <<last, relay, watcher, posts>>

GivesUp(r) ==
  /\ post[r].pc = "offer" /\ (asks = "done" \/ post[r].gone)
  /\ Returns(r) /\ mu' = NoPost
  /\ UNCHANGED <<asks, pending, last, relay, watcher, taken, posts>>

(* Once handed over, the press is the game's, whoever is still there.      *)
IsAnswered_OrGone(r) == post[r].pc = "answered" \/ (post[r].pc = "wait" /\ post[r].gone)
IsAnswered(r) == post[r].pc = "answered"

TakesAnswer(r) ==
  /\ IsAnswered(r) /\ Returns(r) /\ mu' = NoPost
  /\ last' = IF post[r].pc = "answered" THEN post[r].n ELSE last
  /\ UNCHANGED <<asks, pending, relay, watcher, taken, posts>>

-----------------------------------------------------------------------------
(* The game: next answers the press before and asks for one, and stops     *)
(* waiting when the game does; Over answers the last, before done closes.  *)

AnswersPending ==
  /\ post' = IF pending # NoPost /\ post[pending].pc = "wait"
             THEN [post EXCEPT ![pending].pc = "answered"] ELSE post
  /\ pending' = NoPost

AsksNext ==
  /\ asks = "plays" /\ AnswersPending /\ asks' \in {"ready", "rally"}
  /\ UNCHANGED <<mu, last, relay, watcher, taken, posts>>

GameOver ==
  /\ Asking \/ asks = "plays"
  /\ AnswersPending /\ asks' = "over"
  /\ UNCHANGED <<mu, last, relay, watcher, taken, posts>>

DoneCloses ==
  /\ asks = "over" /\ asks' = "done"
  /\ UNCHANGED <<pending, mu, last, post, relay, watcher, taken, posts>>

-----------------------------------------------------------------------------
(* relayBox: the newest message of each sort, and the stream that sends it.*)

Puts(sort) ==
  /\ relay.seq["frame"] + relay.seq["sample"] < MaxFrames
  /\ relay' = [seq |-> [relay.seq EXCEPT ![sort] = @ + 1], wake |-> relay.wake + 1]
  /\ UNCHANGED <<driverVars, watcher>>

Opens(w) ==
  /\ watcher[w].pc = "away" /\ watcher' = [watcher EXCEPT ![w] = [NotOpen EXCEPT !.pc = "reads"]]
  /\ UNCHANGED <<driverVars, relay>>

(* latest: both messages and the wake channel that goes with them.  What   *)
(* it sends of them is what it has read, however long the writes take.     *)
ReadsLatest_WithoutWake(w) == [pc |-> "writes", sent |-> relay.seq, wake |-> -1]
ReadsLatest(w) == [pc |-> "writes", sent |-> relay.seq, wake |-> relay.wake]

Latest(w) ==
  /\ watcher[w].pc = "reads" /\ watcher' = [watcher EXCEPT ![w] = ReadsLatest(w)]
  /\ UNCHANGED <<driverVars, relay>>

Written(w) ==
  /\ watcher[w].pc = "writes"
  /\ watcher' = [watcher EXCEPT ![w].pc = "waits", ![w].wake = IF @ = -1 THEN relay.wake ELSE @]
  /\ UNCHANGED <<driverVars, relay>>

Wakes(w) ==
  /\ watcher[w].pc = "waits" /\ watcher[w].wake # relay.wake
  /\ watcher' = [watcher EXCEPT ![w].pc = "reads"]
  /\ UNCHANGED <<driverVars, relay>>

GoesAway(w) ==
  /\ watcher[w].pc # "away" /\ watcher' = [watcher EXCEPT ![w] = NotOpen]
  /\ UNCHANGED <<driverVars, relay>>

BrowserNext ==
  \/ \E r \in Posts : \/ PagePosts(r) \/ PageGoes(r) \/ GetsMu(r)
                      \/ HandsOver(r) \/ GivesUp(r) \/ TakesAnswer(r)
  \/ AsksNext \/ GameOver \/ DoneCloses
  \/ \E sort \in Messages : Puts(sort)
  \/ \E w \in Watchers : Opens(w) \/ Latest(w) \/ Written(w) \/ Wakes(w) \/ GoesAway(w)

-----------------------------------------------------------------------------
(* Properties.                                                             *)

(* However often the page sends a press again, whoever is still waiting    *)
(* for it, and with the first attempt still under way, the game takes it   *)
(* once and in its turn; and no request is left waiting for an answer when *)
(* the game is over (submit: "a retry arriving while the first is still on *)
(* its way waits for it and is then a duplicate").                         *)
PressTakenOnce ==
  /\ \A n \in 1..MaxRally : taken[n] <= 1 /\ (taken[n] = 1 => \A k \in 1..n : taken[k] = 1)
  /\ asks = "done" => \A r \in Posts : post[r].pc # "wait"

(* A page that waits for the next message has been sent the newest of each *)
(* sort there is, even one that came while it was being written to (relay, *)
(* latest).                                                                *)
RelayShowsTheLatest ==
  \A w \in Watchers :
    watcher[w].pc = "waits" /\ watcher[w].wake = relay.wake => watcher[w].sent = relay.seq
=============================================================================
