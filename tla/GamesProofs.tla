---------------------------- MODULE GamesProofs -----------------------------
(***************************************************************************)
(* Theorems about the demo player's games: a page's presses and the relay, *)
(* for every number of requests, presses, pages and messages, the button   *)
(* check, for every format and every number of strays, and a game of the   *)
(* bots, for every format and every number of faults and of lost answers.  *)
(***************************************************************************)
EXTENDS Games, FiniteSetTheorems, SequenceTheorems, WellFoundedInduction, NaturalsInduction, TLAPS

-----------------------------------------------------------------------------
(* The driver of a game on a page.                                         *)

Post == [pc : {"none", "lock", "offer", "wait", "answered"}, n : 0..MaxRally,
         kind : {"ready", "rally"}, gone : BOOLEAN]

DriverType ==
  /\ asks \in {"plays", "ready", "rally", "over", "done"}
  /\ pending \in Posts \cup {NoPost} /\ mu \in Posts \cup {NoPost} /\ last \in Nat
  /\ post \in [Posts -> Post]
  /\ taken \in [1..MaxRally -> Nat]

(* Whoever holds browser.mu is past the look at the last number, and it    *)
(* alone is.                                                               *)
MuIsHeld == \A r \in Posts : post[r].pc \in {"offer", "wait", "answered"} <=> mu = r

(* The press the game works on is the one whose request waits.             *)
PendingWaits ==
  /\ \A r \in Posts : post[r].pc = "wait" <=> pending = r
  /\ pending # NoPost => asks = "plays"

(* The holder's press is the next one, and all up to the last are taken.   *)
HandedOver == mu # NoPost /\ post[mu].pc \in {"wait", "answered"}
InTurn ==
  /\ mu # NoPost => post[mu].n = last + 1
  /\ \A n \in 1..MaxRally : taken[n] = IF n <= last \/ (n = last + 1 /\ HandedOver) THEN 1 ELSE 0

DriverInv == DriverType /\ MuIsHeld /\ PendingWaits /\ InTurn

LEMMA DriverInit ==
  ASSUME BrowserInit
  PROVE  DriverInv
<1>1. NotHere \in Post
  BY BrowserAssumption DEF NotHere, Post
<1>2. DriverType
  BY <1>1 DEF BrowserInit, DriverType
<1>3. \A r \in Posts : post[r].pc = "none"
  BY DEF BrowserInit, NotHere
<1>4. MuIsHeld /\ PendingWaits
  BY <1>3, PostsAssumption DEF BrowserInit, MuIsHeld, PendingWaits
<1>5. InTurn
  BY DEF BrowserInit, InTurn, HandedOver
<1>6. QED
  BY <1>2, <1>4, <1>5 DEF DriverInv

(* A request that is nowhere near the lock changes, or one that is keeps   *)
(* its place.                                                              *)
LEMMA OnePostMoves ==
  ASSUME DriverInv, NEW r \in Posts, NEW to \in Post, post' = [post EXCEPT ![r] = to],
         UNCHANGED <<asks, pending, mu, last, taken>>,
         \/ to.pc = post[r].pc /\ to.n = post[r].n
         \/ to.pc \notin {"offer", "wait", "answered"} /\ post[r].pc \notin {"offer", "wait", "answered"}
  PROVE  DriverInv'
<1>1. DriverType'
  BY DEF DriverInv, DriverType
<1>2. \A q \in Posts : post'[q] = IF q = r THEN to ELSE post[q]
  BY DEF DriverInv, DriverType
<1>3. MuIsHeld'
  BY <1>2 DEF DriverInv, MuIsHeld
<1>4. PendingWaits'
  BY <1>2 DEF DriverInv, PendingWaits
<1>5. mu # NoPost => mu \in Posts /\ post[mu].pc \in {"offer", "wait", "answered"}
  BY DEF DriverInv, DriverType, MuIsHeld
<1>6. mu # NoPost => post'[mu].n = post[mu].n /\ post'[mu].pc = post[mu].pc
  BY <1>2, <1>5
<1>7. HandedOver' <=> HandedOver
  BY <1>6 DEF HandedOver
<1>8. InTurn'
  BY <1>6, <1>7 DEF DriverInv, InTurn
<1>9. QED
  BY <1>1, <1>3, <1>4, <1>8 DEF DriverInv

LEMMA PageStepsKeep ==
  ASSUME DriverInv, NEW r \in Posts, PagePosts(r) \/ PageGoes(r)
  PROVE  DriverInv'
<1>1. UNCHANGED <<asks, pending, mu, last, taken>>
  BY DEF PagePosts, PageGoes
<1>2. post[r] \in Post
  BY DEF DriverInv, DriverType
<1>3. CASE PagePosts(r)
  <2>1. PICK n \in 1..MaxRally, kind \in {"ready", "rally"} :
          post' = [post EXCEPT ![r] = [pc |-> "lock", n |-> n, kind |-> kind, gone |-> FALSE]]
    BY <1>3 DEF PagePosts
  <2> DEFINE to == [pc |-> "lock", n |-> n, kind |-> kind, gone |-> FALSE]
  <2>2. to \in Post /\ to.pc = "lock"
    BY BrowserAssumption DEF Post
  <2> HIDE DEF to
  <2>3. post[r].pc = "none"
    BY <1>3 DEF PagePosts
  <2>4. post' = [post EXCEPT ![r] = to]
    BY <2>1 DEF to
  <2>5. QED
    BY <1>1, <2>2, <2>3, <2>4, OnePostMoves
<1>4. CASE PageGoes(r)
  <2> DEFINE to == [post[r] EXCEPT !.gone = TRUE]
  <2>1. to \in Post /\ to.pc = post[r].pc /\ to.n = post[r].n
    BY <1>2 DEF Post
  <2>2. post' = [post EXCEPT ![r] = to]
    BY <1>4 DEF PageGoes
  <2> HIDE DEF to
  <2>3. QED
    BY <1>1, <2>1, <2>2, OnePostMoves
<1>5. QED
  BY <1>3, <1>4

LEMMA GetsMuKeeps ==
  ASSUME DriverInv, NEW r \in Posts, GetsMu(r)
  PROVE  DriverInv'
<1>1. post[r].pc = "lock" /\ mu = NoPost /\ post[r] \in Post /\ NoPost \notin Posts
  BY PostsAssumption DEF GetsMu, DriverInv, DriverType
<1>2. CASE post[r].n # last + 1
  <2>1. NotHere \in Post /\ NotHere.pc = "none"
    BY BrowserAssumption DEF NotHere, Post
  <2>2. post' = [post EXCEPT ![r] = NotHere] /\ UNCHANGED <<asks, pending, mu, last, taken>>
    BY <1>2 DEF GetsMu, Returns
  <2>3. QED
    BY <1>1, <2>1, <2>2, OnePostMoves
<1>3. CASE post[r].n = last + 1
  <2> DEFINE to == [post[r] EXCEPT !.pc = "offer"]
  <2>1. to \in Post /\ to.pc = "offer" /\ to.n = last + 1
    BY <1>1, <1>3 DEF Post
  <2>2. post' = [post EXCEPT ![r] = to] /\ mu' = r /\ UNCHANGED <<asks, pending, last, taken>>
    BY <1>3 DEF GetsMu
  <2> HIDE DEF to
  <2>3. DriverType'
    BY <2>1, <2>2 DEF DriverInv, DriverType
  <2>4. \A q \in Posts : post'[q] = IF q = r THEN to ELSE post[q]
    BY <2>2 DEF DriverInv, DriverType
  <2>5. MuIsHeld'
    BY <1>1, <2>1, <2>2, <2>4 DEF DriverInv, MuIsHeld
  <2>6. PendingWaits'
    BY <1>1, <2>1, <2>2, <2>4 DEF DriverInv, PendingWaits
  <2>7. ~HandedOver /\ ~HandedOver'
    BY <1>1, <2>1, <2>2, <2>4 DEF HandedOver
  <2>8. InTurn'
    BY <2>1, <2>2, <2>4, <2>7 DEF DriverInv, InTurn
  <2>9. QED
    BY <2>3, <2>5, <2>6, <2>8 DEF DriverInv
<1>4. QED
  BY <1>2, <1>3

(* The holder leaves, answered or not.                                     *)
LEMMA HolderLeaves ==
  ASSUME DriverInv, NEW r \in Posts, mu = r, mu' = NoPost, post' = [post EXCEPT ![r] = NotHere],
         post[r].pc # "wait", UNCHANGED <<asks, pending, taken>>,
         last' = IF post[r].pc = "answered" THEN post[r].n ELSE last
  PROVE  DriverInv'
<1>1. post[r] \in Post /\ NoPost \notin Posts /\ last \in Nat
  BY PostsAssumption DEF DriverInv, DriverType
<1>2. NotHere \in Post /\ NotHere.pc = "none"
  BY BrowserAssumption DEF NotHere, Post
<1>3. post[r].n = last + 1 /\ (last' = last \/ last' = last + 1)
  BY <1>1 DEF DriverInv, InTurn
<1>4. DriverType'
  BY <1>1, <1>2, <1>3 DEF DriverInv, DriverType
<1>5. \A q \in Posts : post'[q] = IF q = r THEN NotHere ELSE post[q]
  BY DEF DriverInv, DriverType
<1>6. MuIsHeld'
  BY <1>1, <1>2, <1>5 DEF DriverInv, MuIsHeld
<1>7. PendingWaits'
  BY <1>2, <1>5 DEF DriverInv, PendingWaits
<1>8. /\ ~HandedOver'
      /\ HandedOver <=> post[r].pc = "answered"
  BY <1>1 DEF HandedOver
<1>9. ASSUME NEW n \in 1..MaxRally
      PROVE  taken'[n] = IF n <= last' \/ (n = last' + 1 /\ HandedOver') THEN 1 ELSE 0
  <2>1. taken[n] = IF n <= last \/ (n = last + 1 /\ HandedOver) THEN 1 ELSE 0
    BY DEF DriverInv, InTurn
  <2>2. n \in Int
    OBVIOUS
  <2>3. n <= last' <=> n <= last \/ (n = last + 1 /\ HandedOver)
    BY <1>1, <1>3, <1>8, <2>2
  <2>4. QED
    BY <1>8, <2>1, <2>3
<1>10. InTurn'
  BY <1>9 DEF InTurn
<1>11. QED
  BY <1>4, <1>6, <1>7, <1>10 DEF DriverInv

LEMMA HolderLeavesKeeps ==
  ASSUME DriverInv, NEW r \in Posts, GivesUp(r) \/ TakesAnswer(r)
  PROVE  DriverInv'
<1>1. /\ post[r].pc \in {"offer", "answered"} /\ mu' = NoPost /\ post' = [post EXCEPT ![r] = NotHere]
      /\ UNCHANGED <<asks, pending, taken>>
      /\ last' = IF post[r].pc = "answered" THEN post[r].n ELSE last
  BY DEF GivesUp, TakesAnswer, IsAnswered, Returns
<1>2. mu = r
  BY <1>1 DEF DriverInv, MuIsHeld
<1>3. QED
  BY <1>1, <1>2, HolderLeaves

LEMMA HandsOverKeeps ==
  ASSUME DriverInv, NEW r \in Posts, HandsOver(r)
  PROVE  DriverInv'
<1>1. /\ post[r].pc = "offer" /\ mu = r /\ asks \in {"ready", "rally"} /\ last' = last
      /\ post[r] \in Post /\ last \in Nat /\ NoPost \notin Posts
  BY PostsAssumption DEF HandsOver, Asking, DriverInv, DriverType, MuIsHeld
<1>2. CASE post[r].kind # asks
  <2>1. post' = [post EXCEPT ![r] = NotHere] /\ mu' = NoPost /\ UNCHANGED <<asks, pending, taken>>
    BY <1>2 DEF HandsOver, Returns
  <2>2. QED
    BY <1>1, <2>1, HolderLeaves
<1>3. CASE post[r].kind = asks
  <2> DEFINE to == [post[r] EXCEPT !.pc = "wait"]
             k == post[r].n
  <2>1. to \in Post /\ to.pc = "wait" /\ to.n = k /\ k = last + 1 /\ k \in 1..MaxRally
    BY <1>1, BrowserAssumption DEF Post, DriverInv, InTurn
  <2>2. /\ post' = [post EXCEPT ![r] = to] /\ UNCHANGED mu /\ pending' = r /\ asks' = "plays"
        /\ taken' = [taken EXCEPT ![k] = @ + 1]
    BY <1>3 DEF HandsOver
  <2> HIDE DEF to, k
  <2>3. \A q \in Posts : post'[q] = IF q = r THEN to ELSE post[q]
    BY <2>2 DEF DriverInv, DriverType
  <2>4. \A n \in 1..MaxRally : taken[n] \in Nat /\ taken'[n] = IF n = k THEN taken[n] + 1 ELSE taken[n]
    BY <2>2 DEF DriverInv, DriverType
  <2>5. DriverType'
    BY <1>1, <2>1, <2>2, <2>4 DEF DriverInv, DriverType
  <2>6. MuIsHeld'
    BY <1>1, <2>1, <2>2, <2>3 DEF DriverInv, MuIsHeld
  <2>7. pending = NoPost
    BY <1>1 DEF DriverInv, PendingWaits
  <2>8. PendingWaits'
    BY <1>1, <2>1, <2>2, <2>3, <2>7 DEF DriverInv, PendingWaits
  <2>9. ~HandedOver /\ HandedOver'
    BY <1>1, <2>1, <2>2, <2>3 DEF HandedOver
  <2>10. InTurn'
    <3>1. \A n \in 1..MaxRally : taken[n] = IF n <= last THEN 1 ELSE 0
      BY <2>9 DEF DriverInv, InTurn
    <3>2. \A n \in 1..MaxRally : taken'[n] = IF n <= last \/ n = last + 1 THEN 1 ELSE 0
      BY <1>1, <2>1, <2>4, <3>1
    <3>3. post'[mu'].n = last' + 1
      BY <1>1, <2>1, <2>2, <2>3
    <3>4. QED
      BY <1>1, <2>9, <3>2, <3>3 DEF InTurn
  <2>11. QED
    BY <2>5, <2>6, <2>8, <2>10 DEF DriverInv
<1>4. QED
  BY <1>2, <1>3

LEMMA AnswersKeep ==
  ASSUME DriverInv, AnswersPending, asks' \in {"ready", "rally", "over"}, UNCHANGED <<mu, last, taken>>
  PROVE  DriverInv' /\ pending' = NoPost
<1>1. pending' = NoPost /\ NoPost \notin Posts /\ pending \in Posts \cup {NoPost} /\ post \in [Posts -> Post]
  BY PostsAssumption DEF AnswersPending, DriverInv, DriverType
<1>2. CASE pending = NoPost
  <2>1. post' = post
    BY <1>2 DEF AnswersPending
  <2>2. QED
    BY <1>1, <1>2, <2>1 DEF DriverInv, DriverType, MuIsHeld, PendingWaits, InTurn, HandedOver
<1>3. CASE pending # NoPost
  <2> DEFINE r == pending
             to == [post[r] EXCEPT !.pc = "answered"]
  <2>1. r \in Posts /\ post[r].pc = "wait" /\ mu = r
    BY <1>1, <1>3 DEF DriverInv, PendingWaits, MuIsHeld
  <2>2. post' = [post EXCEPT ![r] = to]
    BY <1>3, <2>1 DEF AnswersPending
  <2>3. to \in Post /\ to.pc = "answered" /\ to.n = post[r].n
    BY <1>1, <2>1 DEF Post
  <2> HIDE DEF to
  <2>4. \A q \in Posts : post'[q] = IF q = r THEN to ELSE post[q]
    BY <1>1, <2>2
  <2>5. DriverType'
    BY <1>1, <2>2, <2>3 DEF DriverInv, DriverType
  <2>6. MuIsHeld'
    BY <2>1, <2>3, <2>4 DEF DriverInv, MuIsHeld
  <2>7. PendingWaits'
    BY <1>1, <2>1, <2>3, <2>4 DEF DriverInv, PendingWaits
  <2>8. HandedOver' /\ HandedOver
    BY <1>1, <2>1, <2>3, <2>4 DEF HandedOver
  <2>9. InTurn'
    BY <2>1, <2>3, <2>4, <2>8 DEF DriverInv, InTurn
  <2>10. QED
    BY <1>1, <2>5, <2>6, <2>7, <2>9 DEF DriverInv
<1>4. QED
  BY <1>2, <1>3

RelaySteps ==
  \/ \E sort \in Messages : Puts(sort)
  \/ \E w \in Watchers : Opens(w) \/ Latest(w) \/ Written(w) \/ Wakes(w) \/ GoesAway(w)

LEMMA DriverStep ==
  ASSUME DriverInv, [BrowserNext]_browserVars
  PROVE  DriverInv'
<1>1. ASSUME UNCHANGED driverVars PROVE DriverInv'
  BY <1>1 DEF driverVars, DriverInv, DriverType, MuIsHeld, PendingWaits, InTurn, HandedOver
<1>2. CASE UNCHANGED browserVars \/ RelaySteps
  <2>1. UNCHANGED driverVars
    BY <1>2 DEF browserVars, driverVars, RelaySteps, Puts, Opens, Latest, Written, Wakes, GoesAway
  <2>2. QED
    BY <1>1, <2>1
<1>3. CASE AsksNext \/ GameOver
  BY <1>3, AnswersKeep DEF AsksNext, GameOver
<1>4. CASE DoneCloses
  <2>1. UNCHANGED <<pending, mu, last, post, taken>> /\ asks = "over" /\ asks' = "done"
    BY <1>4 DEF DoneCloses
  <2>2. QED
    BY <2>1 DEF DriverInv, DriverType, MuIsHeld, PendingWaits, InTurn, HandedOver
<1>5. ASSUME NEW r \in Posts, PagePosts(r) \/ PageGoes(r) \/ GetsMu(r) \/ HandsOver(r) \/ GivesUp(r) \/ TakesAnswer(r)
      PROVE  DriverInv'
  BY <1>5, PageStepsKeep, GetsMuKeeps, HandsOverKeeps, HolderLeavesKeeps
<1>6. QED
  BY <1>2, <1>3, <1>4, <1>5 DEF BrowserNext, RelaySteps

-----------------------------------------------------------------------------
(* The relay.                                                              *)

(* What a watcher has read is the newest until the channel it read with it *)
(* is closed.                                                              *)
RelayInv ==
  /\ relay.wake \in Nat
  /\ watcher \in [Watchers -> [pc : {"away", "reads", "writes", "waits"}, sent : [Messages -> Nat], wake : Nat]]
  /\ relay \in [seq : [Messages -> Nat], wake : Nat]
  /\ \A w \in Watchers : watcher[w].pc \in {"writes", "waits"} =>
       /\ watcher[w].wake <= relay.wake
       /\ watcher[w].wake = relay.wake => watcher[w].sent = relay.seq

LEMMA RelayStep ==
  ASSUME RelayInv, [BrowserNext]_browserVars
  PROVE  RelayInv'
<1> DEFINE Watcher == [pc : {"away", "reads", "writes", "waits"}, sent : [Messages -> Nat], wake : Nat]
<1>1. ASSUME UNCHANGED <<relay, watcher>> PROVE RelayInv'
  BY <1>1 DEF RelayInv
<1>2. ASSUME NEW sort \in Messages, Puts(sort) PROVE RelayInv'
  <2> DEFINE seq == [relay.seq EXCEPT ![sort] = @ + 1]
  <2>1. relay.seq \in [Messages -> Nat] /\ relay.wake \in Nat
    BY DEF RelayInv
  <2>2. seq \in [Messages -> Nat]
    BY <2>1
  <2>3. relay' = [seq |-> seq, wake |-> relay.wake + 1] /\ UNCHANGED watcher
    BY <1>2 DEF Puts
  <2> HIDE DEF seq
  <2>4. relay' \in [seq : [Messages -> Nat], wake : Nat] /\ relay'.wake = relay.wake + 1 /\ relay'.wake \in Nat
    BY <2>1, <2>2, <2>3
  <2>5. ASSUME NEW w \in Watchers, watcher[w].pc \in {"writes", "waits"}
        PROVE  watcher[w].wake <= relay'.wake /\ watcher[w].wake # relay'.wake
    <3>1. watcher[w].wake \in Nat /\ watcher[w].wake <= relay.wake
      BY <2>5 DEF RelayInv
    <3>2. QED
      BY <2>1, <2>4, <3>1
  <2>6. QED
    BY <2>3, <2>4, <2>5 DEF RelayInv
<1>3. ASSUME NEW w \in Watchers, Opens(w) \/ Latest(w) \/ Written(w) \/ Wakes(w) \/ GoesAway(w)
      PROVE  RelayInv'
  <2>1. relay' = relay /\ relay.seq \in [Messages -> Nat] /\ relay.wake \in Nat /\ watcher[w] \in Watcher
    BY <1>3 DEF Opens, Latest, Written, Wakes, GoesAway, RelayInv
  <2>2. PICK to \in Watcher :
          /\ watcher' = [watcher EXCEPT ![w] = to]
          /\ to.pc \in {"writes", "waits"} => to.wake <= relay.wake /\ (to.wake = relay.wake => to.sent = relay.seq)
    <3>1. NotOpen \in Watcher /\ NotOpen.pc = "away"
      BY DEF NotOpen
    <3>2. CASE GoesAway(w)
      BY <3>1, <3>2 DEF GoesAway
    <3>3. CASE Opens(w)
      <4>1. [NotOpen EXCEPT !.pc = "reads"] \in Watcher /\ [NotOpen EXCEPT !.pc = "reads"].pc = "reads"
        BY <3>1
      <4>2. QED
        BY <3>3, <4>1 DEF Opens
    <3>4. CASE Latest(w)
      <4> DEFINE to == ReadsLatest(w)
      <4>1. to \in Watcher /\ to.sent = relay.seq /\ to.wake = relay.wake
        BY <2>1 DEF ReadsLatest
      <4>2. watcher' = [watcher EXCEPT ![w] = to]
        BY <3>4 DEF Latest
      <4> HIDE DEF to
      <4>3. to.wake <= relay.wake
        BY <2>1, <4>1
      <4>4. QED
        BY <4>1, <4>2, <4>3
    <3>5. CASE Written(w)
      <4> DEFINE to == [watcher[w] EXCEPT !.pc = "waits"]
      <4>1. watcher[w].wake # -1 /\ watcher[w].pc = "writes"
        BY <2>1, <3>5 DEF Written
      <4>2. to \in Watcher /\ to.wake = watcher[w].wake /\ to.sent = watcher[w].sent
        BY <2>1
      <4>3. watcher' = [watcher EXCEPT ![w] = to]
        BY <2>1, <3>5, <4>1 DEF Written
      <4> HIDE DEF to
      <4>4. QED
        BY <4>1, <4>2, <4>3 DEF RelayInv
    <3>6. CASE Wakes(w)
      <4> DEFINE to == [watcher[w] EXCEPT !.pc = "reads"]
      <4>1. to \in Watcher /\ to.pc = "reads"
        BY <2>1
      <4>2. watcher' = [watcher EXCEPT ![w] = to]
        BY <3>6 DEF Wakes
      <4> HIDE DEF to
      <4>3. QED
        BY <4>1, <4>2
    <3>7. QED
      BY <1>3, <3>2, <3>3, <3>4, <3>5, <3>6
  <2>3. watcher' \in [Watchers -> Watcher] /\ \A v \in Watchers : watcher'[v] = IF v = w THEN to ELSE watcher[v]
    BY <2>2 DEF RelayInv
  <2>4. QED
    BY <2>1, <2>2, <2>3 DEF RelayInv
<1>4. QED
  <2>1. BrowserNext => UNCHANGED <<relay, watcher>> \/ RelaySteps
    BY DEF BrowserNext, RelaySteps, PagePosts, PageGoes, GetsMu, HandsOver, GivesUp, TakesAnswer,
       AsksNext, GameOver, DoneCloses
  <2>2. QED
    BY <1>1, <1>2, <1>3, <2>1 DEF RelaySteps, browserVars

-----------------------------------------------------------------------------
(* Any game moves its own part only.                                       *)

LEMMA BrowserMoves ==
  ASSUME [GamesNext]_gamesVars
  PROVE  [BrowserNext]_browserVars
BY DEF GamesNext, gamesVars, Plays, browserVars

(* A page's press is taken once and in its turn, however many requests     *)
(* carry it and whoever of them has gone, and nobody waits for an answer   *)
(* when the game is over (driver.go, submit, next and Over).               *)
THEOREM GamesPressTakenOnce == GamesSpec => []PressTakenOnce
<1>1. GamesInit => DriverInv
  BY DriverInit DEF GamesInit
<1>2. DriverInv /\ [GamesNext]_gamesVars => DriverInv'
  BY BrowserMoves, DriverStep
<1>3. DriverInv => PressTakenOnce
  <2> SUFFICES ASSUME DriverInv PROVE PressTakenOnce
    OBVIOUS
  <2>1. ASSUME NEW n \in 1..MaxRally
        PROVE  taken[n] <= 1 /\ (taken[n] = 1 => \A k \in 1..n : taken[k] = 1)
    <3>1. \A k \in 1..MaxRally : taken[k] = IF k <= last \/ (k = last + 1 /\ HandedOver) THEN 1 ELSE 0
      BY DEF DriverInv, InTurn
    <3>2. last \in Nat /\ MaxRally \in Nat
      BY BrowserAssumption DEF DriverInv, DriverType
    <3>3. ASSUME taken[n] = 1, NEW k \in 1..n PROVE taken[k] = 1
      <4>1. k \in 1..MaxRally /\ (n <= last \/ (n = last + 1 /\ HandedOver))
        BY <3>1, <3>2, <3>3
      <4>2. k <= last \/ (k = last + 1 /\ HandedOver)
        BY <3>2, <4>1
      <4>3. QED
        BY <3>1, <4>1, <4>2
    <3>4. QED
      BY <3>1, <3>3
  <2>2. ASSUME asks = "done", NEW r \in Posts PROVE post[r].pc # "wait"
    BY <2>2, PostsAssumption DEF DriverInv, PendingWaits
  <2>3. QED
    BY <2>1, <2>2 DEF PressTakenOnce
<1>4. QED
  BY <1>1, <1>2, <1>3, PTL DEF GamesSpec

(* A page that waits for the next message has the newest of each sort,     *)
(* whatever came while it was written to (remote.go, relay and latest).    *)
THEOREM GamesRelayShowsTheLatest == GamesSpec => []RelayShowsTheLatest
<1>1. GamesInit => RelayInv
  BY DEF GamesInit, BrowserInit, RelayInv, NotOpen, Messages
<1>2. RelayInv /\ [GamesNext]_gamesVars => RelayInv'
  BY BrowserMoves, RelayStep
<1>3. RelayInv => RelayShowsTheLatest
  BY DEF RelayInv, RelayShowsTheLatest
<1>4. QED
  BY <1>1, <1>2, <1>3, PTL DEF GamesSpec

-----------------------------------------------------------------------------
(* What the button check knows.                                            *)

PhaseName == {"complete", "warmup", "serve_rally", "change_ends", "playing"}
Foreign   == {"ended", "displaced", "blind"}
OwnKind   == {"confirmed", "warmup_over", "ends_changed", "serve_decided", "match_won", "set_won",
              "point", "undo"}

(* A match as presses alone make it.                                       *)
Sound(x) ==
  /\ x \in Match /\ x.pressed # Half
  /\ x.endsPending => ChangeEnds /\ x.setIndex > 0
  /\ x.warmup => x.setIndex = 0
  /\ x.firstServer = None => x.setIndex = 0 /\ x.points = Love
  /\ ~x.complete => \A p \in Player : ~Takes(x.points, p)

Event == [kind : OwnKind \cup Foreign \cup {"snapshot"}, state : {x \in Match : Sound(x)}]

(* What a press of h makes of x.                                           *)
After(x, h) == Pressed([m |-> x, undo |-> <<>>, high |-> 0], h).m

CheckType ==
  /\ check \in [pc : {"top", "prompt", "gap"} \cup CheckOver,
                prompt : [kind : {"none", "ready", "rally"}, phase : PhaseName \cup {"none"},
                          half : Half \cup {Nowhere}],
                prompts : Nat, missed : Nat, answered : Half \cup {Nowhere},
                winner : Half, changed : BOOLEAN, after : SUBSET Half]
  /\ check.pc = "prompt" => check.prompt.half \in Half
  /\ strays \in Nat /\ heeded \in Nat /\ undone \in BOOLEAN /\ shown \subseteq Half \X Player

(* While nobody has taken a point back: the states on the stream come in   *)
(* the order they were made in, between the game's last and zaehlwerk's.   *)
InOrder(t, x, y) ==
  /\ t \in Seq(Event) /\ Sound(x) /\ Sound(y)
  /\ x.setIndex <= y.setIndex
  /\ \A k \in 1..Len(t) :
       /\ x.setIndex <= t[k].state.setIndex /\ t[k].state.setIndex <= y.setIndex
       /\ \A l \in 1..k : t[l].state.setIndex <= t[k].state.setIndex
       /\ t[k].kind = "ends_changed" => t[k].state.setIndex > 0

StreamInv == ~undone => InOrder(table, st, m)

(* What the plan has noted it has seen, and it is through with that alone. *)
PlanInv ==
  /\ \A h \in check.after : \E p \in Player : <<h, p>> \in shown
  /\ ~undone =>
       /\ check.changed => st.setIndex > 0
       /\ check.pc = "checked" => st.complete \/ (check.changed /\ check.after = Half)

OwnOn(t) == \E k \in 1..Len(t) : t[k].kind \in OwnKind

(* Everybody has done as asked: on the stream is at most one press, the    *)
(* one of the prompt.                                                      *)
CleanStream ==
  IF OwnOn(table)
  THEN /\ check.pc = "prompt" /\ heeded = check.prompts
       /\ m = After(st, check.prompt.half) /\ m # st /\ ~st.complete
       /\ \A k, l \in 1..Len(table) :
            table[k].kind \in OwnKind /\ table[l].kind \in OwnKind => k = l
       /\ \A k \in 1..Len(table) :
            table[k].kind \in OwnKind => table[k] = [kind |-> Transition(st, m), state |-> m]
  ELSE m = st

CleanInv ==
  /\ ~undone /\ outcomes = {} /\ check.missed = 0 /\ heeded <= check.prompts
  /\ check.pc \notin CheckOver => CleanStream
  /\ check.pc = "prompt" => check.prompt \in Prompts
  /\ \A k \in 1..Len(table) : table[k].kind = "snapshot" => table[k].state = st /\ k = 1

(* The player at h in the first set.                                       *)
Home(h) == IF h = "left" THEN "a" ELSE "b"

(* The first set, till the other half has lost it with a point to its      *)
(* name; the change of ends; and one point at either half.                 *)
FirstSet ==
  /\ ~check.changed /\ check.after = {}
  /\ \A h \in Half : st.points[Home(h)] > 0 => <<h, Home(h)>> \in shown
  /\ ~st.complete =>
       /\ st.points[Home(OtherHalf(check.winner))] <= EnoughLost
       /\ st.points[Home(OtherHalf(check.winner))] = 0 => st.points[Home(check.winner)] <= FewWon

SecondSet ==
  IF check.changed
  THEN /\ ChangeEnds /\ st.setIndex = 1 /\ Phase(st) = "playing"
       /\ \A h \in Half : st.points[PlayerAt(st, h)] = IF h \in check.after THEN 1 ELSE 0
       /\ \A h \in check.after : <<h, PlayerAt(st, h)>> \in shown
  ELSE /\ check.after = {}
       /\ ChangeEnds /\ ~st.complete => st.setIndex = 1 /\ st.endsPending /\ st.points = Love

ShownInv ==
  IF st.setIndex = 0 THEN FirstSet
  ELSE SecondSet /\ \A h \in Half : <<h, Home(h)>> \in shown

CheckInv ==
  /\ CheckType /\ StreamInv /\ PlanInv
  /\ strays = 0 => CleanInv /\ ShownInv

-----------------------------------------------------------------------------
(* What a press makes of a match.                                          *)

LEMMA PlayersAreTwo ==
  ASSUME NEW p \in Player
  PROVE  Opponent(p) \in Player /\ Opponent(p) # p /\ \A q \in Player : q = p \/ q = Opponent(p)
BY DEF Player, Opponent

LEMMA HalvesAreTwo ==
  ASSUME NEW h \in Half
  PROVE  /\ OtherHalf(h) \in Half /\ OtherHalf(h) # h /\ OtherHalf(OtherHalf(h)) = h
         /\ \A g \in Half : g = h \/ g = OtherHalf(h)
BY DEF Half, OtherHalf

(* Each player stands at one half, and at each half stands one.            *)
LEMMA StandsAt ==
  ASSUME NEW x, NEW h \in Half
  PROVE  /\ PlayerAt(x, h) \in Player /\ HalfOf(x, PlayerAt(x, h)) = h
         /\ PlayerAt(x, OtherHalf(h)) = Opponent(PlayerAt(x, h))
<1>1. CASE Swapped(x)
  BY <1>1 DEF PlayerAt, HalfOf, Half, Player, Opponent, OtherHalf
<1>2. CASE ~Swapped(x)
  BY <1>2 DEF PlayerAt, HalfOf, Half, Player, Opponent, OtherHalf
<1>3. QED
  BY <1>1, <1>2

LEMMA HalfIsHalf == ASSUME NEW x, NEW p PROVE HalfOf(x, p) \in Half
BY DEF HalfOf, Half, OtherHalf

LEMMA PhaseIs ==
  ASSUME NEW x, Sound(x)
  PROVE  /\ Phase(x) \in PhaseName
         /\ Phase(x) = "complete" <=> x.complete
         /\ Phase(x) = "warmup" <=> ~x.complete /\ x.warmup
         /\ Phase(x) = "serve_rally" <=> ~x.complete /\ ~x.warmup /\ x.firstServer = None
         /\ Phase(x) = "change_ends" <=>
              ~x.complete /\ ~x.warmup /\ x.firstServer # None /\ x.endsPending
         /\ Phase(x) = "playing" <=>
              ~x.complete /\ ~x.warmup /\ x.firstServer # None /\ ~x.endsPending
<1>1. x.complete \in BOOLEAN /\ x.warmup \in BOOLEAN /\ x.endsPending \in BOOLEAN
  BY DEF Sound, Match
<1>2. CASE x.complete
  BY <1>1, <1>2 DEF Phase, PhaseName
<1>3. CASE ~x.complete /\ x.warmup
  BY <1>1, <1>3 DEF Phase, PhaseName
<1>4. CASE ~x.complete /\ ~x.warmup /\ x.firstServer = None
  BY <1>1, <1>4 DEF Phase, PhaseName
<1>5. CASE ~x.complete /\ ~x.warmup /\ x.firstServer # None /\ x.endsPending
  BY <1>1, <1>5 DEF Phase, PhaseName
<1>6. CASE ~x.complete /\ ~x.warmup /\ x.firstServer # None /\ ~x.endsPending
  BY <1>1, <1>6 DEF Phase, PhaseName
<1>7. QED
  BY <1>2, <1>3, <1>4, <1>5, <1>6

LEMMA FormatIsNatural ==
  PointsPerSet \in Nat /\ PointsPerSet >= 2 /\ ChangeEnds \in BOOLEAN
BY RulesAssumption

LEMMA LoveIsUndecided == Love \in Score /\ \A p \in Player : Love[p] = 0 /\ ~Takes(Love, p)
<1>1. Love \in Score /\ \A p \in Player : Love[p] = 0
  BY DEF Love, Score
<1>2. ~(0 >= PointsPerSet)
  BY FormatIsNatural
<1>3. QED
  BY <1>1, <1>2 DEF Takes

LEMMA OnePointMore ==
  ASSUME NEW x \in Match, NEW p \in Player
  PROVE  /\ PointsAfter(x, p, 1) \in Score
         /\ PointsAfter(x, p, 1)[p] = x.points[p] + 1
         /\ PointsAfter(x, p, 1)[Opponent(p)] = x.points[Opponent(p)]
<1>1. x.points \in Score /\ x.points[p] \in Nat
  BY DEF Match, Score
<1>2. ~(x.points[p] + 1 < 0)
  BY <1>1
<1>3. PointsAfter(x, p, 1) = [x.points EXCEPT ![p] = x.points[p] + 1]
  BY <1>1, <1>2 DEF PointsAfter
<1>4. QED
  BY <1>1, <1>3, PlayersAreTwo DEF Score

(* A point takes no set for the other player.                              *)
LEMMA OthersTakeNothing ==
  ASSUME NEW x \in Match, NEW p \in Player, \A q \in Player : ~Takes(x.points, q)
  PROVE  ~Takes(PointsAfter(x, p, 1), Opponent(p))
<1> DEFINE q == Opponent(p)
           pts == PointsAfter(x, p, 1)
<1>1. q \in Player /\ Opponent(q) = p
  BY DEF Opponent, Player
<1>2. pts[p] = x.points[p] + 1 /\ pts[q] = x.points[q]
  BY OnePointMore
<1>3. x.points[p] \in Nat /\ x.points[q] \in Nat
  BY <1>1 DEF Match, Score
<1>4. ~Takes(x.points, q)
  BY <1>1
<1> HIDE DEF q, pts
<1>5. ~(x.points[q] >= PointsPerSet /\ x.points[q] - x.points[p] >= 2)
  BY <1>1, <1>4 DEF Takes, WinBy
<1>6. ~(pts[q] >= PointsPerSet /\ pts[q] - pts[p] >= 2)
  BY <1>2, <1>3, <1>5, FormatIsNatural
<1>7. ~Takes(pts, q)
  BY <1>1, <1>6 DEF Takes, WinBy
<1>8. QED
  BY <1>7 DEF q, pts

LEMMA SetWonMakes ==
  ASSUME NEW x, Sound(x), Phase(x) = "playing", NEW w \in Player, NEW pts \in Score,
         NEW y, y = SetWon(x, pts, w)
  PROVE  /\ Sound(y) /\ y.sets = [x.sets EXCEPT ![w] = @ + 1]
         /\ y.warmup = x.warmup /\ y.firstServer = x.firstServer
         /\ y.complete => y.setIndex = x.setIndex /\ y.points = pts
         /\ ~y.complete => y.setIndex = x.setIndex + 1 /\ y.points = Love /\ (ChangeEnds => y.endsPending)
<1> DEFINE sets == [x.sets EXCEPT ![w] = @ + 1]
           v == [x EXCEPT !.points = pts, !.completed = Append(@, pts), !.sets[w] = @ + 1]
           z == [v EXCEPT !.setIndex = @ + 1, !.points = Love]
<1>1. /\ x \in Match /\ x.sets \in Score /\ x.setIndex \in Nat /\ x.completed \in Seq(Score)
      /\ x.pressed # Half /\ ~x.complete /\ ~x.warmup /\ x.firstServer # None /\ ~x.endsPending
  BY PhaseIs DEF Sound, Match
<1>2. sets \in Score
  BY <1>1 DEF Score
<1>3. Append(x.completed, pts) \in Seq(Score)
  BY <1>1
<1>4. /\ v \in Match /\ v.sets = sets /\ v.setIndex = x.setIndex /\ v.complete = x.complete
      /\ v.points = pts /\ v.warmup = x.warmup /\ v.firstServer = x.firstServer
      /\ v.endsPending = x.endsPending /\ v.pressed = x.pressed
  BY <1>1, <1>2, <1>3 DEF Match
<1>5. y = IF v.sets[w] >= SetsToWin THEN [v EXCEPT !.complete = TRUE, !.winner = w]
          ELSE ChangedEnds(z)
  BY DEF SetWon
<1> HIDE DEF v, sets
<1>6. CASE v.sets[w] >= SetsToWin
  <2>1. y = [v EXCEPT !.complete = TRUE, !.winner = w]
    BY <1>5, <1>6
  <2>2. /\ y \in Match /\ y.complete /\ y.sets = v.sets /\ y.setIndex = v.setIndex /\ y.points = v.points
        /\ y.warmup = v.warmup /\ y.firstServer = v.firstServer /\ y.endsPending = v.endsPending
        /\ y.pressed = v.pressed
    BY <1>4, <2>1 DEF Match
  <2>3. QED
    BY <1>1, <1>4, <2>2 DEF Sound, sets
<1>7. CASE ~(v.sets[w] >= SetsToWin)
  <2>1. /\ z \in Match /\ z.setIndex = x.setIndex + 1 /\ z.points = Love /\ z.sets = sets
        /\ z.complete = x.complete /\ z.warmup = x.warmup /\ z.firstServer = x.firstServer
        /\ z.endsPending = x.endsPending /\ z.pressed = x.pressed
    <3>1. v.setIndex + 1 \in Nat
      BY <1>1, <1>4
    <3>2. QED
      BY <1>4, <3>1, LoveIsUndecided DEF Match
  <2> HIDE DEF z
  <2>2. /\ y \in Match /\ y.setIndex = z.setIndex /\ y.points = z.points /\ y.sets = z.sets
        /\ y.complete = z.complete /\ y.warmup = z.warmup /\ y.firstServer = z.firstServer
        /\ (y.endsPending = z.endsPending /\ ~ChangeEnds) \/ (y.endsPending /\ ChangeEnds)
        /\ y.pressed = z.pressed \/ y.pressed = {}
    <3>1. CASE ChangeEnds
      <4>1. y = [z EXCEPT !.endsPending = TRUE, !.pressed = {}]
        BY <1>5, <1>7, <3>1 DEF ChangedEnds
      <4>2. QED
        BY <2>1, <3>1, <4>1 DEF Match
    <3>2. CASE ~ChangeEnds
      <4>1. y = z
        BY <1>5, <1>7, <3>2 DEF ChangedEnds
      <4>2. QED
        BY <2>1, <3>2, <4>1
    <3>3. QED
      BY <3>1, <3>2
  <2>3. y.pressed # Half
    BY <1>1, <2>1, <2>2 DEF Half
  <2>4. y.setIndex > 0 /\ ~y.complete /\ y.setIndex = x.setIndex + 1
    BY <1>1, <2>1, <2>2
  <2>5. Sound(y)
    BY <1>1, <2>1, <2>2, <2>3, <2>4, LoveIsUndecided DEF Sound
  <2>6. QED
    BY <2>1, <2>2, <2>4, <2>5 DEF sets
<1>8. QED
  BY <1>6, <1>7

(* A point by p takes the set, for p, or counts one.                       *)
LEMMA PointMakes ==
  ASSUME NEW x, Sound(x), Phase(x) = "playing", NEW p \in Player,
         NEW pts, pts = PointsAfter(x, p, 1), NEW y, y = Scored(x, p, 1)
  PROVE  /\ Sound(y) /\ y.warmup = x.warmup /\ y.firstServer = x.firstServer
         /\ \/ /\ Takes(pts, p) /\ y.sets = [x.sets EXCEPT ![p] = @ + 1]
               /\ y.complete => y.setIndex = x.setIndex /\ y.points = pts
               /\ ~y.complete => y.setIndex = x.setIndex + 1 /\ y.points = Love
                                 /\ (ChangeEnds => y.endsPending)
            \/ /\ ~Takes(pts, p) /\ y.sets = x.sets /\ y.setIndex = x.setIndex /\ y.points = pts
               /\ ~y.complete /\ Phase(y) = "playing"
<1>1. x \in Match /\ ~x.complete /\ (\A q \in Player : ~Takes(x.points, q)) /\ x.pressed # Half
  BY PhaseIs DEF Sound
<1>2. pts \in Score
  BY <1>1, OnePointMore
<1>3. ~Takes(pts, Opponent(p))
  BY <1>1, OthersTakeNothing
<1>4. y = IF Takes(pts, p) THEN SetWon(x, pts, p) ELSE [x EXCEPT !.points = pts]
  <2>1. (p = "a" /\ Opponent(p) = "b") \/ (p = "b" /\ Opponent(p) = "a")
    BY DEF Player, Opponent
  <2>2. y = IF Takes(pts, "a") THEN SetWon(x, pts, "a")
            ELSE IF Takes(pts, "b") THEN SetWon(x, pts, "b") ELSE [x EXCEPT !.points = pts]
    BY DEF Scored
  <2>3. QED
    BY <1>3, <2>1, <2>2
<1>5. CASE Takes(pts, p)
  <2>1. y = SetWon(x, pts, p)
    BY <1>4, <1>5
  <2>2. QED
    BY <1>2, <1>5, <2>1, SetWonMakes
<1>6. CASE ~Takes(pts, p)
  <2>1. y = [x EXCEPT !.points = pts]
    BY <1>4, <1>6
  <2>2. /\ y \in Match /\ y.points = pts /\ y.sets = x.sets /\ y.complete = x.complete
        /\ y.setIndex = x.setIndex /\ y.warmup = x.warmup /\ y.firstServer = x.firstServer
        /\ y.endsPending = x.endsPending /\ y.pressed = x.pressed
    BY <1>1, <1>2, <2>1 DEF Match
  <2>3. \A q \in Player : ~Takes(pts, q)
    BY <1>3, <1>6, PlayersAreTwo
  <2>4. x.firstServer # None
    BY PhaseIs
  <2>5. Sound(y)
    BY <1>1, <2>2, <2>3, <2>4 DEF Sound
  <2>6. Phase(y) = "playing"
    BY <2>2, <2>5, PhaseIs
  <2>7. QED
    BY <1>1, <1>6, <2>2, <2>5, <2>6
<1>7. QED
  BY <1>5, <1>6

(* A ready: the half is noted, or the phase is over.                       *)
LEMMA ReadyMakes ==
  ASSUME NEW x, Sound(x), Phase(x) \in {"warmup", "change_ends"}, NEW h \in Half, h \notin x.pressed,
         NEW y, y = Confirmed(x, h)
  PROVE  /\ Sound(y) /\ y.setIndex = x.setIndex /\ y.points = x.points /\ ~y.complete
         /\ y.firstServer = x.firstServer
         /\ \/ /\ Phase(y) = Phase(x) /\ y.warmup = x.warmup /\ y.endsPending = x.endsPending
               /\ Waiting(x) \ Waiting(y) = {h}
            \/ /\ Waiting(x) = {h}
               /\ IF Phase(x) = "warmup" THEN ~y.warmup /\ y.endsPending = x.endsPending
                  ELSE ~y.endsPending /\ Phase(y) = "playing"
<1> DEFINE v == [x EXCEPT !.pressed = @ \cup {h}]
<1>1. /\ x \in Match /\ x.pressed \subseteq Half /\ x.pressed # Half /\ ~x.complete
      /\ x.warmup \in BOOLEAN /\ x.endsPending \in BOOLEAN
  BY PhaseIs DEF Sound, Match
<1>2. /\ v \in Match /\ v.pressed = x.pressed \cup {h} /\ v.warmup = x.warmup
      /\ v.endsPending = x.endsPending /\ v.complete = x.complete /\ v.setIndex = x.setIndex
      /\ v.points = x.points /\ v.firstServer = x.firstServer
  <2>1. x.pressed \cup {h} \in SUBSET Half
    BY <1>1
  <2>2. QED
    BY <1>1, <2>1 DEF Match
<1>3. y = IF v.pressed # Half THEN v
          ELSE IF v.warmup THEN [v EXCEPT !.pressed = {}, !.warmup = FALSE]
          ELSE [v EXCEPT !.pressed = {}, !.endsPending = FALSE]
  BY DEF Confirmed
<1> HIDE DEF v
<1>4. Waiting(x) = Half \ x.pressed
  BY DEF Waiting
<1>5. CASE v.pressed # Half
  <2>1. y = v
    BY <1>3, <1>5
  <2>2. Sound(y)
    BY <1>2, <1>5, <2>1 DEF Sound
  <2>3. Phase(y) = Phase(x)
    BY <1>2, <2>1, <2>2, PhaseIs
  <2>4. Waiting(y) = Half \ (x.pressed \cup {h})
    BY <1>2, <2>1, <2>3 DEF Waiting
  <2>5. Waiting(x) \ Waiting(y) = {h}
    BY <1>4, <2>4
  <2>6. QED
    BY <1>1, <1>2, <2>1, <2>2, <2>3, <2>5
<1>6. CASE v.pressed = Half
  <2>1. Waiting(x) = {h}
    BY <1>2, <1>4, <1>6
  <2>2. {} # Half
    BY DEF Half
  <2>3. CASE Phase(x) = "warmup"
    <3>1. v.warmup
      BY <1>2, <2>3, PhaseIs
    <3>2. y = [v EXCEPT !.pressed = {}, !.warmup = FALSE]
      BY <1>3, <1>6, <3>1
    <3>3. /\ y \in Match /\ y.pressed = {} /\ y.warmup = FALSE
          /\ y.endsPending = v.endsPending /\ y.complete = v.complete /\ y.setIndex = v.setIndex
          /\ y.points = v.points /\ y.firstServer = v.firstServer
      BY <1>2, <3>2 DEF Match
    <3>4. Sound(y)
      BY <1>2, <2>2, <3>3 DEF Sound
    <3>5. QED
      BY <1>1, <1>2, <2>1, <2>3, <3>3, <3>4
  <2>4. CASE Phase(x) = "change_ends"
    <3>1. ~v.warmup /\ x.firstServer # None
      BY <1>2, <2>4, PhaseIs
    <3>2. y = [v EXCEPT !.pressed = {}, !.endsPending = FALSE]
      BY <1>3, <1>6, <3>1
    <3>3. /\ y \in Match /\ y.pressed = {} /\ y.endsPending = FALSE
          /\ y.warmup = v.warmup /\ y.complete = v.complete /\ y.setIndex = v.setIndex
          /\ y.points = v.points /\ y.firstServer = v.firstServer
      BY <1>2, <3>2 DEF Match
    <3>4. Sound(y)
      BY <1>2, <2>2, <3>3 DEF Sound
    <3>5. Phase(y) = "playing"
      BY <1>1, <1>2, <3>1, <3>3, <3>4, PhaseIs
    <3>6. QED
      BY <1>1, <1>2, <2>1, <2>4, <3>3, <3>4, <3>5
  <2>5. QED
    BY <2>3, <2>4
<1>7. QED
  BY <1>5, <1>6

LEMMA ServeMakes ==
  ASSUME NEW x, Sound(x), Phase(x) = "serve_rally", NEW p \in Player, NEW y, y = ServeDecided(x, p)
  PROVE  /\ Sound(y) /\ y.setIndex = x.setIndex /\ y.points = x.points /\ ~y.complete
         /\ y.warmup = x.warmup /\ y.firstServer = p /\ p # None /\ y # x /\ Serving(y) = p
         /\ y.endsPending = x.endsPending
<1>1. x \in Match /\ ~x.complete /\ x.firstServer = None /\ x.setIndex = 0 /\ x.points = Love
  BY PhaseIs DEF Sound
<1>2. p # None
  BY DEF Player, None
<1>3. /\ y \in Match /\ y.firstServer = p /\ y.setIndex = x.setIndex /\ y.points = x.points
      /\ y.complete = x.complete /\ y.warmup = x.warmup /\ y.endsPending = x.endsPending
      /\ y.pressed = x.pressed
  BY <1>1 DEF Match, ServeDecided
<1>4. Sound(y)
  BY <1>2, <1>3 DEF Sound
<1>5. Opener(y) = p
  BY <1>1, <1>3 DEF Opener
<1>6. ServeChanges(y) = 0
  <2>1. y.points["a"] = 0 /\ y.points["b"] = 0
    BY <1>1, <1>3 DEF Love, Player
  <2>2. ~(0 >= PointsPerSet - 1)
    BY FormatIsNatural
  <2>3. QED
    BY <2>1, <2>2 DEF ServeChanges
<1>7. Serving(y) = p
  BY <1>2, <1>3, <1>5, <1>6 DEF Serving, Flip
<1>8. QED
  BY <1>1, <1>2, <1>3, <1>4, <1>7

LEMMA PressIs ==
  ASSUME NEW x, Sound(x), ~x.complete, NEW h \in Half
  PROVE  After(x, h) =
           IF Phase(x) \in {"warmup", "change_ends"}
           THEN IF h \in x.pressed THEN x ELSE Confirmed(x, h)
           ELSE IF Phase(x) = "serve_rally" THEN ServeDecided(x, PlayerAt(x, h))
           ELSE Scored(x, PlayerAt(x, h), 1)
<1> DEFINE z == [m |-> x, undo |-> <<>>, high |-> 0]
<1>1. z.m = x
  OBVIOUS
<1>2. Phase(x) \in {"warmup", "change_ends", "serve_rally", "playing"}
  BY PhaseIs DEF PhaseName
<1>3. CASE Phase(x) \in {"warmup", "change_ends"}
  <2>1. Pressed(z, h) = IF h \in x.pressed THEN z ELSE [z EXCEPT !.m = Confirmed(x, h)]
    BY <1>1, <1>3 DEF Pressed
  <2>2. QED
    BY <1>3, <2>1 DEF After
<1>4. CASE Phase(x) = "serve_rally"
  <2>1. Pressed(z, h) = [z EXCEPT !.undo = Pushed(z), !.m = ServeDecided(x, PlayerAt(x, h))]
    BY <1>1, <1>4 DEF Pressed
  <2>2. QED
    BY <1>4, <2>1 DEF After
<1>5. CASE Phase(x) = "playing"
  <2>1. Pressed(z, h) = [z EXCEPT !.undo = Pushed(z), !.m = Scored(x, PlayerAt(x, h), 1)]
    BY <1>1, <1>5 DEF Pressed
  <2>2. QED
    BY <1>5, <2>1 DEF After
<1>6. QED
  BY <1>2, <1>3, <1>4, <1>5

(* What the undo stack and the watermark are makes no difference to m.     *)
LEMMA PressIsAfter ==
  ASSUME NEW z, NEW x, NEW u, NEW g, z = [m |-> x, undo |-> u, high |-> g],
         Sound(x), ~x.complete, NEW h \in Half
  PROVE  Pressed(z, h).m = After(x, h)
<1>1. z.m = x
  OBVIOUS
<1>2. Phase(x) \in {"warmup", "change_ends", "serve_rally", "playing"}
  BY PhaseIs DEF PhaseName
<1>3. CASE Phase(x) \in {"warmup", "change_ends"}
  <2>1. Pressed(z, h) = IF h \in x.pressed THEN z ELSE [z EXCEPT !.m = Confirmed(x, h)]
    BY <1>1, <1>3 DEF Pressed
  <2>2. QED
    BY <1>3, <2>1, PressIs
<1>4. CASE Phase(x) = "serve_rally"
  <2>1. Pressed(z, h) = [z EXCEPT !.undo = Pushed(z), !.m = ServeDecided(x, PlayerAt(x, h))]
    BY <1>1, <1>4 DEF Pressed
  <2>2. QED
    BY <1>4, <2>1, PressIs
<1>5. CASE Phase(x) = "playing"
  <2>1. Pressed(z, h) = [z EXCEPT !.undo = Pushed(z), !.m = Scored(x, PlayerAt(x, h), 1)]
    BY <1>1, <1>5 DEF Pressed
  <2>2. Pressed(z, h).m = Scored(x, PlayerAt(x, h), 1)
    BY <1>1, <2>1
  <2>3. QED
    BY <1>5, <2>2, PressIs
<1>6. QED
  BY <1>2, <1>3, <1>4, <1>5

LEMMA ReadOff ==
  ASSUME NEW k, NEW x, NEW y, NEW h \in Half,
         \/ k = "confirmed" /\ Waiting(x) \ Waiting(y) = {h}
         \/ k \in {"warmup_over", "ends_changed"} /\ Waiting(x) = {h}
         \/ k = "serve_decided" /\ Serving(y) # None /\ HalfOf(x, Serving(y)) = h
         \/ k \in {"point", "set_won", "match_won"} /\ WinnersHalf(x, y) = {h}
  PROVE  PressedHalf(k, x, y) = h
<1>1. CASE k = "confirmed" /\ Waiting(x) \ Waiting(y) = {h}
  BY <1>1 DEF PressedHalf
<1>2. CASE k \in {"warmup_over", "ends_changed"} /\ Waiting(x) = {h}
  <2>1. Cardinality({h}) = 1
    BY FS_Singleton
  <2>2. QED
    BY <1>2, <2>1 DEF PressedHalf
<1>3. CASE k = "serve_decided" /\ Serving(y) # None /\ HalfOf(x, Serving(y)) = h
  <2>1. {Serving(y)} \ {None} = {Serving(y)}
    BY <1>3
  <2>2. {HalfOf(x, p) : p \in {Serving(y)} \ {None}} = {h}
    BY <1>3, <2>1
  <2>3. QED
    BY <1>3, <2>2 DEF PressedHalf
<1>4. CASE k \in {"point", "set_won", "match_won"} /\ WinnersHalf(x, y) = {h}
  BY <1>4 DEF PressedHalf
<1>5. QED
  BY <1>1, <1>2, <1>3, <1>4

LEMMA AheadIsWinner ==
  ASSUME NEW x, Sound(x), Phase(x) = "playing", NEW p \in Player, NEW y, y = Scored(x, p, 1)
  PROVE  /\ Ahead(x, y) = {p} /\ y # x
         /\ Transition(x, y) = IF y.complete THEN "match_won"
                               ELSE IF y.setIndex # x.setIndex THEN "set_won" ELSE "point"
<1> DEFINE pts == PointsAfter(x, p, 1)
           q == Opponent(p)
<1>1. x \in Match /\ y \in Match /\ q \in Player /\ q # p /\ \A r \in Player : r = p \/ r = q
  BY PointMakes, PlayersAreTwo DEF Sound
<1>2. /\ x.points[p] \in Nat /\ x.points[q] \in Nat /\ x.sets[p] \in Nat /\ x.sets[q] \in Nat
      /\ x.setIndex \in Nat /\ x.sets \in Score
  BY <1>1 DEF Match, Score
<1>3. pts[p] = x.points[p] + 1 /\ pts[q] = x.points[q]
  BY <1>1, OnePointMore
<1> HIDE DEF pts
<1>4. ASSUME y.sets = [x.sets EXCEPT ![p] = @ + 1], y.setIndex = x.setIndex => y.points = pts
      PROVE  Ahead(x, y) = {p} /\ y # x
  <2>1. y.sets[p] = x.sets[p] + 1 /\ y.sets[q] = x.sets[q]
    BY <1>1, <1>2, <1>4 DEF Score
  <2>2. y.sets[p] > x.sets[p] /\ ~(y.sets[q] > x.sets[q])
    BY <1>2, <2>1
  <2>3. ~(y.setIndex = x.setIndex /\ y.points[q] > x.points[q])
    BY <1>2, <1>3, <1>4
  <2> HIDE DEF q
  <2>4. Ahead(x, y) = {p}
    BY <1>1, <2>2, <2>3 DEF Ahead
  <2>5. QED
    BY <1>2, <2>1, <2>4
<1>5. ASSUME y.sets = x.sets, y.setIndex = x.setIndex, y.points = pts
      PROVE  Ahead(x, y) = {p} /\ y # x
  <2>1. ~(y.sets[p] > x.sets[p]) /\ ~(y.sets[q] > x.sets[q])
    BY <1>2, <1>5
  <2>2. y.points[p] > x.points[p] /\ ~(y.points[q] > x.points[q])
    BY <1>2, <1>3, <1>5
  <2> HIDE DEF q
  <2>3. Ahead(x, y) = {p}
    BY <1>1, <1>5, <2>1, <2>2 DEF Ahead
  <2>4. QED
    BY <1>2, <2>2, <2>3
<1>6. Ahead(x, y) = {p} /\ y # x
  <2>1. \/ /\ y.sets = [x.sets EXCEPT ![p] = @ + 1]
           /\ y.complete => y.setIndex = x.setIndex /\ y.points = pts
           /\ ~y.complete => y.setIndex = x.setIndex + 1
        \/ y.sets = x.sets /\ y.setIndex = x.setIndex /\ y.points = pts
    BY PointMakes DEF pts
  <2>2. x.setIndex + 1 # x.setIndex
    BY <1>2
  <2>3. QED
    BY <1>4, <1>5, <2>1, <2>2
<1>7. Transition(x, y) = IF y.complete THEN "match_won"
                         ELSE IF y.setIndex # x.setIndex THEN "set_won" ELSE "point"
  BY DEF Transition
<1>8. QED
  BY <1>6, <1>7

(* The half read off the match before and after a press is the half that   *)
(* was pressed, in any phase, over the end of a set and a change of ends.  *)
LEMMA PressAnswers ==
  ASSUME NEW x, Sound(x), ~x.complete, NEW h \in Half, NEW y, y = After(x, h)
  PROVE  /\ Sound(y) /\ x.setIndex <= y.setIndex
         /\ Transition(x, y) \in OwnKind
         /\ Transition(x, y) = "ends_changed" => y.setIndex > 0
         /\ y # x => PressedHalf(Transition(x, y), x, y) = h
<1>0. /\ x \in Match /\ x.setIndex \in Nat /\ PlayerAt(x, h) \in Player
      /\ HalfOf(x, PlayerAt(x, h)) = h
  BY StandsAt DEF Sound, Match
<1>1. Phase(x) \in {"warmup", "change_ends", "serve_rally", "playing"}
  BY PhaseIs DEF PhaseName
<1>2. CASE Phase(x) = "warmup"
  <2>1. x.warmup /\ x.warmup \in BOOLEAN
    BY <1>2, PhaseIs DEF Sound, Match
  <2>2. CASE y = x
    <3>1. Transition(x, y) = "confirmed"
      BY <1>2, <2>1, <2>2 DEF Transition
    <3>2. QED
      BY <1>0, <2>2, <3>1 DEF OwnKind
  <2>3. CASE h \notin x.pressed
    <3>1. y = Confirmed(x, h)
      BY <1>2, <2>3, PressIs
    <3>2. /\ Sound(y) /\ y.setIndex = x.setIndex
          /\ \/ y.warmup = x.warmup /\ Waiting(x) \ Waiting(y) = {h}
             \/ ~y.warmup /\ Waiting(x) = {h}
      BY <1>2, <2>3, <3>1, ReadyMakes
    <3>3. Transition(x, y) = IF y.warmup THEN "confirmed" ELSE "warmup_over"
      BY <1>2 DEF Transition
    <3>4. PressedHalf(Transition(x, y), x, y) = h
      <4>1. CASE y.warmup = x.warmup /\ Waiting(x) \ Waiting(y) = {h}
        <5>1. Transition(x, y) = "confirmed"
          BY <2>1, <3>3, <4>1
        <5>2. QED
          BY <4>1, <5>1, ReadOff
      <4>2. CASE ~y.warmup /\ Waiting(x) = {h}
        <5>1. Transition(x, y) = "warmup_over"
          BY <3>3, <4>2
        <5>2. QED
          BY <4>2, <5>1, ReadOff
      <4>3. QED
        BY <3>2, <4>1, <4>2
    <3>5. QED
      BY <1>0, <3>2, <3>3, <3>4 DEF OwnKind
  <2>4. QED
    BY <1>2, <2>2, <2>3, PressIs
<1>3. CASE Phase(x) = "change_ends"
  <2>1. x.endsPending /\ x.setIndex > 0
    BY <1>3, PhaseIs DEF Sound
  <2>2. CASE y = x
    <3>1. Transition(x, y) = "confirmed"
      BY <1>3, <2>1, <2>2 DEF Transition
    <3>2. QED
      BY <1>0, <2>2, <3>1 DEF OwnKind
  <2>3. CASE h \notin x.pressed
    <3>1. y = Confirmed(x, h)
      BY <1>3, <2>3, PressIs
    <3>2. /\ Sound(y) /\ y.setIndex = x.setIndex
          /\ \/ y.endsPending = x.endsPending /\ Waiting(x) \ Waiting(y) = {h}
             \/ ~y.endsPending /\ Waiting(x) = {h}
      BY <1>3, <2>3, <3>1, ReadyMakes
    <3>3. Transition(x, y) = IF y.endsPending THEN "confirmed" ELSE "ends_changed"
      BY <1>3 DEF Transition
    <3>4. PressedHalf(Transition(x, y), x, y) = h
      <4>1. CASE y.endsPending = x.endsPending /\ Waiting(x) \ Waiting(y) = {h}
        <5>1. Transition(x, y) = "confirmed"
          BY <2>1, <3>3, <4>1
        <5>2. QED
          BY <4>1, <5>1, ReadOff
      <4>2. CASE ~y.endsPending /\ Waiting(x) = {h}
        <5>1. Transition(x, y) = "ends_changed"
          BY <3>3, <4>2
        <5>2. QED
          BY <4>2, <5>1, ReadOff
      <4>3. QED
        BY <3>2, <4>1, <4>2
    <3>5. QED
      BY <1>0, <2>1, <3>2, <3>3, <3>4 DEF OwnKind
  <2>4. QED
    BY <1>3, <2>2, <2>3, PressIs
<1>4. CASE Phase(x) = "serve_rally"
  <2>1. y = ServeDecided(x, PlayerAt(x, h))
    BY <1>4, PressIs
  <2>2. Sound(y) /\ y.setIndex = x.setIndex /\ Serving(y) = PlayerAt(x, h) /\ PlayerAt(x, h) # None
    BY <1>0, <1>4, <2>1, ServeMakes
  <2>3. Transition(x, y) = "serve_decided"
    BY <1>4 DEF Transition
  <2>4. PressedHalf(Transition(x, y), x, y) = h
    BY <1>0, <2>2, <2>3, ReadOff
  <2>5. QED
    BY <1>0, <2>2, <2>3, <2>4 DEF OwnKind
<1>5. CASE Phase(x) = "playing"
  <2>1. y = Scored(x, PlayerAt(x, h), 1)
    BY <1>5, PressIs
  <2>2. Sound(y) /\ (y.setIndex = x.setIndex \/ y.setIndex = x.setIndex + 1)
    <3>1. PICK p \in Player : p = PlayerAt(x, h)
      BY <1>0
    <3>2. y = Scored(x, p, 1)
      BY <2>1, <3>1
    <3>3. Sound(y)
      BY <1>5, <3>2, PointMakes
    <3>4. PICK pts : pts = PointsAfter(x, p, 1)
      OBVIOUS
    <3>5. \/ /\ y.complete => y.setIndex = x.setIndex /\ y.points = pts
             /\ ~y.complete => y.setIndex = x.setIndex + 1 /\ y.points = Love
                               /\ (ChangeEnds => y.endsPending)
          \/ y.setIndex = x.setIndex
      <4>1. \/ /\ Takes(pts, p) /\ y.sets = [x.sets EXCEPT ![p] = @ + 1]
               /\ y.complete => y.setIndex = x.setIndex /\ y.points = pts
               /\ ~y.complete => y.setIndex = x.setIndex + 1 /\ y.points = Love
                                 /\ (ChangeEnds => y.endsPending)
            \/ /\ ~Takes(pts, p) /\ y.sets = x.sets /\ y.setIndex = x.setIndex /\ y.points = pts
               /\ ~y.complete /\ Phase(y) = "playing"
        BY <1>5, <3>2, <3>4, PointMakes
      <4>2. QED
        BY <4>1
    <3>6. QED
      BY <3>3, <3>5
  <2>3. Ahead(x, y) = {PlayerAt(x, h)} /\ Transition(x, y) \in {"point", "set_won", "match_won"}
    BY <1>0, <1>5, <2>1, AheadIsWinner
  <2>4. WinnersHalf(x, y) = {h}
    BY <1>0, <2>3 DEF WinnersHalf
  <2>5. PressedHalf(Transition(x, y), x, y) = h
    BY <2>3, <2>4, ReadOff
  <2>6. x.setIndex <= y.setIndex
    BY <1>0, <2>2
  <2>7. QED
    BY <2>2, <2>3, <2>5, <2>6 DEF OwnKind
<1>6. QED
  BY <1>1, <1>2, <1>3, <1>4, <1>5

-----------------------------------------------------------------------------
(* The stream.                                                             *)

LEMMA EventsAppended ==
  ASSUME NEW t \in Seq(Event), NEW e \in Event
  PROVE  /\ Append(t, e) \in Seq(Event) /\ Len(Append(t, e)) = Len(t) + 1
         /\ \A k \in 1..Len(t) : Append(t, e)[k] = t[k]
         /\ Append(t, e)[Len(t) + 1] = e
OBVIOUS

LEMMA EventsRead ==
  ASSUME NEW t \in Seq(Event), t # <<>>
  PROVE  /\ Head(t) \in Event /\ Tail(t) \in Seq(Event) /\ Len(Tail(t)) = Len(t) - 1
         /\ Len(t) \in Nat \ {0} /\ Head(t) = t[1] /\ 1 \in 1..Len(t)
         /\ \A k \in 1..Len(Tail(t)) : Tail(t)[k] = t[k + 1] /\ k + 1 \in 1..Len(t)
OBVIOUS

LEMMA EventIs ==
  ASSUME NEW e \in Event
  PROVE  /\ e.kind \in OwnKind \cup Foreign \cup {"snapshot"} /\ Sound(e.state)
         /\ e.state.setIndex \in Nat
BY DEF Event, Sound, Match

LEMMA OrderGrows ==
  ASSUME NEW t, NEW x, NEW y, InOrder(t, x, y), NEW z, Sound(z), y.setIndex <= z.setIndex,
         NEW k \in OwnKind \cup Foreign, k = "ends_changed" => z.setIndex > 0
  PROVE  InOrder(Append(t, [kind |-> k, state |-> z]), x, z)
<1> DEFINE e == [kind |-> k, state |-> z]
           u == Append(t, e)
<1>1. t \in Seq(Event) /\ Sound(x) /\ Sound(y) /\ x.setIndex \in Nat /\ y.setIndex \in Nat
      /\ z.setIndex \in Nat /\ x.setIndex <= y.setIndex
  BY DEF InOrder, Sound, Match
<1>2. e \in Event /\ e.kind = k /\ e.state = z
  BY DEF Event, Sound
<1> HIDE DEF e
<1>3. /\ u \in Seq(Event) /\ Len(u) = Len(t) + 1 /\ (\A n \in 1..Len(t) : u[n] = t[n])
      /\ u[Len(t) + 1] = e /\ Len(t) \in Nat
  BY <1>1, <1>2, EventsAppended
<1> HIDE DEF u
<1>4. \A n \in 1..Len(t) : t[n].state.setIndex \in Nat
  <2> SUFFICES ASSUME NEW n \in 1..Len(t) PROVE t[n].state.setIndex \in Nat
    OBVIOUS
  <2>1. t[n] \in Event
    BY <1>1
  <2>2. QED
    BY <2>1, EventIs
<1>5. ASSUME NEW n \in 1..Len(u)
      PROVE  /\ x.setIndex <= u[n].state.setIndex /\ u[n].state.setIndex <= z.setIndex
             /\ \A l \in 1..n : u[l].state.setIndex <= u[n].state.setIndex
             /\ u[n].kind = "ends_changed" => u[n].state.setIndex > 0
  <2>1. CASE n \in 1..Len(t)
    <3>1. u[n] = t[n] /\ \A l \in 1..n : u[l] = t[l]
      BY <1>3, <2>1
    <3>2. /\ x.setIndex <= t[n].state.setIndex /\ t[n].state.setIndex <= y.setIndex
          /\ \A l \in 1..n : t[l].state.setIndex <= t[n].state.setIndex
          /\ t[n].kind = "ends_changed" => t[n].state.setIndex > 0
      BY <2>1 DEF InOrder
    <3>3. t[n].state.setIndex <= z.setIndex
      BY <1>1, <1>4, <2>1, <3>2
    <3>4. QED
      BY <3>1, <3>2, <3>3
  <2>2. CASE n = Len(t) + 1
    <3>1. u[n].state = z /\ u[n].kind = k
      BY <1>2, <1>3, <2>2
    <3>2. \A l \in 1..Len(t) : t[l].state.setIndex <= z.setIndex
      <4>1. \A l \in 1..Len(t) : t[l].state.setIndex <= y.setIndex
        BY DEF InOrder
      <4>2. QED
        BY <1>1, <1>4, <4>1
    <3>3. \A l \in 1..n : l = n \/ (l \in 1..Len(t) /\ u[l] = t[l])
      BY <1>3, <2>2
    <3>4. x.setIndex <= z.setIndex
      BY <1>1
    <3>5. QED
      BY <1>1, <3>1, <3>2, <3>3, <3>4
  <2>3. QED
    BY <1>3, <2>1, <2>2
<1>6. x.setIndex <= z.setIndex
  BY <1>1
<1>7. InOrder(u, x, z)
  BY <1>1, <1>3, <1>5, <1>6 DEF InOrder
<1>8. QED
  BY <1>7 DEF u, e

LEMMA OrderRead ==
  ASSUME NEW t, NEW x, NEW y, InOrder(t, x, y), t # <<>>
  PROVE  /\ InOrder(Tail(t), x, y) /\ InOrder(Tail(t), Head(t).state, y)
         /\ x.setIndex <= Head(t).state.setIndex
         /\ Head(t).kind = "ends_changed" => Head(t).state.setIndex > 0
         /\ Head(t).kind \in OwnKind \cup Foreign \cup {"snapshot"}
<1>1. t \in Seq(Event)
  BY DEF InOrder
<1> DEFINE u == Tail(t)
<1>2. /\ Head(t) \in Event /\ u \in Seq(Event) /\ Head(t) = t[1] /\ 1 \in 1..Len(t)
      /\ \A k \in 1..Len(u) : u[k] = t[k + 1] /\ k + 1 \in 1..Len(t)
  BY <1>1, EventsRead
<1> HIDE DEF u
<1>3. Sound(Head(t).state) /\ Head(t).kind \in OwnKind \cup Foreign \cup {"snapshot"}
  BY <1>2, EventIs
<1>4. /\ x.setIndex <= Head(t).state.setIndex /\ Head(t).state.setIndex <= y.setIndex
      /\ Head(t).kind = "ends_changed" => Head(t).state.setIndex > 0
  BY <1>2 DEF InOrder
<1>5. ASSUME NEW k \in 1..Len(u)
      PROVE  /\ x.setIndex <= u[k].state.setIndex /\ u[k].state.setIndex <= y.setIndex
             /\ Head(t).state.setIndex <= u[k].state.setIndex
             /\ \A l \in 1..k : u[l].state.setIndex <= u[k].state.setIndex
             /\ u[k].kind = "ends_changed" => u[k].state.setIndex > 0
  <2>1. u[k] = t[k + 1] /\ k + 1 \in 1..Len(t) /\ \A l \in 1..k : u[l] = t[l + 1] /\ l + 1 \in 1..k + 1
    BY <1>2
  <2>2. /\ x.setIndex <= t[k + 1].state.setIndex /\ t[k + 1].state.setIndex <= y.setIndex
        /\ \A l \in 1..k + 1 : t[l].state.setIndex <= t[k + 1].state.setIndex
        /\ t[k + 1].kind = "ends_changed" => t[k + 1].state.setIndex > 0
    BY <2>1 DEF InOrder
  <2>3. 1 \in 1..k + 1
    OBVIOUS
  <2>4. QED
    BY <1>2, <2>1, <2>2, <2>3
<1>6. InOrder(u, x, y) /\ InOrder(u, Head(t).state, y)
  BY <1>2, <1>3, <1>4, <1>5 DEF InOrder
<1>7. QED
  BY <1>3, <1>4, <1>6 DEF u

-----------------------------------------------------------------------------
(* The check's own state.                                                  *)

LEMMA PressedHalfIs == ASSUME NEW k, NEW x, NEW y PROVE PressedHalf(k, x, y) \in Half \cup {Nowhere}
<1> DEFINE halves ==
             CASE k = "confirmed"                       -> Waiting(x) \ Waiting(y)
               [] k \in {"warmup_over", "ends_changed"} -> IF Cardinality(Waiting(x)) = 1 THEN Waiting(x) ELSE {}
               [] k = "serve_decided"                   -> {HalfOf(x, p) : p \in {Serving(y)} \ {None}}
               [] k \in {"point", "set_won", "match_won"} -> WinnersHalf(x, y)
               [] OTHER                                 -> {}
<1>1. Waiting(x) \subseteq Half
  BY DEF Waiting
<1>2. {HalfOf(x, p) : p \in {Serving(y)} \ {None}} \subseteq Half
  BY HalfIsHalf
<1>3. WinnersHalf(x, y) \subseteq Half
  BY HalfIsHalf DEF WinnersHalf
<1>4. halves \subseteq Half
  BY <1>1, <1>2, <1>3
<1>5. PressedHalf(k, x, y) = IF halves = {} THEN Nowhere ELSE CHOOSE h \in halves : TRUE
  BY DEF PressedHalf
<1> HIDE DEF halves
<1>6. CASE halves = {}
  BY <1>5, <1>6
<1>7. CASE halves # {}
  BY <1>4, <1>5, <1>7
<1>8. QED
  BY <1>6, <1>7

LEMMA PhaseIsOneOf == ASSUME NEW x PROVE Phase(x) \in PhaseName
BY DEF Phase, PhaseName

LEMMA RalliesAre == CheckType => Rallies(check) \subseteq Half
<1> SUFFICES ASSUME CheckType PROVE Rallies(check) \subseteq Half
  OBVIOUS
<1>1. check.winner \in Half /\ OtherHalf(check.winner) \in Half
  BY HalvesAreTwo DEF CheckType
<1>2. QED
  BY <1>1 DEF Rallies

LEMMA PromptIs ==
  ASSUME CheckType, NEW p \in Prompts
  PROVE  /\ p \in [kind : {"none", "ready", "rally"}, phase : PhaseName \cup {"none"},
                   half : Half \cup {Nowhere}]
         /\ p.half \in Half /\ p.kind = PressKind(Phase(st)) /\ p.phase = Phase(st)
         /\ Phase(st) # "complete"
         /\ Phase(st) \in {"warmup", "change_ends"} => p.half \in Waiting(st)
         /\ Phase(st) = "playing" => p.half \in Rallies(check)
<1>1. Phase(st) \in PhaseName
  BY PhaseIsOneOf
<1>2. PICK h : /\ p = Asks(h)
               /\ h \in CASE Phase(st) \in {"warmup", "change_ends"} -> Waiting(st)
                          [] Phase(st) = "serve_rally"              -> Half
                          [] Phase(st) = "playing"                  -> Rallies(check)
                          [] Phase(st) = "complete"                 -> {}
  BY DEF Prompts
<1>3. /\ h \in Half /\ Phase(st) # "complete"
      /\ Phase(st) \in {"warmup", "change_ends"} => h \in Waiting(st)
      /\ Phase(st) = "playing" => h \in Rallies(check)
  <2>1. Waiting(st) \subseteq Half /\ Rallies(check) \subseteq Half
    BY RalliesAre DEF Waiting
  <2>2. QED
    BY <1>1, <1>2, <2>1 DEF PhaseName
<1>4. PressKind(Phase(st)) \in {"none", "ready", "rally"}
  BY DEF PressKind
<1>5. QED
  BY <1>1, <1>2, <1>3, <1>4 DEF Asks

LEMMA CheckTypeStep == CheckType /\ CheckNext => CheckType'
<1> SUFFICES ASSUME CheckType, CheckNext PROVE CheckType'
  OBVIOUS
<1> DEFINE Pcs == {"top", "prompt", "gap"} \cup CheckOver
           PromptType == [kind : {"none", "ready", "rally"}, phase : PhaseName \cup {"none"},
                          half : Half \cup {Nowhere}]
           R == [pc : Pcs, prompt : PromptType, prompts : Nat, missed : Nat,
                 answered : Half \cup {Nowhere}, winner : Half, changed : BOOLEAN, after : SUBSET Half]
<1>0. check \in R /\ (check.pc = "prompt" => check.prompt.half \in Half)
  BY DEF CheckType
<1>1. NoPrompt \in PromptType
  BY DEF NoPrompt
<1>2. "nobody" \in Pcs /\ "gap" \in Pcs /\ "top" \in Pcs /\ "stuck" \in Pcs /\ "checked" \in Pcs
      /\ "ended" \in Pcs /\ "displaced" \in Pcs /\ "blind" \in Pcs /\ "prompt" \in Pcs
  BY DEF CheckOver
<1> HIDE DEF Pcs, PromptType
<1>3. strays' \in Nat
  <2>1. CASE UNCHANGED strays
    BY <2>1 DEF CheckType
  <2>2. CASE Strays
    <3>1. strays \in Nat
      BY DEF CheckType
    <3>2. QED
      BY <2>2, <3>1 DEF Strays
  <2>3. UNCHANGED strays \/ Strays
    BY DEF CheckNext, AtTheTable, ButtonPress, PageUndo, TableGoes, Ask, Leaves, Sees, Answer, Missing,
       Between, GapOver, Reads
  <2>4. QED
    BY <2>1, <2>2, <2>3
<1>4. heeded' \in Nat
  <2>1. heeded' = heeded \/ heeded' = check.prompts
    BY DEF CheckNext, AtTheTable, ButtonPress, PageUndo, TableGoes, Ask, Leaves, Sees, Answer, Missing,
       Between, GapOver, Reads
  <2>2. heeded \in Nat /\ check.prompts \in Nat
    BY <1>0 DEF CheckType
  <2>3. QED
    BY <2>1, <2>2
<1>5. undone' \in BOOLEAN
  <2>1. undone' = undone \/ undone' = TRUE
    BY DEF CheckNext, AtTheTable, ButtonPress, PageUndo, TableGoes, Ask, Leaves, Sees, Answer, Missing,
       Between, GapOver, Reads
  <2>2. undone \in BOOLEAN
    BY DEF CheckType
  <2>3. QED
    BY <2>1, <2>2
<1>6. shown' \subseteq Half \X Player
  <2>1. shown \subseteq Half \X Player
    BY DEF CheckType
  <2>2. CASE Answer
    <3>1. PICK h \in Half \cup {Nowhere} :
            (Answers(h) /\ Answered(h, Head(table).kind)) \/ UNCHANGED shown
      BY <2>2, PressedHalfIs DEF Answer
    <3>2. CASE Answered(h, Head(table).kind) /\ Answers(h)
      <4>1. h \in Half /\ PlayerAt(st, h) \in Player
        BY <3>2, StandsAt DEF Answers, Nowhere
      <4>2. shown' = shown \/ shown' = shown \cup {<<h, PlayerAt(st, h)>>}
        BY <3>2 DEF Answered
      <4>3. QED
        BY <2>1, <4>1, <4>2
    <3>3. QED
      BY <2>1, <3>1, <3>2
  <2>3. CASE UNCHANGED shown
    BY <2>1, <2>3
  <2>4. QED
    BY <2>2, <2>3 DEF CheckNext, AtTheTable, ButtonPress, PageUndo, TableGoes, Ask, Leaves, Sees, Missing,
       Between, GapOver, Reads
<1>7. check' \in R /\ (check'.pc = "prompt" => check'.prompt.half \in Half)
  <2>1. CASE UNCHANGED check
    BY <1>0, <2>1
  <2>2. CASE Ask
    <3>1. check.prompts + 1 \in Nat
      BY <1>0
    <3>2. ASSUME NEW p \in Prompts,
                 check' = [check EXCEPT !.pc = "prompt", !.prompt = p, !.prompts = @ + 1]
          PROVE  check' \in R /\ check'.prompt.half \in Half
      <4>1. p \in PromptType /\ p.half \in Half
        BY PromptIs DEF PromptType
      <4>2. QED
        BY <1>0, <1>2, <3>1, <3>2, <4>1
    <3>3. QED
      BY <1>0, <1>2, <2>2, <3>2 DEF Ask
  <2>3. CASE Leaves
    <3>1. check' = [check EXCEPT !.pc = Head(table).kind, !.prompt = NoPrompt]
          /\ Head(table).kind \in {"ended", "displaced", "blind"}
      BY <2>3 DEF Leaves
    <3>2. Head(table).kind \in Pcs /\ Head(table).kind # "prompt"
      BY <1>2, <3>1
    <3>3. QED
      BY <1>0, <1>1, <3>1, <3>2
  <2>4. CASE Answer
    <3>1. PICK h \in Half \cup {Nowhere} : Answered(h, Head(table).kind) \/ UNCHANGED check
      BY <2>4, PressedHalfIs DEF Answer
    <3>2. CASE Answered(h, Head(table).kind)
      <4>1. PICK after, changed :
              /\ after = IF h = check.prompt.half /\ Phase(st) = "playing" /\ check.changed
                         THEN check.after \cup {h} ELSE check.after
              /\ changed = (check.changed \/ Head(table).kind = "ends_changed")
              /\ check' = [check EXCEPT !.pc = "gap", !.prompt = NoPrompt, !.missed = 0, !.answered = h,
                                        !.after = after, !.changed = changed]
        BY <3>2 DEF Answered
      <4>2. after \subseteq Half /\ changed \in BOOLEAN
        <5>1. h = check.prompt.half /\ check.pc = "prompt" => h \in Half
          BY <1>0
        <5>2. check.pc = "prompt" /\ check.after \subseteq Half
          BY <1>0, <2>4 DEF Answer
        <5>3. QED
          BY <4>1, <5>1, <5>2
      <4>3. QED
        BY <1>0, <1>1, <1>2, <4>1, <4>2
    <3>3. QED
      BY <1>0, <3>1, <3>2
  <2>5. CASE Missing
    <3>1. check.missed + 1 \in Nat /\ Nowhere \in Half \cup {Nowhere}
      BY <1>0
    <3>2. PICK pc \in {"nobody", "gap"} :
            check' = [check EXCEPT !.pc = pc, !.prompt = NoPrompt, !.missed = @ + 1, !.answered = Nowhere]
      BY <2>5 DEF Missing
    <3>3. pc \in Pcs /\ pc # "prompt"
      BY <1>2
    <3>4. QED
      BY <1>0, <1>1, <3>1, <3>2, <3>3
  <2>6. CASE Between
    <3>1. PICK changed : /\ changed = (check.changed \/ Head(table).kind = "ends_changed")
                         /\ check' = [check EXCEPT !.changed = changed]
      BY <2>6 DEF Between
    <3>2. changed \in BOOLEAN
      BY <3>1
    <3>3. QED
      BY <1>0, <3>1, <3>2
  <2>7. CASE GapOver
    BY <1>0, <1>2, <2>7 DEF GapOver
  <2>8. QED
    BY <2>1, <2>2, <2>3, <2>4, <2>5, <2>6, <2>7 DEF CheckNext, AtTheTable, ButtonPress, PageUndo,
       TableGoes, Sees
<1>8. QED
  BY <1>3, <1>4, <1>5, <1>6, <1>7 DEF CheckType, Pcs, PromptType

(* A press, on the stream and in the match, while nobody took a point back.*)
LEMMA PressComes ==
  ASSUME NEW h \in Half, ButtonPress(h), Sound(m)
  PROVE  /\ m' = After(m, h) /\ ~m.complete
         /\ \/ m' = m /\ UNCHANGED table
            \/ m' # m /\ table' = Append(table, [kind |-> Transition(m, m'), state |-> m'])
         /\ IF check.pc = "prompt" /\ heeded # check.prompts /\ h = check.prompt.half
            THEN UNCHANGED strays ELSE Strays
         /\ heeded' = check.prompts /\ UNCHANGED <<check, outcomes, undone, shown>>
<1>1. ~m.complete
  BY DEF ButtonPress
<1>2. Pressed([m |-> m, undo |-> undo, high |-> high], h).m = After(m, h)
  BY <1>1, PressIsAfter
<1>3. m' = Pressed([m |-> m, undo |-> undo, high |-> high], h).m
  BY DEF ButtonPress
<1>4. IF m' = m THEN UNCHANGED table ELSE Sends(Transition(m, m'), m')
  BY <1>3 DEF ButtonPress
<1>5. QED
  BY <1>1, <1>2, <1>3, <1>4 DEF ButtonPress, Sends

LEMMA StreamStep == StreamInv /\ CheckNext => StreamInv'
<1> SUFFICES ASSUME StreamInv, CheckNext, ~undone' PROVE InOrder(table', st', m')
  BY DEF StreamInv
<1>1. ~undone
  BY DEF CheckNext, AtTheTable, ButtonPress, PageUndo, TableGoes, Ask, Leaves, Sees, Answer, Missing,
     Between, GapOver, Reads
<1>2. InOrder(table, st, m) /\ Sound(m) /\ m.setIndex \in Nat
  BY <1>1 DEF StreamInv, InOrder, Sound, Match
<1>3. CASE UNCHANGED <<table, st, m>>
  BY <1>2, <1>3
<1>4. ASSUME NEW h \in Half, ButtonPress(h), UNCHANGED st PROVE InOrder(table', st', m')
  <2>1. m' = After(m, h) /\ ~m.complete
        /\ ((m' = m /\ UNCHANGED table)
            \/ table' = Append(table, [kind |-> Transition(m, m'), state |-> m']))
    BY <1>2, <1>4, PressComes
  <2>2. /\ Sound(m') /\ m.setIndex <= m'.setIndex /\ Transition(m, m') \in OwnKind
        /\ Transition(m, m') = "ends_changed" => m'.setIndex > 0
    BY <1>2, <2>1, PressAnswers
  <2>3. CASE m' = m /\ UNCHANGED table
    BY <1>2, <1>4, <2>3
  <2>4. CASE table' = Append(table, [kind |-> Transition(m, m'), state |-> m'])
    BY <1>2, <1>4, <2>2, <2>4, OrderGrows
  <2>5. QED
    BY <2>1, <2>3, <2>4
<1>5. ASSUME TableGoes, UNCHANGED st PROVE InOrder(table', st', m')
  <2>1. PICK kind \in {"ended", "displaced", "blind"} :
          table' = Append(table, [kind |-> kind, state |-> m]) /\ m' = m
    BY <1>5 DEF TableGoes, Sends
  <2>2. kind \in Foreign /\ kind # "ends_changed"
    BY DEF Foreign
  <2>3. m.setIndex <= m.setIndex
    BY <1>2
  <2>4. QED
    BY <1>2, <1>5, <2>1, <2>2, <2>3, OrderGrows
<1>6. ASSUME Reads, st' = st \/ st' = Head(table).state PROVE InOrder(table', st', m')
  <2>1. table # <<>> /\ table' = Tail(table) /\ m' = m
    BY <1>6 DEF Reads
  <2>2. QED
    BY <1>2, <1>6, <2>1, OrderRead
<1>7. CASE AtTheTable /\ UNCHANGED st
  <2>1. ~PageUndo
    BY DEF PageUndo
  <2>2. QED
    BY <1>4, <1>5, <1>7, <2>1 DEF AtTheTable
<1>8. CASE Ask \/ Missing \/ GapOver
  BY <1>3, <1>8 DEF Ask, Missing, GapOver
<1>9. CASE Leaves \/ Sees \/ Answer \/ Between
  BY <1>6, <1>9 DEF Leaves, Sees, Answer, Between
<1>10. QED
  BY <1>7, <1>8, <1>9 DEF CheckNext

(* There is nothing left to ask when the match is won, or when the ends    *)
(* are changed and both halves have had their point since.                 *)
LEMMA NothingToAsk ==
  ASSUME CheckType, Sound(st), Prompts = {}
  PROVE  st.complete \/ (check.changed /\ check.after = Half)
<1>1. Phase(st) \in PhaseName /\ (Phase(st) = "complete" <=> st.complete)
  BY PhaseIs
<1>2. CASE Phase(st) \in {"warmup", "change_ends"}
  <2>1. Waiting(st) = {}
    BY <1>2 DEF Prompts
  <2>2. st.pressed \subseteq Half /\ st.pressed # Half
    BY DEF Sound, Match
  <2>3. QED
    BY <1>2, <2>1, <2>2 DEF Waiting
<1>3. CASE Phase(st) = "serve_rally"
  <2>1. Prompts = {Asks(h) : h \in Half}
    BY <1>3 DEF Prompts
  <2>2. "left" \in Half
    BY DEF Half
  <2>3. QED
    BY <2>1, <2>2
<1>4. CASE Phase(st) = "playing"
  <2>1. Prompts = {Asks(h) : h \in Rallies(check)}
    BY <1>4 DEF Prompts
  <2>2. Rallies(check) = {}
    BY <2>1
  <2>3. check.changed
    BY <2>2 DEF Rallies, Half
  <2>4. Half \ check.after = {}
    BY <2>2, <2>3 DEF Rallies
  <2>5. check.after \subseteq Half
    BY DEF CheckType
  <2>6. QED
    BY <2>3, <2>4, <2>5
<1>5. QED
  BY <1>1, <1>2, <1>3, <1>4 DEF PhaseName

LEMMA PlanStep == CheckType /\ StreamInv /\ PlanInv /\ CheckNext => PlanInv'
<1> SUFFICES ASSUME CheckType, StreamInv, PlanInv, CheckNext PROVE PlanInv'
  OBVIOUS
<1>1. CASE UNCHANGED <<check, shown, st>>
  <2>1. ~undone' => ~undone
    BY DEF CheckNext, AtTheTable, ButtonPress, PageUndo, TableGoes, Ask, Leaves, Sees, Answer, Missing,
       Between, GapOver, Reads
  <2>2. QED
    BY <1>1, <2>1 DEF PlanInv
<1>2. CASE Ask
  <2>1. UNCHANGED <<st, shown, undone>>
    BY <1>2 DEF Ask
  <2>2. check'.after = check.after /\ check'.changed = check.changed
        /\ (check'.pc = "checked" => Prompts = {})
    BY <1>2 DEF Ask, CheckType
  <2>3. ~undone => Sound(st)
    BY DEF StreamInv, InOrder
  <2>4. Prompts = {} /\ ~undone => st.complete \/ (check.changed /\ check.after = Half)
    BY <2>3, NothingToAsk
  <2>5. QED
    BY <2>1, <2>2, <2>4 DEF PlanInv
<1>3. CASE Missing \/ GapOver
  <2>1. UNCHANGED <<st, shown, undone>>
    BY <1>3 DEF Missing, GapOver
  <2>2. check'.after = check.after /\ check'.changed = check.changed /\ check'.pc # "checked"
    BY <1>3 DEF Missing, GapOver, CheckType
  <2>3. QED
    BY <2>1, <2>2 DEF PlanInv
<1>4. ASSUME Reads,
             \/ check'.after = check.after /\ shown' = shown
             \/ \E h, p : p \in Player /\ check'.after \subseteq check.after \cup {h} /\ shown' = shown \cup {<<h, p>>},
             check'.pc # "checked",
             st' = Head(table).state \/ (st' = st /\ check'.changed = check.changed),
             check'.changed => check.changed \/ Head(table).kind = "ends_changed"
      PROVE  PlanInv'
  <2>1. \A h \in check'.after : \E p \in Player : <<h, p>> \in shown'
    BY <1>4 DEF PlanInv
  <2>2. ASSUME ~undone', check'.changed PROVE st'.setIndex > 0
    <3>1. ~undone /\ table # <<>>
      BY <1>4, <2>2 DEF Reads
    <3>2. InOrder(table, st, m) /\ (check.changed => st.setIndex > 0)
      BY <3>1 DEF StreamInv, PlanInv
    <3>3. st.setIndex <= Head(table).state.setIndex
          /\ (Head(table).kind = "ends_changed" => Head(table).state.setIndex > 0)
      BY <3>1, <3>2, OrderRead
    <3>4. st.setIndex \in Nat /\ Head(table).state.setIndex \in Nat
      BY <3>1, <3>2, EventsRead, EventIs DEF InOrder, Sound, Match
    <3>5. CASE st' = st /\ check'.changed = check.changed
      <4>1. check.changed
        BY <2>2, <3>5
      <4>2. QED
        BY <3>2, <3>5, <4>1
    <3>6. CASE st' = Head(table).state
      <4>1. CASE check.changed
        BY <3>2, <3>3, <3>4, <3>6, <4>1
      <4>2. CASE Head(table).kind = "ends_changed"
        BY <3>3, <3>6, <4>2
      <4>3. QED
        BY <1>4, <2>2, <4>1, <4>2
    <3>7. QED
      BY <1>4, <3>5, <3>6
  <2>3. QED
    BY <1>4, <2>1, <2>2 DEF PlanInv
<1>5. CASE Leaves
  <2>1. check' = [check EXCEPT !.pc = Head(table).kind, !.prompt = NoPrompt]
        /\ Head(table).kind # "checked" /\ UNCHANGED <<st, shown>> /\ Reads
    BY <1>5 DEF Leaves
  <2>2. check'.after = check.after /\ check'.changed = check.changed /\ check'.pc # "checked"
    BY <2>1 DEF CheckType
  <2>3. QED
    BY <1>4, <2>1, <2>2
<1>6. CASE Sees
  <2>1. Reads /\ st' = Head(table).state /\ UNCHANGED <<check, shown>>
    BY <1>6 DEF Sees
  <2>2. check'.pc # "checked"
    BY <2>1 DEF Reads
  <2>3. QED
    BY <1>4, <2>1, <2>2
<1>7. CASE Answer
  <2>0. Reads /\ st' = Head(table).state /\ check.pc = "prompt"
    BY <1>7 DEF Answer
  <2>1. PICK h : Answered(h, Head(table).kind) \/ UNCHANGED <<check, shown>>
    BY <1>7 DEF Answer
  <2>2. CASE UNCHANGED <<check, shown>>
    BY <1>4, <2>0, <2>2
  <2>3. CASE Answered(h, Head(table).kind)
    <3>1. PICK after, changed :
            /\ after = IF h = check.prompt.half /\ Phase(st) = "playing" /\ check.changed
                       THEN check.after \cup {h} ELSE check.after
            /\ changed = (check.changed \/ Head(table).kind = "ends_changed")
            /\ check' = [check EXCEPT !.pc = "gap", !.prompt = NoPrompt, !.missed = 0, !.answered = h,
                                      !.after = after, !.changed = changed]
      BY <2>3 DEF Answered
    <3>2. check'.after = after /\ check'.changed = changed /\ check'.pc = "gap"
      BY <3>1 DEF CheckType
    <3>3. shown' = IF h = check.prompt.half /\ Phase(st) = "playing" THEN shown \cup {<<h, PlayerAt(st, h)>>}
                   ELSE shown
      BY <2>3 DEF Answered
    <3>4. CASE h = check.prompt.half /\ Phase(st) = "playing"
      <4>1. PlayerAt(st, h) \in Player
        BY DEF PlayerAt, Player, Opponent
      <4>2. PICK p \in Player : p = PlayerAt(st, h)
        BY <4>1
      <4>3. check'.after \subseteq check.after \cup {h} /\ shown' = shown \cup {<<h, p>>}
        BY <3>1, <3>2, <3>3, <3>4, <4>2
      <4>4. QED
        BY <1>4, <2>0, <3>1, <3>2, <4>3
    <3>5. CASE ~(h = check.prompt.half /\ Phase(st) = "playing")
      <4>1. check'.after = check.after /\ shown' = shown
        BY <3>1, <3>2, <3>3, <3>5
      <4>2. QED
        BY <1>4, <2>0, <3>1, <3>2, <4>1
    <3>6. QED
      BY <3>4, <3>5
  <2>4. QED
    BY <2>1, <2>2, <2>3
<1>8. CASE Between
  <2>1. PICK changed : /\ changed = (check.changed \/ Head(table).kind = "ends_changed")
                       /\ check' = [check EXCEPT !.changed = changed]
                       /\ Reads /\ st' = Head(table).state /\ UNCHANGED shown /\ check.pc = "gap"
    BY <1>8 DEF Between
  <2>2. check'.after = check.after /\ check'.changed = changed /\ check'.pc = "gap"
    BY <2>1 DEF CheckType
  <2>3. QED
    BY <1>4, <2>1, <2>2
<1>9. QED
  BY <1>1, <1>2, <1>3, <1>5, <1>6, <1>7, <1>8 DEF CheckNext, AtTheTable, ButtonPress, PageUndo, TableGoes

-----------------------------------------------------------------------------
(* Everybody does as asked.                                                *)

LEMMA KindsDiffer == \A k \in OwnKind : k \notin Foreign /\ k # "snapshot"
BY DEF OwnKind, Foreign

(* The plan asks for the same as long as it and the match are.             *)
LEMMA PromptsStay ==
  ASSUME st' = st, check'.changed = check.changed, check'.after = check.after, check'.winner = check.winner
  PROVE  Prompts' = Prompts
<1>1. Rallies(check)' = Rallies(check)
  BY DEF Rallies
<1>2. QED
  BY <1>1 DEF Prompts, Asks

(* What is answered when everybody does as asked: the prompt.              *)
LEMMA CleanAnswer ==
  ASSUME CheckType, StreamInv, CleanInv, Answer
  PROVE  /\ Sound(st) /\ ~st.complete /\ check.pc = "prompt" /\ check.prompt \in Prompts
         /\ check.prompt.half \in Half /\ m = After(st, check.prompt.half) /\ m # st
         /\ st' = m /\ Head(table).kind = Transition(st, m)
         /\ Answered(check.prompt.half, Transition(st, m))
         /\ m' = m /\ table' = Tail(table) /\ ~OwnOn(table') /\ UNCHANGED <<undone, heeded, strays>>
<1> DEFINE h == check.prompt.half
<1>1. /\ check.pc = "prompt" /\ Own /\ table # <<>> /\ table' = Tail(table) /\ st' = Head(table).state
      /\ UNCHANGED <<m, strays, heeded, undone>>
  BY DEF Answer, Reads
<1>2. InOrder(table, st, m) /\ Sound(st) /\ table \in Seq(Event)
  BY DEF StreamInv, CleanInv, InOrder
<1>3. Head(table).kind \in OwnKind /\ 1 \in 1..Len(table) /\ Head(table) = table[1] /\ Len(table) \in Nat
  <2>1. Head(table).kind \in OwnKind \cup Foreign \cup {"snapshot"}
    BY <1>1, <1>2, OrderRead
  <2>2. QED
    BY <1>1, <1>2, <2>1, EventsRead DEF Own, Foreign
<1>4. CleanStream /\ check.prompt \in Prompts /\ h \in Half
  BY <1>1 DEF CleanInv, CleanStream, CheckType, CheckOver
<1>5. /\ m = After(st, h) /\ m # st /\ ~st.complete
      /\ \A k \in 1..Len(table) : table[k].kind \in OwnKind => k = 1
      /\ table[1] = [kind |-> Transition(st, m), state |-> m]
  BY <1>3, <1>4 DEF CleanStream, OwnOn
<1>6. Head(table).kind = Transition(st, m) /\ Head(table).state = m
  BY <1>3, <1>5
<1> HIDE DEF h
<1>7. PressedHalf(Transition(st, m), st, m) = h
  BY <1>2, <1>4, <1>5, PressAnswers
<1>8. Answers(h)
  <2>1. check.prompt.kind = PressKind(Phase(st)) /\ check.prompt.phase = Phase(st)
    <3>1. PICK p \in Prompts : p = check.prompt
      BY <1>4
    <3>2. QED
      BY <3>1, PromptIs
  <2>2. h # Nowhere
    BY <1>4 DEF Half, Nowhere
  <2>3. QED
    BY <2>1, <2>2 DEF Answers
<1>9. Answered(h, Transition(st, m))
  BY <1>6, <1>7, <1>8 DEF Answer
<1>10. ~OwnOn(table')
  <2>1. ASSUME NEW k \in 1..Len(Tail(table)) PROVE Tail(table)[k].kind \notin OwnKind
    <3>1. Tail(table)[k] = table[k + 1] /\ k + 1 \in 1..Len(table) /\ k + 1 # 1
      BY <1>1, <1>2, EventsRead
    <3>2. QED
      BY <1>5, <3>1
  <2>2. QED
    BY <1>1, <2>1 DEF OwnOn
<1>11. QED
  BY <1>1, <1>2, <1>4, <1>5, <1>6, <1>9, <1>10 DEF h

(* With no press on the stream and none to come of itself, zaehlwerk's     *)
(* match is the game's.                                                    *)
LEMMA CleanQuiet ==
  ASSUME CheckType, CleanInv, check.pc # "prompt", check.pc \notin CheckOver
  PROVE  ~OwnOn(table) /\ m = st
BY DEF CleanInv, CleanStream, OwnOn

LEMMA CleanBy ==
  ASSUME ~undone', outcomes' = {}, check'.missed = 0, heeded' <= check'.prompts,
         check'.pc \notin CheckOver => CleanStream', check'.pc = "prompt" => check'.prompt \in Prompts',
         \A k \in 1..Len(table') : table'[k].kind = "snapshot" => table'[k].state = st' /\ k = 1
  PROVE  CleanInv'
BY DEF CleanInv

LEMMA CleanStep ==
  ASSUME CheckType, StreamInv, CleanInv, strays' = 0, CheckNext
  PROVE  CleanInv'
<1>1. ~undone /\ InOrder(table, st, m) /\ Sound(st) /\ Sound(m) /\ table \in Seq(Event)
      /\ Len(table) \in Nat /\ outcomes = {} /\ check.missed = 0 /\ heeded <= check.prompts
      /\ check.prompts \in Nat /\ heeded \in Nat
      /\ \A k \in 1..Len(table) : table[k].kind = "snapshot" => table[k].state = st /\ k = 1
  BY DEF CleanInv, StreamInv, InOrder, CheckType
<1>2. ~Strays
  <2>1. strays \in Nat
    BY DEF CheckType
  <2>2. QED
    BY <2>1 DEF Strays
<1>3. ASSUME NEW h \in Half, ButtonPress(h), UNCHANGED st PROVE CleanInv'
  <2>1. /\ m' = After(m, h) /\ ~m.complete
        /\ \/ m' = m /\ UNCHANGED table
           \/ m' # m /\ table' = Append(table, [kind |-> Transition(m, m'), state |-> m'])
        /\ check.pc = "prompt" /\ heeded # check.prompts /\ h = check.prompt.half
        /\ heeded' = check.prompts /\ UNCHANGED <<check, outcomes, undone, shown>>
    BY <1>1, <1>2, <1>3, PressComes
  <2>2. ~OwnOn(table) /\ m = st
    BY <2>1 DEF CleanInv, CleanStream, OwnOn, CheckOver
  <2>3. check'.prompt \in Prompts'
    BY <1>3, <2>1, PromptsStay DEF CleanInv
  <2>4. CASE m' = m /\ UNCHANGED table
    <3>1. CleanStream'
      BY <1>3, <2>2, <2>4 DEF CleanStream, OwnOn
    <3>2. QED
      BY <1>1, <1>3, <2>1, <2>3, <2>4, <3>1, CleanBy
  <2>5. CASE m' # m /\ table' = Append(table, [kind |-> Transition(m, m'), state |-> m'])
    <3> DEFINE e == [kind |-> Transition(m, m'), state |-> m']
    <3>1. Sound(m') /\ Transition(m, m') \in OwnKind
      BY <1>1, <2>1, PressAnswers
    <3>2. e \in Event /\ e.kind = Transition(m, m')
      BY <3>1 DEF Event, Sound
    <3>3. table' = Append(table, e)
      BY <2>5
    <3>4. e = [kind |-> Transition(st, m'), state |-> m']
      BY <2>2
    <3> HIDE DEF e
    <3>5. /\ Len(table') = Len(table) + 1 /\ table'[Len(table) + 1] = e
          /\ \A k \in 1..Len(table) : table'[k] = table[k]
      BY <1>1, <3>2, <3>3, EventsAppended
    <3>6. \A k \in 1..Len(table') : k = Len(table) + 1 \/ k \in 1..Len(table)
      BY <1>1, <3>5
    <3>7. \A k \in 1..Len(table') : table'[k].kind \in OwnKind => k = Len(table) + 1
      BY <2>2, <3>5, <3>6 DEF OwnOn
    <3>8. OwnOn(table')
      <4>1. Len(table) + 1 \in 1..Len(table')
        BY <1>1, <3>5
      <4>2. QED
        BY <3>1, <3>2, <3>5, <4>1 DEF OwnOn
    <3>9. \A k \in 1..Len(table') : table'[k].kind = "snapshot" => table'[k].state = st' /\ k = 1
      <4>1. e.kind # "snapshot"
        BY <3>1, <3>2, KindsDiffer
      <4>2. QED
        BY <1>1, <1>3, <3>5, <3>6, <4>1
    <3>10. CleanStream'
      BY <1>3, <2>1, <2>2, <2>5, <3>4, <3>5, <3>7, <3>8 DEF CleanStream
    <3>11. heeded' <= check'.prompts
      BY <1>1, <2>1
    <3>12. QED
      BY <1>1, <2>1, <2>3, <3>9, <3>10, <3>11, CleanBy
  <2>6. QED
    BY <2>1, <2>4, <2>5
<1>4. ASSUME TableGoes, UNCHANGED st PROVE CleanInv'
  <2>1. PICK kind \in {"ended", "displaced", "blind"} :
          /\ table' = Append(table, [kind |-> kind, state |-> m])
          /\ UNCHANGED <<m, check, outcomes, heeded, undone>> /\ check.pc \notin CheckOver
    BY <1>4 DEF TableGoes, Sends
  <2> DEFINE e == [kind |-> kind, state |-> m]
  <2>2. e \in Event /\ e.kind \in Foreign
    BY <1>1, <2>1 DEF Event, Sound, Foreign
  <2>3. e.kind \notin OwnKind /\ e.kind # "snapshot"
    BY <2>1 DEF OwnKind
  <2> HIDE DEF e
  <2>4. /\ Len(table') = Len(table) + 1 /\ table'[Len(table) + 1] = e
        /\ \A k \in 1..Len(table) : table'[k] = table[k]
    BY <1>1, <2>1, <2>2, EventsAppended DEF e
  <2>5. \A k \in 1..Len(table') : k = Len(table) + 1 \/ k \in 1..Len(table)
    BY <1>1, <2>4
  <2>6. \A k \in 1..Len(table) : k \in 1..Len(table')
    BY <1>1, <2>4
  <2>7. OwnOn(table') = OwnOn(table)
    BY <2>3, <2>4, <2>5, <2>6 DEF OwnOn
  <2>8. CleanStream'
    <3>1. CleanStream
      BY <2>1 DEF CleanInv
    <3>2. CASE OwnOn(table)
      <4>1. /\ check.pc = "prompt" /\ heeded = check.prompts
            /\ m = After(st, check.prompt.half) /\ m # st /\ ~st.complete
            /\ \A k, l \in 1..Len(table) :
                 table[k].kind \in OwnKind /\ table[l].kind \in OwnKind => k = l
            /\ \A k \in 1..Len(table) :
                 table[k].kind \in OwnKind => table[k] = [kind |-> Transition(st, m), state |-> m]
        BY <3>1, <3>2 DEF CleanStream
      <4>2. \A k \in 1..Len(table') : table'[k].kind \in OwnKind => k \in 1..Len(table) /\ table'[k] = table[k]
        BY <2>3, <2>4, <2>5
      <4>3. /\ check'.pc = "prompt" /\ heeded' = check'.prompts
            /\ m' = After(st', check'.prompt.half) /\ m' # st' /\ ~st'.complete
            /\ \A k, l \in 1..Len(table') :
                 table'[k].kind \in OwnKind /\ table'[l].kind \in OwnKind => k = l
            /\ \A k \in 1..Len(table') :
                 table'[k].kind \in OwnKind => table'[k] = [kind |-> Transition(st', m'), state |-> m']
        BY <1>4, <2>1, <4>1, <4>2
      <4>4. QED
        BY <2>7, <3>2, <4>3 DEF CleanStream
    <3>3. CASE ~OwnOn(table)
      BY <1>4, <2>1, <2>7, <3>1, <3>3 DEF CleanStream
    <3>4. QED
      BY <3>2, <3>3
  <2>9. \A k \in 1..Len(table') : table'[k].kind = "snapshot" => table'[k].state = st' /\ k = 1
    BY <1>1, <1>4, <2>3, <2>4, <2>5
  <2>10. check'.pc = "prompt" => check'.prompt \in Prompts'
    BY <1>4, <2>1, PromptsStay DEF CleanInv
  <2>11. QED
    BY <1>1, <2>1, <2>8, <2>9, <2>10, CleanBy
<1>5. CASE Ask
  <2>1. UNCHANGED <<m, st, outcomes, table, heeded, undone>> /\ check.pc = "top"
    BY <1>5 DEF Ask
  <2>2. ~OwnOn(table) /\ m = st
    BY <2>1, CleanQuiet DEF CheckOver
  <2>3. CleanStream'
    BY <2>1, <2>2 DEF CleanStream, OwnOn
  <2>4. /\ check'.missed = 0 /\ heeded' <= check'.prompts
        /\ check'.pc = "prompt" => check'.prompt \in Prompts
        /\ check'.changed = check.changed /\ check'.after = check.after /\ check'.winner = check.winner
    <3>1. CASE check'.pc # "prompt"
      <4>1. PICK pc \in {"stuck", "checked"} : check' = [check EXCEPT !.pc = pc]
        BY <1>5, <3>1 DEF Ask, CheckType
      <4>2. QED
        BY <1>1, <2>1, <3>1, <4>1 DEF CheckType
    <3>2. CASE check'.pc = "prompt"
      <4>1. PICK p \in Prompts : check' = [check EXCEPT !.pc = "prompt", !.prompt = p, !.prompts = @ + 1]
        BY <1>5, <3>2 DEF Ask, CheckType
      <4>2. /\ check'.missed = 0 /\ check'.prompt = p /\ check'.prompts = check.prompts + 1
            /\ check'.changed = check.changed /\ check'.after = check.after /\ check'.winner = check.winner
        BY <1>1, <4>1 DEF CheckType
      <4>3. QED
        BY <1>1, <2>1, <4>2
    <3>3. QED
      BY <3>1, <3>2
  <2>5. check'.pc = "prompt" => check'.prompt \in Prompts'
    BY <2>1, <2>4, PromptsStay
  <2>6. QED
    BY <1>1, <2>1, <2>3, <2>4, <2>5, CleanBy
<1>6. ASSUME Reads
      PROVE  \A k \in 1..Len(table') :
               /\ table'[k] = table[k + 1] /\ k + 1 \in 1..Len(table)
               /\ table'[k].kind # "snapshot"
  <2>1. table # <<>> /\ table' = Tail(table)
    BY <1>6 DEF Reads
  <2>2. \A k \in 1..Len(table') : table'[k] = table[k + 1] /\ k + 1 \in 1..Len(table)
    BY <1>1, <2>1, EventsRead
  <2>3. \A k \in 1..Len(table') : k + 1 # 1
    OBVIOUS
  <2>4. QED
    BY <1>1, <2>2, <2>3
<1>7. CASE Leaves
  <2>1. /\ check' = [check EXCEPT !.pc = Head(table).kind, !.prompt = NoPrompt] /\ Reads
        /\ Head(table).kind \in {"ended", "displaced", "blind"}
        /\ UNCHANGED <<outcomes, undone, heeded>>
    BY <1>7 DEF Leaves, Reads
  <2>2. check'.missed = 0 /\ check'.prompts = check.prompts /\ check'.pc \in CheckOver /\ check'.pc # "prompt"
    BY <1>1, <2>1 DEF CheckType, CheckOver
  <2>3. QED
    BY <1>1, <1>6, <2>1, <2>2, CleanBy
<1>8. CASE Sees
  <2>1. /\ Reads /\ Head(table).kind = "snapshot" /\ st' = Head(table).state /\ table # <<>>
        /\ UNCHANGED <<m, check, outcomes, heeded, undone>> /\ table' = Tail(table)
        /\ check.pc \notin CheckOver
    BY <1>8 DEF Sees, Reads, CheckOver
  <2>2. Head(table) = table[1] /\ 1 \in 1..Len(table)
    BY <1>1, <2>1, EventsRead
  <2>3. st' = st
    BY <1>1, <2>1, <2>2
  <2>4. OwnOn(table') = OwnOn(table)
    <3>1. ASSUME OwnOn(table) PROVE OwnOn(table')
      <4>1. PICK k \in 1..Len(table) : table[k].kind \in OwnKind
        BY <3>1 DEF OwnOn
      <4>2. k # 1
        BY <2>1, <2>2, <4>1, KindsDiffer
      <4>3. k - 1 \in 1..Len(table') /\ (k - 1) + 1 = k
        <5>1. Len(table') = Len(table) - 1
          BY <1>1, <2>1, EventsRead
        <5>2. QED
          BY <1>1, <4>2, <5>1
      <4>4. table'[k - 1] = table[k]
        BY <1>6, <2>1, <4>3
      <4>5. QED
        BY <4>1, <4>3, <4>4 DEF OwnOn
    <3>2. ASSUME OwnOn(table') PROVE OwnOn(table)
      BY <1>6, <2>1, <3>2 DEF OwnOn
    <3>3. OwnOn(table) \in BOOLEAN /\ OwnOn(table') \in BOOLEAN
      BY DEF OwnOn
    <3>4. QED
      BY <3>1, <3>2, <3>3
  <2>5. CleanStream'
    <3>1. CleanStream
      BY <2>1 DEF CleanInv
    <3>2. CASE OwnOn(table)
      <4>1. /\ check.pc = "prompt" /\ heeded = check.prompts
            /\ m = After(st, check.prompt.half) /\ m # st /\ ~st.complete
            /\ \A k, l \in 1..Len(table) :
                 table[k].kind \in OwnKind /\ table[l].kind \in OwnKind => k = l
            /\ \A k \in 1..Len(table) :
                 table[k].kind \in OwnKind => table[k] = [kind |-> Transition(st, m), state |-> m]
        BY <3>1, <3>2 DEF CleanStream
      <4>2. \A k, l \in 1..Len(table') : table'[k].kind \in OwnKind /\ table'[l].kind \in OwnKind => k = l
        <5>1. SUFFICES ASSUME NEW k \in 1..Len(table'), NEW l \in 1..Len(table'),
                              table'[k].kind \in OwnKind, table'[l].kind \in OwnKind
                       PROVE  k = l
          OBVIOUS
        <5>2. k + 1 = l + 1
          BY <1>6, <2>1, <4>1, <5>1
        <5>3. QED
          BY <5>2
      <4>3. \A k \in 1..Len(table') :
              table'[k].kind \in OwnKind => table'[k] = [kind |-> Transition(st, m), state |-> m]
        BY <1>6, <2>1, <4>1
      <4>4. QED
        BY <2>1, <2>3, <2>4, <3>2, <4>1, <4>2, <4>3 DEF CleanStream
    <3>3. CASE ~OwnOn(table)
      BY <2>1, <2>3, <2>4, <3>1, <3>3 DEF CleanStream
    <3>4. QED
      BY <3>2, <3>3
  <2>6. check'.pc = "prompt" => check'.prompt \in Prompts'
    BY <2>1, <2>3, PromptsStay DEF CleanInv
  <2>7. QED
    BY <1>1, <1>6, <2>1, <2>5, <2>6, CleanBy
<1>9. CASE Answer
  <2>1. /\ st' = m /\ m' = m /\ table' = Tail(table) /\ ~OwnOn(table') /\ UNCHANGED <<undone, heeded>>
        /\ Answered(check.prompt.half, Transition(st, m)) /\ Reads
    BY <1>9, CleanAnswer DEF Answer
  <2>2. /\ check'.pc = "gap" /\ check'.missed = 0 /\ check'.prompts = check.prompts /\ UNCHANGED outcomes
    BY <2>1 DEF Answered, CheckType
  <2>3. CleanStream'
    BY <2>1 DEF CleanStream
  <2>4. QED
    BY <1>1, <1>6, <2>1, <2>2, <2>3, CleanBy
<1>10. ~Missing
  BY <1>1, <1>2 DEF Missing
<1>11. ~Between
  <2>1. SUFFICES ASSUME Between PROVE FALSE
    OBVIOUS
  <2>2. check.pc = "gap" /\ Own /\ table # <<>>
    BY <2>1 DEF Between, Own
  <2>3. ~OwnOn(table)
    BY <2>2, CleanQuiet DEF CheckOver
  <2>4. Head(table).kind \in OwnKind \cup Foreign \cup {"snapshot"} /\ Head(table) = table[1] /\ 1 \in 1..Len(table)
    BY <1>1, <2>2, OrderRead, EventsRead
  <2>5. QED
    BY <2>2, <2>3, <2>4 DEF Own, Foreign, OwnOn
<1>12. CASE GapOver
  <2>1. /\ check.pc = "gap" /\ UNCHANGED <<m, st, outcomes, table, heeded, undone>>
        /\ check'.pc = "top" /\ check'.missed = check.missed /\ check'.prompts = check.prompts
    BY <1>12 DEF GapOver, CheckType
  <2>2. ~OwnOn(table) /\ m = st
    BY <2>1, CleanQuiet DEF CheckOver
  <2>3. CleanStream'
    BY <2>1, <2>2 DEF CleanStream, OwnOn
  <2>4. QED
    BY <1>1, <2>1, <2>3, CleanBy
<1>13. ~PageUndo
  BY <1>2 DEF PageUndo
<1>14. QED
  BY <1>3, <1>4, <1>5, <1>7, <1>8, <1>9, <1>10, <1>11, <1>12, <1>13 DEF CheckNext, AtTheTable

-----------------------------------------------------------------------------
(* What it has been shown.                                                 *)

LEMMA AtHome ==
  ASSUME NEW x, NEW h \in Half
  PROVE  /\ x.setIndex = 0 => PlayerAt(x, h) = Home(h)
         /\ x.setIndex = 1 /\ ChangeEnds => PlayerAt(x, h) = Opponent(Home(h))
<1>1. 0 % 2 = 0 /\ 1 % 2 = 1
  OBVIOUS
<1>2. QED
  BY <1>1 DEF PlayerAt, Swapped, Home

LEMMA HomesAreTwo ==
  ASSUME NEW h \in Half
  PROVE  Home(h) \in Player /\ Home(OtherHalf(h)) = Opponent(Home(h)) /\ Home(OtherHalf(h)) # Home(h)
BY DEF Home, OtherHalf, Opponent, Player, Half

LEMMA ShownStays ==
  ASSUME ShownInv, UNCHANGED <<st, shown>>, check'.changed = check.changed,
         check'.after = check.after, check'.winner = check.winner
  PROVE  ShownInv'
BY DEF ShownInv, FirstSet, SecondSet

(* A point the plan asked for, in the first set.                           *)
LEMMA FirstSetPoint ==
  ASSUME CheckType, Sound(st), ~st.complete, ShownInv, st.setIndex = 0, Phase(st) = "playing",
         NEW h \in Rallies(check), NEW y, y = Scored(st, PlayerAt(st, h), 1), st' = y,
         UNCHANGED <<check.changed, check.after, check.winner>>,
         shown' = shown \cup {<<h, PlayerAt(st, h)>>}
  PROVE  ShownInv'
<1> DEFINE g == OtherHalf(h)
           w == check.winner
           l == OtherHalf(check.winner)
<1>1. /\ h \in Half /\ w \in Half /\ l \in Half /\ l # w /\ OtherHalf(l) = w
      /\ \A k \in Half : k = w \/ k = l
  BY RalliesAre, HalvesAreTwo DEF CheckType
<1>2. PICK p \in Player : p = Home(h)
  BY <1>1, HomesAreTwo
<1>3. \A k \in Half : PlayerAt(st, k) = Home(k)
  BY AtHome
<1>4. FirstSet
  BY DEF ShownInv
<1>5. PICK pts : pts = PointsAfter(st, p, 1)
  OBVIOUS
<1>6. y = Scored(st, p, 1)
  BY <1>1, <1>2, <1>3
<1>7. /\ Sound(y)
      /\ \/ /\ Takes(pts, p) /\ y.sets = [st.sets EXCEPT ![p] = @ + 1]
            /\ y.complete => y.setIndex = st.setIndex /\ y.points = pts
            /\ ~y.complete => y.setIndex = st.setIndex + 1 /\ y.points = Love
                              /\ (ChangeEnds => y.endsPending)
         \/ /\ ~Takes(pts, p) /\ y.sets = st.sets /\ y.setIndex = st.setIndex /\ y.points = pts
            /\ ~y.complete /\ Phase(y) = "playing"
  BY <1>5, <1>6, PointMakes
<1>8. /\ pts[p] = st.points[p] + 1 /\ pts[Opponent(p)] = st.points[Opponent(p)] /\ st \in Match
      /\ st.points[p] \in Nat /\ st.points[Opponent(p)] \in Nat
  <2>1. st \in Match /\ Opponent(p) \in Player
    BY PlayersAreTwo DEF Sound
  <2>2. st.points \in [Player -> Nat]
    BY <2>1 DEF Match, Score
  <2>3. QED
    BY <1>5, <2>1, <2>2, OnePointMore
<1>9. \A k \in Half : k # h => k = g /\ Home(k) = Opponent(p)
  BY <1>1, <1>2, HalvesAreTwo, HomesAreTwo
<1>10. ~check.changed /\ check.after = {} /\ check'.winner = w /\ ~check'.changed /\ check'.after = {}
  BY <1>4 DEF FirstSet
<1>11. shown' = shown \cup {<<h, Home(h)>>}
  BY <1>1, <1>3
<1>12. /\ FewWon \in Nat /\ FewWon < PointsPerSet /\ EnoughLost \in Nat /\ EnoughLost < PointsPerSet
       /\ FewWon > 0 /\ EnoughLost > 0 /\ PointsPerSet \in Nat
  BY CheckAssumption, FormatIsNatural
<1>13. /\ st.points[Home(l)] <= EnoughLost
       /\ st.points[Home(l)] = 0 => st.points[Home(w)] <= FewWon
  BY <1>4 DEF FirstSet
<1>14. /\ h = l => st.points[Home(l)] < EnoughLost
       /\ h = w => st.points[Home(l)] > 0 \/ st.points[Home(w)] < FewWon
  <2>1. Rallies(check) = IF st.points[Home(l)] >= EnoughLost THEN {w}
                         ELSE IF st.points[Home(l)] = 0 /\ st.points[Home(w)] >= FewWon THEN {l}
                         ELSE Half
    BY <1>1, <1>3, <1>10 DEF Rallies
  <2>2. st.points[Home(l)] \in Nat /\ st.points[Home(w)] \in Nat
    <3>1. st.points \in [Player -> Nat] /\ Home(l) \in Player /\ Home(w) \in Player
      BY <1>1, <1>8, HomesAreTwo DEF Match, Score
    <3>2. QED
      BY <3>1
  <2>3. ASSUME h = l PROVE ~(st.points[Home(l)] >= EnoughLost)
    BY <1>1, <2>1, <2>3
  <2>4. ASSUME h = w PROVE ~(st.points[Home(l)] = 0 /\ st.points[Home(w)] >= FewWon)
    <3>1. ASSUME st.points[Home(l)] = 0, st.points[Home(w)] >= FewWon PROVE FALSE
      <4>1. ~(st.points[Home(l)] >= EnoughLost)
        BY <1>12, <3>1
      <4>2. Rallies(check) = {l}
        BY <2>1, <3>1, <4>1
      <4>3. QED
        BY <1>1, <2>4, <4>2
    <3>2. QED
      BY <3>1
  <2> HIDE DEF l, w
  <2>5. QED
    BY <1>12, <2>2, <2>3, <2>4
<1> HIDE DEF g, l, w
<1>15. CASE ~Takes(pts, p)
  <2>1. y.setIndex = 0 /\ y.points = pts /\ ~y.complete
    BY <1>7, <1>15
  <2>2. ASSUME NEW k \in Half, y.points[Home(k)] > 0 PROVE <<k, Home(k)>> \in shown'
    <3>1. CASE k = h
      BY <1>11, <3>1
    <3>2. CASE k # h
      <4>1. st.points[Home(k)] > 0
        BY <1>8, <1>9, <2>1, <2>2, <3>2
      <4>2. QED
        BY <1>4, <1>11, <4>1 DEF FirstSet
    <3>3. QED
      BY <3>1, <3>2
  <2>3. CASE h = l
    <3>1. y.points[Home(l)] = st.points[Home(l)] + 1
      BY <1>2, <1>8, <2>1, <2>3
    <3>2. st.points[Home(l)] \in Nat
      BY <1>2, <1>8, <2>3
    <3>3. y.points[Home(l)] <= EnoughLost /\ y.points[Home(l)] # 0
      BY <1>12, <1>14, <2>3, <3>1, <3>2
    <3>4. FirstSet'
      BY <1>10, <2>2, <3>3 DEF FirstSet, l
    <3>5. QED
      BY <2>1, <3>4 DEF ShownInv
  <2>4. CASE h = w
    <3>1. y.points[Home(w)] = st.points[Home(w)] + 1 /\ y.points[Home(l)] = st.points[Home(l)]
      BY <1>1, <1>2, <1>8, <1>9, <2>1, <2>4
    <3>2. st.points[Home(w)] \in Nat /\ st.points[Home(l)] \in Nat
      BY <1>1, <1>2, <1>8, <1>9, <2>4
    <3>3. y.points[Home(l)] <= EnoughLost /\ (y.points[Home(l)] = 0 => y.points[Home(w)] <= FewWon)
      BY <1>12, <1>13, <1>14, <2>4, <3>1, <3>2
    <3>4. FirstSet'
      BY <1>10, <2>2, <3>3 DEF FirstSet, l, w
    <3>5. QED
      BY <2>1, <3>4 DEF ShownInv
  <2>5. QED
    BY <1>1, <2>3, <2>4
<1>16. CASE Takes(pts, p)
  <2>1. /\ y.complete => y.setIndex = 0 /\ y.points = pts
        /\ ~y.complete => y.setIndex = 1 /\ y.points = Love /\ (ChangeEnds => y.endsPending)
    BY <1>7, <1>16
  <2>2. st.points[p] + 1 >= PointsPerSet
    BY <1>8, <1>16 DEF Takes
  <2>3. h = w /\ st.points[Home(l)] > 0
    <3>1. h # l
      <4>1. SUFFICES ASSUME h = l PROVE FALSE
        OBVIOUS
      <4>2. st.points[p] < EnoughLost
        BY <1>2, <1>14, <4>1
      <4>3. QED
        BY <1>8, <1>12, <2>2, <4>2
    <3>2. h = w
      BY <1>1, <3>1
    <3>3. ~(st.points[p] < FewWon)
      BY <1>8, <1>12, <2>2
    <3>4. QED
      BY <1>2, <1>14, <3>2, <3>3
  <2>4. \A k \in Half : <<k, Home(k)>> \in shown'
    <3>1. <<l, Home(l)>> \in shown
      BY <1>1, <1>4, <2>3 DEF FirstSet
    <3>2. QED
      BY <1>1, <1>11, <2>3, <3>1
  <2>5. CASE y.complete
    <3>1. FirstSet'
      BY <1>10, <2>4, <2>5 DEF FirstSet
    <3>2. QED
      BY <2>1, <2>5, <3>1 DEF ShownInv
  <2>6. CASE ~y.complete
    <3>1. SecondSet'
      BY <1>10, <2>1, <2>6 DEF SecondSet
    <3>2. QED
      BY <2>1, <2>4, <2>6, <3>1 DEF ShownInv
  <2>7. QED
    BY <2>5, <2>6
<1>17. QED
  BY <1>15, <1>16

(* A point in a later set: the plan asks for one at either half, once the  *)
(* ends are changed.                                                       *)
LEMMA LaterPoint ==
  ASSUME CheckType, Sound(st), ~st.complete, ShownInv, st.setIndex # 0, Phase(st) = "playing",
         NEW h \in Rallies(check), NEW y, y = Scored(st, PlayerAt(st, h), 1), st' = y,
         check'.changed = check.changed, check'.winner = check.winner,
         check'.after = IF check.changed THEN check.after \cup {h} ELSE check.after,
         shown' = shown \cup {<<h, PlayerAt(st, h)>>}
  PROVE  ShownInv'
<1>1. h \in Half /\ PlayerAt(st, h) \in Player /\ st \in Match /\ st.setIndex \in Nat
  BY RalliesAre, StandsAt DEF CheckType, Sound, Match
<1>2. PICK p \in Player : p = PlayerAt(st, h)
  BY <1>1
<1>3. PICK pts : pts = PointsAfter(st, p, 1)
  OBVIOUS
<1>4. /\ Sound(y)
      /\ \/ /\ Takes(pts, p) /\ y.sets = [st.sets EXCEPT ![p] = @ + 1]
            /\ y.complete => y.setIndex = st.setIndex /\ y.points = pts
            /\ ~y.complete => y.setIndex = st.setIndex + 1 /\ y.points = Love
                              /\ (ChangeEnds => y.endsPending)
         \/ /\ ~Takes(pts, p) /\ y.sets = st.sets /\ y.setIndex = st.setIndex /\ y.points = pts
            /\ ~y.complete /\ Phase(y) = "playing"
  BY <1>2, <1>3, PointMakes
<1>5. SecondSet /\ \A k \in Half : <<k, Home(k)>> \in shown
  BY DEF ShownInv
<1>6. y.setIndex # 0 /\ \A k \in Half : <<k, Home(k)>> \in shown'
  <2>1. y.setIndex = st.setIndex \/ y.setIndex = st.setIndex + 1
    BY <1>4
  <2>2. st.setIndex + 1 # 0
    BY <1>1
  <2>3. QED
    BY <1>5, <2>1, <2>2
<1>7. CASE ~check.changed
  <2>1. ~st.endsPending
    BY <1>1, PhaseIs DEF Sound, Match
  <2>2. ~ChangeEnds /\ check'.after = {}
    BY <1>5, <1>7, <2>1 DEF SecondSet
  <2>3. SecondSet'
    BY <1>7, <2>2 DEF SecondSet
  <2>4. QED
    BY <1>6, <2>3 DEF ShownInv
<1>8. CASE check.changed
  <2>1. /\ h \notin check.after /\ ChangeEnds /\ st.setIndex = 1
        /\ \A k \in Half : st.points[PlayerAt(st, k)] = IF k \in check.after THEN 1 ELSE 0
        /\ \A k \in check.after : <<k, PlayerAt(st, k)>> \in shown
    BY <1>5, <1>8 DEF Rallies, SecondSet
  <2>2. st.points[p] = 0
    BY <1>1, <1>2, <2>1
  <2>3. pts[p] = 1 /\ pts[Opponent(p)] = st.points[Opponent(p)]
    <3>1. pts[p] = st.points[p] + 1 /\ pts[Opponent(p)] = st.points[Opponent(p)]
      BY <1>1, <1>3, OnePointMore
    <3>2. QED
      BY <2>2, <3>1
  <2>4. ~Takes(pts, p)
    BY <2>3, FormatIsNatural DEF Takes
  <2>5. y.setIndex = 1 /\ y.points = pts /\ Phase(y) = "playing"
    BY <1>4, <2>1, <2>4
  <2>6. \A k \in Half : PlayerAt(y, k) = PlayerAt(st, k)
    BY <2>1, <2>5 DEF PlayerAt, Swapped
  <2>7. \A k \in Half : k = h \/ (k # h /\ PlayerAt(st, k) = Opponent(p))
    BY <1>1, <1>2, HalvesAreTwo, StandsAt
  <2>8. check'.after = check.after \cup {h} /\ check'.changed
    BY <1>8
  <2>9. \A k \in Half : y.points[PlayerAt(y, k)] = IF k \in check'.after THEN 1 ELSE 0
    <3>1. SUFFICES ASSUME NEW k \in Half
                   PROVE  y.points[PlayerAt(y, k)] = IF k \in check'.after THEN 1 ELSE 0
      OBVIOUS
    <3>2. CASE k = h
      BY <1>1, <1>2, <2>3, <2>5, <2>6, <2>8, <3>2
    <3>3. CASE k # h /\ PlayerAt(st, k) = Opponent(p)
      BY <2>1, <2>3, <2>5, <2>6, <2>8, <3>3
    <3>4. QED
      BY <2>7, <3>2, <3>3
  <2>10. check.after \subseteq Half
    BY DEF CheckType
  <2>11. \A k \in check'.after : <<k, PlayerAt(y, k)>> \in shown'
    BY <1>1, <2>1, <2>6, <2>8, <2>10
  <2>12. SecondSet'
    BY <2>1, <2>5, <2>8, <2>9, <2>11 DEF SecondSet
  <2>13. QED
    BY <1>6, <2>12 DEF ShownInv
<1>9. QED
  BY <1>7, <1>8

(* A ready, or the rally for the serve: nobody's points move.              *)
LEMMA NoPoint ==
  ASSUME CheckType, Sound(st), ~st.complete, ShownInv, Phase(st) # "playing",
         NEW y, Sound(y), ~y.complete, y.setIndex = st.setIndex, y.points = st.points, st' = y,
         NEW e \in BOOLEAN, e => y.setIndex > 0 /\ ChangeEnds /\ Phase(y) = "playing",
         ~e => y.endsPending = st.endsPending,
         check'.changed = (check.changed \/ e), check'.after = check.after,
         check'.winner = check.winner, shown' = shown
  PROVE  ShownInv'
<1>1. CASE st.setIndex = 0
  <2>1. FirstSet
    BY <1>1 DEF ShownInv
  <2>2. ~e
    BY <1>1
  <2>3. FirstSet'
    BY <2>1, <2>2 DEF FirstSet
  <2>4. QED
    BY <1>1, <2>3 DEF ShownInv
<1>2. CASE st.setIndex # 0
  <2>1. SecondSet /\ \A k \in Half : <<k, Home(k)>> \in shown
    BY <1>2 DEF ShownInv
  <2>2. ~check.changed /\ check.after = {}
        /\ (ChangeEnds => st.setIndex = 1 /\ st.endsPending /\ st.points = Love)
    BY <2>1 DEF SecondSet
  <2>3. CASE e
    <3>1. y.setIndex = 1 /\ y.points = Love /\ ChangeEnds /\ check'.changed /\ check'.after = {}
      BY <2>2, <2>3
    <3>2. \A k \in Half : PlayerAt(y, k) \in Player
      BY StandsAt
    <3>3. \A k \in Half : y.points[PlayerAt(y, k)] = 0
      BY <3>1, <3>2, LoveIsUndecided
    <3>4. SecondSet'
      BY <2>3, <3>1, <3>3 DEF SecondSet
    <3>5. QED
      BY <1>2, <2>1, <3>4 DEF ShownInv
  <2>4. CASE ~e
    <3>1. ~check'.changed /\ check'.after = {}
      BY <2>2, <2>4
    <3>2. SecondSet'
      BY <2>2, <2>4, <3>1 DEF SecondSet
    <3>3. QED
      BY <1>2, <2>1, <3>2 DEF ShownInv
  <2>5. QED
    BY <2>3, <2>4
<1>3. QED
  BY <1>1, <1>2

LEMMA ShownStep ==
  ASSUME CheckType, StreamInv, CleanInv, ShownInv, strays' = 0, CheckNext
  PROVE  ShownInv'
<1>1. ~undone /\ InOrder(table, st, m) /\ table \in Seq(Event) /\ check.missed = 0
      /\ \A k \in 1..Len(table) : table[k].kind = "snapshot" => table[k].state = st /\ k = 1
  BY DEF CleanInv, StreamInv, InOrder
<1>2. ~Strays
  <2>1. strays \in Nat
    BY DEF CheckType
  <2>2. QED
    BY <2>1 DEF Strays
<1>3. CASE AtTheTable /\ UNCHANGED st
  <2>1. UNCHANGED <<check, shown>>
    BY <1>3 DEF AtTheTable, ButtonPress, PageUndo, TableGoes
  <2>2. QED
    BY <1>3, <2>1, ShownStays
<1>4. CASE Ask
  <2>1. check'.changed = check.changed /\ check'.after = check.after /\ check'.winner = check.winner
    BY <1>4 DEF Ask, CheckType
  <2>2. QED
    BY <1>4, <2>1, ShownStays DEF Ask
<1>5. CASE Leaves
  <2>1. check'.changed = check.changed /\ check'.after = check.after /\ check'.winner = check.winner
    BY <1>5 DEF Leaves, CheckType
  <2>2. QED
    BY <1>5, <2>1, ShownStays DEF Leaves
<1>6. CASE Sees
  <2>1. Head(table) = table[1] /\ 1 \in 1..Len(table)
    BY <1>1, <1>6, EventsRead DEF Sees, Reads
  <2>2. st' = st
    BY <1>1, <1>6, <2>1 DEF Sees
  <2>3. QED
    BY <1>6, <2>2, ShownStays DEF Sees
<1>7. ~Missing
  BY <1>1, <1>2 DEF Missing
<1>8. ~Between
  <2>1. SUFFICES ASSUME Between PROVE FALSE
    OBVIOUS
  <2>2. check.pc = "gap" /\ Own /\ table # <<>>
    BY <2>1 DEF Between, Own
  <2>3. ~OwnOn(table)
    BY <2>2, CleanQuiet DEF CheckOver
  <2>4. Head(table).kind \in OwnKind \cup Foreign \cup {"snapshot"} /\ Head(table) = table[1] /\ 1 \in 1..Len(table)
    BY <1>1, <2>2, OrderRead, EventsRead
  <2>5. QED
    BY <2>2, <2>3, <2>4 DEF Own, Foreign, OwnOn
<1>9. CASE GapOver
  <2>1. check'.changed = check.changed /\ check'.after = check.after /\ check'.winner = check.winner
    BY <1>9 DEF GapOver, CheckType
  <2>2. QED
    BY <1>9, <2>1, ShownStays DEF GapOver
<1>10. CASE Answer
  <2>1. /\ Sound(st) /\ ~st.complete /\ check.prompt \in Prompts /\ check.prompt.half \in Half
        /\ m = After(st, check.prompt.half) /\ m # st /\ st' = m
        /\ Answered(check.prompt.half, Transition(st, m))
    BY <1>10, CleanAnswer
  <2>2. PICK h \in Half : h = check.prompt.half
    BY <2>1
  <2>3. PICK y : y = m
    OBVIOUS
  <2>4. y = After(st, h) /\ y # st /\ st' = y
    BY <2>1, <2>2, <2>3
  <2>5. PICK e : e = (Transition(st, y) = "ends_changed")
    OBVIOUS
  <2>6. /\ e \in BOOLEAN /\ check'.changed = (check.changed \/ e) /\ check'.winner = check.winner
        /\ check'.after = IF Phase(st) = "playing" /\ check.changed THEN check.after \cup {h} ELSE check.after
        /\ shown' = IF Phase(st) = "playing" THEN shown \cup {<<h, PlayerAt(st, h)>>} ELSE shown
    BY <2>1, <2>2, <2>3, <2>5 DEF Answered, CheckType
  <2>7. /\ Phase(st) # "complete"
        /\ Phase(st) \in {"warmup", "change_ends"} => h \in Waiting(st)
        /\ Phase(st) = "playing" => h \in Rallies(check)
    <3>1. PICK q \in Prompts : q = check.prompt
      BY <2>1
    <3>2. QED
      BY <2>2, <3>1, PromptIs
  <2>8. CASE Phase(st) = "playing"
    <3>1. ~e
      BY <2>5, <2>8 DEF Transition
    <3>2. y = Scored(st, PlayerAt(st, h), 1)
      BY <2>1, <2>4, <2>8, PressIs
    <3>3. CASE st.setIndex = 0
      <4>1. ~check.changed
        BY <3>3 DEF ShownInv, FirstSet
      <4>2. check.changed \in BOOLEAN
        BY DEF CheckType
      <4>3. check'.changed = check.changed /\ check'.after = check.after
        BY <2>6, <3>1, <4>1, <4>2
      <4>4. QED
        BY <2>1, <2>4, <2>6, <2>7, <2>8, <3>2, <3>3, <4>3, FirstSetPoint
    <3>4. CASE st.setIndex # 0
      <4>1. check.changed \in BOOLEAN
        BY DEF CheckType
      <4>2. check'.changed = check.changed
            /\ check'.after = IF check.changed THEN check.after \cup {h} ELSE check.after
        BY <2>6, <2>8, <3>1, <4>1
      <4>3. QED
        BY <2>1, <2>4, <2>6, <2>7, <2>8, <3>2, <3>4, <4>2, LaterPoint
    <3>5. QED
      BY <3>3, <3>4
  <2>9. CASE Phase(st) = "serve_rally"
    <3>1. ~e
      BY <2>5, <2>9 DEF Transition
    <3>2. PICK p \in Player : p = PlayerAt(st, h)
      BY StandsAt
    <3>3. y = ServeDecided(st, p)
      BY <2>1, <2>4, <2>9, <3>2, PressIs
    <3>4. Sound(y) /\ y.setIndex = st.setIndex /\ y.points = st.points /\ ~y.complete
          /\ y.endsPending = st.endsPending
      BY <2>1, <2>9, <3>3, ServeMakes
    <3>5. QED
      BY <2>1, <2>4, <2>6, <2>9, <3>1, <3>4, NoPoint
  <2>10. CASE Phase(st) \in {"warmup", "change_ends"}
    <3>1. h \notin st.pressed
      BY <2>7, <2>10 DEF Waiting
    <3>2. y = Confirmed(st, h)
      BY <2>1, <2>4, <2>10, <3>1, PressIs
    <3>3. /\ Sound(y) /\ y.setIndex = st.setIndex /\ y.points = st.points /\ ~y.complete
          /\ \/ Phase(y) = Phase(st) /\ y.warmup = st.warmup /\ y.endsPending = st.endsPending
             \/ IF Phase(st) = "warmup" THEN ~y.warmup /\ y.endsPending = st.endsPending
                ELSE ~y.endsPending /\ Phase(y) = "playing"
      BY <2>1, <2>10, <3>1, <3>2, ReadyMakes
    <3>4. CASE Phase(st) = "warmup"
      <4>1. ~e
        BY <2>5, <3>4 DEF Transition
      <4>2. y.endsPending = st.endsPending
        BY <3>3, <3>4
      <4>3. QED
        BY <2>1, <2>4, <2>6, <3>3, <3>4, <4>1, <4>2, NoPoint
    <3>5. CASE Phase(st) = "change_ends"
      <4>1. st.endsPending /\ ChangeEnds /\ st.setIndex > 0 /\ y.endsPending \in BOOLEAN /\ st.endsPending \in BOOLEAN
        BY <2>1, <3>3, <3>5, PhaseIs DEF Sound, Match
      <4>2. e = ~y.endsPending
        BY <2>5, <3>5, <4>1 DEF Transition
      <4>3. /\ e => y.setIndex > 0 /\ ChangeEnds /\ Phase(y) = "playing"
            /\ ~e => y.endsPending = st.endsPending
        BY <3>3, <3>5, <4>1, <4>2
      <4>4. QED
        BY <2>1, <2>4, <2>6, <3>3, <3>5, <4>3, NoPoint
    <3>6. QED
      BY <2>10, <3>4, <3>5
  <2>11. QED
    BY <2>7, <2>8, <2>9, <2>10, PhaseIsOneOf DEF PhaseName
<1>11. QED
  BY <1>3, <1>4, <1>5, <1>6, <1>7, <1>8, <1>9, <1>10 DEF CheckNext

LEMMA CheckStep == CheckInv /\ CheckNext => CheckInv'
<1> SUFFICES ASSUME CheckInv, CheckNext PROVE CheckInv'
  OBVIOUS
<1>1. CheckType' /\ StreamInv' /\ PlanInv'
  BY CheckTypeStep, StreamStep, PlanStep DEF CheckInv
<1>2. strays' = 0 => strays = 0
  <2>1. UNCHANGED strays \/ strays' = strays + 1
    BY DEF CheckNext, AtTheTable, ButtonPress, PageUndo, TableGoes, Ask, Leaves, Sees, Answer, Missing,
       Between, GapOver, Reads, Strays
  <2>2. strays \in Nat
    BY DEF CheckInv, CheckType
  <2>3. QED
    BY <2>1, <2>2
<1>3. strays' = 0 => CleanInv' /\ ShownInv'
  BY <1>2, CleanStep, ShownStep DEF CheckInv
<1>4. QED
  BY <1>1, <1>3 DEF CheckInv

LEMMA NewMatchIsSound ==
  /\ Sound(NewMatch) /\ NewMatch.points = Love /\ NewMatch.setIndex = 0
<1>1. NewMatch \in Match
  <2>1. FirstServer \in Player \cup {None} /\ None \in Player \cup {None}
    BY RulesAssumption
  <2>2. Love \in Score /\ <<>> \in Seq(Score) /\ {} \in SUBSET Half /\ (Start = "warmup") \in BOOLEAN
    BY LoveIsUndecided
  <2>3. PICK warmup \in BOOLEAN : warmup = (Start = "warmup")
    BY <2>2
  <2>4. NewMatch = [points |-> Love, sets |-> Love, setIndex |-> 0, completed |-> <<>>,
                    complete |-> FALSE, winner |-> None, warmup |-> warmup,
                    firstServer |-> FirstServer, endsPending |-> FALSE, pressed |-> {}]
    BY <2>3 DEF NewMatch
  <2>5. QED
    BY <2>1, <2>2, <2>4 DEF Match
<1>2. {} # Half
  BY DEF Half
<1>3. QED
  BY <1>1, <1>2, LoveIsUndecided DEF NewMatch, Sound

LEMMA CheckBegins == Init /\ CheckInit => CheckInv
<1> SUFFICES ASSUME Init, CheckInit PROVE CheckInv
  OBVIOUS
<1> DEFINE e == [kind |-> "snapshot", state |-> NewMatch]
<1>1. m = NewMatch /\ st = NewMatch /\ Sound(st) /\ st.points = Love /\ st.setIndex = 0
  BY NewMatchIsSound DEF Init
<1>2. PICK winner \in Half :
        check = [pc |-> "top", prompt |-> NoPrompt, prompts |-> 0, missed |-> 0, answered |-> Nowhere,
                 winner |-> winner, changed |-> FALSE, after |-> {}]
  BY DEF CheckInit
<1>3. /\ outcomes = {} /\ table = <<e>> /\ strays = 0 /\ heeded = 0 /\ undone = FALSE /\ shown = {}
  BY DEF CheckInit
<1>4. e \in Event /\ e.kind = "snapshot" /\ e.state = NewMatch
  BY NewMatchIsSound DEF Event, Sound
<1> HIDE DEF e
<1>5. table \in Seq(Event) /\ Len(table) = 1 /\ \A k \in 1..Len(table) : k = 1 /\ table[k] = e
  BY <1>3, <1>4
<1>6. CheckType
  BY <1>2, <1>3 DEF CheckType, NoPrompt
<1>7. StreamInv
  <2>1. InOrder(table, st, m)
    BY <1>1, <1>4, <1>5 DEF InOrder
  <2>2. QED
    BY <2>1 DEF StreamInv
<1>8. PlanInv
  BY <1>2 DEF PlanInv
<1>9. CleanInv
  <2>1. ~OwnOn(table)
    BY <1>4, <1>5 DEF OwnOn, OwnKind
  <2>2. CleanStream
    BY <1>1, <2>1 DEF CleanStream
  <2>3. QED
    BY <1>1, <1>2, <1>3, <1>4, <1>5, <2>2 DEF CleanInv
<1>10. ShownInv
  <2>1. \A h \in Half : Home(h) \in Player
    BY HomesAreTwo
  <2>2. \A h \in Half : st.points[Home(h)] = 0
    BY <1>1, <2>1, LoveIsUndecided
  <2>3. check.winner \in Half /\ OtherHalf(check.winner) \in Half
    BY <1>2, HalvesAreTwo
  <2>4. 0 <= EnoughLost /\ 0 <= FewWon
    BY CheckAssumption, FormatIsNatural
  <2>5. FirstSet
    BY <1>2, <2>2, <2>3, <2>4 DEF FirstSet
  <2>6. QED
    BY <1>1, <2>5 DEF ShownInv
<1>11. QED
  BY <1>6, <1>7, <1>8, <1>9, <1>10 DEF CheckInv

(* A game that is not a check leaves the check as it began.                *)
CheckGame == IF driver = "check" THEN CheckInv ELSE outcomes = {} /\ check.pc = "top"

LEMMA CheckGameInit == GamesInit => CheckGame
<1>1. GamesInit => Init /\ CheckInit
  BY DEF GamesInit
<1>2. CheckInit => outcomes = {} /\ check.pc = "top"
  BY DEF CheckInit
<1>3. QED
  BY <1>1, <1>2, CheckBegins DEF CheckGame

LEMMA CheckGameStep == CheckGame /\ [GamesNext]_gamesVars => CheckGame'
<1> SUFFICES ASSUME CheckGame, [GamesNext]_gamesVars PROVE CheckGame'
  OBVIOUS
<1>1. driver' = driver
  BY DEF GamesNext, gamesVars
<1>2. CASE driver = "check"
  <2>1. CheckNext \/ UNCHANGED <<vars, checkVars>>
    BY <1>2 DEF GamesNext, gamesVars, Plays
  <2>2. CASE CheckNext
    BY <1>1, <1>2, <2>2, CheckStep DEF CheckGame
  <2>3. CASE UNCHANGED <<vars, checkVars>>
    <3>1. UNCHANGED <<m, undo, st, check, outcomes, table, strays, heeded, undone, shown>>
      BY <2>3 DEF vars, matchVars, checkVars
    <3>2. CheckType' /\ StreamInv' /\ PlanInv'
      BY <1>2, <3>1 DEF CheckGame, CheckInv, CheckType, StreamInv, PlanInv
    <3>3. strays = 0 => CleanInv'
      <4>1. Prompts' = Prompts
        BY <3>1, PromptsStay
      <4>2. CleanStream' = CleanStream
        BY <3>1 DEF CleanStream
      <4>3. QED
        BY <1>2, <3>1, <4>1, <4>2 DEF CheckGame, CheckInv, CleanInv
    <3>4. strays = 0 => ShownInv'
      BY <1>2, <3>1, ShownStays DEF CheckGame, CheckInv
    <3>5. QED
      BY <1>1, <1>2, <3>1, <3>2, <3>3, <3>4 DEF CheckGame, CheckInv
  <2>4. QED
    BY <2>1, <2>2, <2>3
<1>3. CASE driver # "check"
  <2>1. UNCHANGED checkVars
    BY <1>3 DEF GamesNext, gamesVars, Plays
  <2>2. QED
    BY <1>1, <1>3, <2>1 DEF CheckGame, checkVars
<1>4. QED
  BY <1>2, <1>3

(* For every format and every plan, hardware and people that do as the     *)
(* prompts say get no finding (check.go, pressedHalf and runCheck).        *)
THEOREM GamesNoFalseAlarm == GamesSpec => []NoFalseAlarm
<1>1. CheckGame => NoFalseAlarm
  BY DEF CheckGame, CheckInv, CleanInv, NoFalseAlarm
<1>2. QED
  BY <1>1, CheckGameInit, CheckGameStep, PTL DEF GamesSpec

(* A check that got through without the match being won has seen a change  *)
(* of ends and a point at either half, and when everybody did as asked     *)
(* either half count for either player (check.go, checkPlan.next).         *)
THEOREM GamesCheckSeesItAll == GamesSpec => []CheckSeesItAll
<1>1. CheckGame => CheckSeesItAll
  <2> SUFFICES ASSUME CheckGame, check.pc = "checked", ~st.complete
               PROVE  /\ ~undone => st.setIndex > 0 /\ {x[1] : x \in shown} = Half
                      /\ strays = 0 => shown = Half \X Player
    BY DEF CheckSeesItAll
  <2>1. CheckInv /\ shown \subseteq Half \X Player
    BY DEF CheckGame, CheckInv, CheckType
  <2>2. ASSUME ~undone
        PROVE  st.setIndex > 0 /\ check.changed /\ \A h \in Half : \E p \in Player : <<h, p>> \in shown
    BY <2>1, <2>2 DEF CheckInv, PlanInv
  <2>3. ASSUME ~undone PROVE {x[1] : x \in shown} = Half
    <3>1. {x[1] : x \in shown} \subseteq Half
      BY <2>1
    <3>2. ASSUME NEW h \in Half PROVE h \in {x[1] : x \in shown}
      <4>1. PICK p \in Player : <<h, p>> \in shown
        BY <2>2, <2>3
      <4>2. <<h, p>>[1] = h
        OBVIOUS
      <4>3. QED
        BY <4>1, <4>2
    <3>3. QED
      BY <3>1, <3>2
  <2>4. ASSUME strays = 0 PROVE shown = Half \X Player
    <3>1. ~undone /\ ShownInv
      BY <2>1, <2>4 DEF CheckInv, CleanInv
    <3>2. check.changed /\ st.setIndex # 0 /\ check.after = Half
      <4>1. st.setIndex > 0
        BY <2>2, <3>1
      <4>2. QED
        BY <2>1, <3>1, <4>1 DEF CheckInv, PlanInv
    <3>3. /\ ChangeEnds /\ st.setIndex = 1
          /\ \A h \in Half : <<h, PlayerAt(st, h)>> \in shown /\ <<h, Home(h)>> \in shown
      BY <3>1, <3>2 DEF ShownInv, SecondSet
    <3>4. ASSUME NEW h \in Half, NEW p \in Player PROVE <<h, p>> \in shown
      <4>1. PlayerAt(st, h) = Opponent(Home(h)) /\ Home(h) \in Player
        BY <3>3, AtHome, HomesAreTwo
      <4>2. p = Home(h) \/ p = Opponent(Home(h))
        BY <4>1, PlayersAreTwo
      <4>3. QED
        BY <3>3, <4>1, <4>2
    <3>5. QED
      BY <2>1, <3>4
  <2>5. QED
    BY <2>2, <2>3, <2>4
<1>2. QED
  BY <1>1, CheckGameInit, CheckGameStep, PTL DEF GamesSpec

-----------------------------------------------------------------------------
(* The sets' points, summed.                                               *)

(* The points of p in the sets of c, summed from the first on.             *)
SetsUpTo(c, p, n, f) == f = [i \in 0..n |-> IF i = 0 THEN 0 ELSE f[i - 1] + c[i][p]]
InSets(c, p) == (CHOOSE f : SetsUpTo(c, p, Len(c), f))[Len(c)]

LEMMA AwardedIs ==
  ASSUME NEW x, NEW p
  PROVE  Awarded(x, p) = InSets(x.completed, p) + (IF x.complete THEN 0 ELSE x.points[p])
BY DEF Awarded, InSets, SetsUpTo
LEMMA LeastOf ==
  ASSUME NEW T \in SUBSET Nat, T # {}
  PROVE  \E x \in T : \A y \in T : x <= y
<1> DEFINE R == {ss \in Nat \X Nat : ss[1] < ss[2]}
<1>1. IsWellFoundedOn(R, Nat)
  BY NatLessThanWellFounded DEF OpToRel
<1>2. \E x \in T : \A y \in T : <<y, x>> \notin R
  <2> HIDE DEF R
  <2> QED
    BY <1>1, WFMin
<1>3. \A x, y \in Nat : <<y, x>> \notin R => x <= y
  <2> SUFFICES ASSUME NEW x \in Nat, NEW y \in Nat, y < x PROVE <<y, x>> \in R
    OBVIOUS
  <2>1. <<y, x>> \in Nat \X Nat /\ <<y, x>>[1] < <<y, x>>[2]
    OBVIOUS
  <2>2. QED
    BY <2>1
<1> HIDE DEF R
<1>4. QED
  BY <1>2, <1>3

LEMMA PointsInSet ==
  ASSUME NEW c \in Seq(Score), NEW p \in Player, NEW i \in 1..Len(c)
  PROVE  c[i][p] \in Nat
<1>1. c[i] \in Score
  OBVIOUS
<1>2. QED
  BY <1>1 DEF Score

(* The sums exist ...                                                      *)
LEMMA SumsExist ==
  ASSUME NEW c \in Seq(Score), NEW p \in Player
  PROVE  \E f \in [0..Len(c) -> Nat] : SetsUpTo(c, p, Len(c), f)
<1> DEFINE Has(n) == \E f \in [0..n -> Nat] : SetsUpTo(c, p, n, f)
           Lacks == {n \in Nat : n <= Len(c) /\ ~Has(n)}
<1>1. Len(c) \in Nat
  OBVIOUS
<1>2. SUFFICES ASSUME Lacks # {} PROVE FALSE
  BY <1>1
<1>3. PICK n \in Lacks : \A k \in Lacks : n <= k
  <2>1. Lacks \in SUBSET Nat
    OBVIOUS
  <2> HIDE DEF Lacks
  <2>2. QED
    BY <1>2, <2>1, LeastOf
<1>4. n \in Nat /\ n <= Len(c) /\ ~Has(n)
  OBVIOUS
<1>5. n # 0
  <2>1. SUFFICES ASSUME n = 0 PROVE Has(n)
    BY <1>4
  <2> DEFINE f == [i \in 0..0 |-> 0]
  <2>2. f \in [0..0 -> Nat]
    OBVIOUS
  <2>3. \A i \in 0..0 : i = 0
    OBVIOUS
  <2>4. f = [i \in 0..0 |-> IF i = 0 THEN 0 ELSE f[i - 1] + c[i][p]]
    BY <2>3
  <2>5. SetsUpTo(c, p, 0, f)
    BY <2>4 DEF SetsUpTo
  <2>6. QED
    BY <2>1, <2>2, <2>5
<1>6. n - 1 \in Nat /\ n - 1 <= Len(c) /\ n \in 1..Len(c)
  BY <1>1, <1>4, <1>5
<1>7. Has(n - 1)
  <2>1. SUFFICES ASSUME ~Has(n - 1) PROVE FALSE
    OBVIOUS
  <2>2. n - 1 \in Lacks
    BY <1>6, <2>1
  <2> HIDE DEF Lacks
  <2>3. n <= n - 1
    BY <1>3, <2>2
  <2>4. QED
    BY <1>4, <2>3
<1>8. PICK f \in [0..n - 1 -> Nat] : SetsUpTo(c, p, n - 1, f)
  BY <1>7
<1> HIDE DEF Lacks
<1> DEFINE g == [i \in 0..n |-> IF i = n THEN f[n - 1] + c[n][p] ELSE f[i]]
<1>9. c[n][p] \in Nat
  BY <1>6, PointsInSet
<1>10. f[n - 1] \in Nat /\ \A i \in 0..n : i # n => i \in 0..n - 1 /\ f[i] \in Nat
  BY <1>4, <1>6, <1>8
<1>11. g \in [0..n -> Nat]
  BY <1>9, <1>10
<1>12. ASSUME NEW i \in 0..n PROVE g[i] = IF i = 0 THEN 0 ELSE g[i - 1] + c[i][p]
  <2>1. CASE i = n
    <3>1. n - 1 \in 0..n /\ n - 1 # n
      BY <1>4, <1>5
    <3>2. g[n - 1] = f[n - 1]
      BY <3>1
    <3>3. QED
      BY <1>5, <2>1, <3>2
  <2>2. CASE i # n
    <3>1. i \in 0..n - 1
      BY <1>10, <2>2
    <3>2. f[i] = IF i = 0 THEN 0 ELSE f[i - 1] + c[i][p]
      BY <1>8, <3>1 DEF SetsUpTo
    <3>3. i # 0 => i - 1 \in 0..n /\ i - 1 # n
      BY <1>4, <3>1
    <3>4. i # 0 => g[i - 1] = f[i - 1]
      BY <3>3
    <3>5. QED
      BY <2>2, <3>2, <3>4
  <2>3. QED
    BY <2>1, <2>2
<1>13. SetsUpTo(c, p, n, g)
  <2> DEFINE s == [i \in 0..n |-> IF i = 0 THEN 0 ELSE g[i - 1] + c[i][p]]
  <2>1. \A i \in 0..n : g[i] = s[i]
    BY <1>12
  <2>2. DOMAIN g = 0..n /\ DOMAIN s = 0..n
    OBVIOUS
  <2>3. g = [i \in 0..n |-> g[i]] /\ s = [i \in 0..n |-> s[i]]
    OBVIOUS
  <2> HIDE DEF g
  <2>4. g = s
    BY <2>1, <2>3
  <2>5. QED
    BY <2>4 DEF SetsUpTo
<1>14. QED
  BY <1>4, <1>11, <1>13

(* ... and are what the sets up to there make them.                        *)
LEMMA SumsAreUnique ==
  ASSUME NEW c \in Seq(Score), NEW d \in Seq(Score), NEW p \in Player, NEW n \in Nat, NEW k \in Nat, n <= k,
         NEW f, NEW g, SetsUpTo(c, p, n, f), SetsUpTo(d, p, k, g),
         \A i \in 1..n : c[i] = d[i]
  PROVE  \A i \in 0..n : f[i] = g[i]
<1> DEFINE Differ == {i \in 0..n : f[i] # g[i]}
<1>1. SUFFICES ASSUME Differ # {} PROVE FALSE
  OBVIOUS
<1>2. PICK i \in Differ : \A j \in Differ : i <= j
  <2>1. Differ \in SUBSET Nat
    OBVIOUS
  <2> HIDE DEF Differ
  <2>2. QED
    BY <1>1, <2>1, LeastOf
<1>3. i \in 0..n /\ i \in 0..k /\ f[i] # g[i]
  OBVIOUS
<1>4. /\ f[i] = IF i = 0 THEN 0 ELSE f[i - 1] + c[i][p]
      /\ g[i] = IF i = 0 THEN 0 ELSE g[i - 1] + d[i][p]
  BY <1>3 DEF SetsUpTo
<1>5. i # 0
  BY <1>3, <1>4
<1>6. i - 1 \in 0..n /\ ~(i <= i - 1) /\ i \in 1..n
  BY <1>3, <1>5
<1>7. f[i - 1] = g[i - 1]
  BY <1>2, <1>6
<1>8. QED
  BY <1>3, <1>4, <1>5, <1>6, <1>7

LEMMA InSetsIs ==
  ASSUME NEW c \in Seq(Score), NEW p \in Player
  PROVE  \E f \in [0..Len(c) -> Nat] : SetsUpTo(c, p, Len(c), f) /\ InSets(c, p) = f[Len(c)]
<1> DEFINE f == CHOOSE g : SetsUpTo(c, p, Len(c), g)
<1>1. PICK g \in [0..Len(c) -> Nat] : SetsUpTo(c, p, Len(c), g)
  BY SumsExist
<1>2. SetsUpTo(c, p, Len(c), f)
  BY <1>1
<1>3. InSets(c, p) = f[Len(c)]
  BY DEF InSets
<1> HIDE DEF f
<1>4. Len(c) \in Nat
  OBVIOUS
<1>5. \A i \in 0..Len(c) : f[i] = g[i]
  BY <1>1, <1>2, <1>4, SumsAreUnique
<1>6. f = [i \in 0..Len(c) |-> IF i = 0 THEN 0 ELSE f[i - 1] + c[i][p]]
  BY <1>2 DEF SetsUpTo
<1>7. f \in [0..Len(c) -> Nat]
  BY <1>5, <1>6
<1>8. QED
  BY <1>2, <1>3, <1>7

LEMMA NoSets == ASSUME NEW p \in Player PROVE InSets(<<>>, p) = 0
<1>1. <<>> \in Seq(Score) /\ Len(<<>>) = 0
  OBVIOUS
<1>2. PICK f : SetsUpTo(<<>>, p, 0, f) /\ InSets(<<>>, p) = f[0]
  BY <1>1, InSetsIs
<1>3. f[0] = 0
  BY <1>2 DEF SetsUpTo
<1>4. QED
  BY <1>2, <1>3

LEMMA OneSetMore ==
  ASSUME NEW c \in Seq(Score), NEW s \in Score, NEW p \in Player
  PROVE  InSets(Append(c, s), p) = InSets(c, p) + s[p] /\ InSets(c, p) \in Nat
<1> DEFINE d == Append(c, s)
           n == Len(c)
<1>1. n \in Nat /\ d \in Seq(Score) /\ Len(d) = n + 1 /\ d[n + 1] = s /\ \A i \in 1..n : d[i] = c[i]
  OBVIOUS
<1>2. PICK f \in [0..n -> Nat] : SetsUpTo(c, p, n, f) /\ InSets(c, p) = f[n]
  BY InSetsIs
<1> HIDE DEF d
<1>3. PICK g : SetsUpTo(d, p, n + 1, g) /\ InSets(d, p) = g[n + 1]
  BY <1>1, InSetsIs
<1>4. \A i \in 0..n : f[i] = g[i]
  <2>1. n + 1 \in Nat /\ n <= n + 1
    BY <1>1
  <2>2. \A i \in 1..n : c[i] = d[i]
    BY <1>1
  <2>3. d \in Seq(Score) /\ n \in Nat /\ SetsUpTo(c, p, n, f) /\ SetsUpTo(d, p, n + 1, g)
    BY <1>1, <1>2, <1>3
  <2> HIDE DEF n
  <2>4. QED
    BY <2>1, <2>2, <2>3, SumsAreUnique
<1>5. g[n + 1] = g[n] + d[n + 1][p]
  <2>1. n + 1 \in 0..n + 1 /\ n + 1 # 0 /\ n + 1 - 1 = n
    BY <1>1
  <2>2. QED
    BY <1>3, <2>1 DEF SetsUpTo
<1>6. n \in 0..n
  BY <1>1
<1>7. f[n] = g[n] /\ f[n] \in Nat
  BY <1>2, <1>4, <1>6
<1>8. QED
  BY <1>1, <1>2, <1>3, <1>5, <1>7 DEF d

-----------------------------------------------------------------------------
(* What a game of the bots knows.                                          *)

(* A game that also delays presses never resets its counter: with both, a  *)
(* late press can overtake the reset, and NoFindings does not hold.        *)
Apart == ~({"counter_reset", "latency"} \subseteq faults)

(* What zaehlwerk has awarded beyond the truth and what faults explain.    *)
Unexplained(x, t) == [p \in Player |-> Awarded(x, p) - t.won[p] - t.explained[p]]

(* One point too many for p, and one too few.                              *)
PointFor(p)  == [q \in Player |-> IF q = p THEN 1 ELSE 0]
PointShort(p) == [q \in Player |-> IF q = p THEN -1 ELSE 0]

Truth == [won : [Player -> Int], explained : [Player -> Int], serve : Player \cup {None},
          explainedServe : Player \cup {None}]

(* zaehlwerk and the game agree on the match, and every press zaehlwerk    *)
(* has taken is behind the game's counter, like the one held back.         *)
InStep ==
  /\ st = m /\ Sound(m) /\ undo \in Seq(Match)
  /\ high \in Nat /\ counter \in Nat /\ high <= counter
  /\ late # NotLate => "latency" \in faults /\ late.id \in Nat /\ late.id <= counter

(* The game knows where the players stand, but for a change of ends it has *)
(* not walked yet.                                                         *)
Walked ==
  /\ standing \in Place
  /\ Phase(st) # "change_ends" \/ acted = "change_ends" => standing = Ends(st)
  /\ at \notin {"top", "ready"} => acted # "change_ends"

(* A rally is played and its press is not with zaehlwerk yet.              *)
Played ==
  LET x == doing.before
      w == doing.player
  IN
  /\ Sound(x) /\ standing = Ends(x) /\ doing.half \in Half /\ w = PlayerAt(x, doing.half)
  /\ \/ /\ Phase(x) = "serve_rally" /\ doing.next = "serve"
        /\ Unexplained(x, truth) = Love /\ truth.explainedServe = w
     \/ /\ Phase(x) = "playing" /\ doing.next = "point"
        /\ Unexplained(x, truth) = PointShort(w)

(* What has still to be counted, where play is.                            *)
Outstanding ==
  /\ at \in {"top", "ready", "serve", "open", "rally", "point", "bounce"} => Unexplained(st, truth) = Love
  /\ at = "ready" => doing.half \in Half /\ (Waiting(st) # {} => doing.half \in st.pressed)
  /\ at = "serve" => Serving(st) = truth.explainedServe
  /\ at \in {"open", "rally", "bounce"} => Phase(st) = "playing"
  /\ at \in {"point", "bounce"} => doing.half \in Half
  /\ at \in {"ghost", "bounced"} =>
       doing.half \in Half /\ Unexplained(st, truth) = PointFor(standing[doing.half])
  /\ at = "right" => Played /\ st = doing.before
  /\ at = "wrong" =>
       /\ Played /\ st = After(doing.before, OtherHalf(doing.half))
       /\ undo # <<>> /\ undo[Len(undo)] = doing.before

Places == {"top", "ready", "serve", "open", "ghost", "rally", "point", "bounce", "bounced",
           "wrong", "right"}

GameInv ==
  /\ found = {} /\ at \in Places \cup Over
  /\ at \notin Over => InStep /\ truth \in Truth /\ parted = Love /\ Walked /\ Outstanding

-----------------------------------------------------------------------------
(* What a press adds to what is awarded.                                   *)

LEMMA AwardedIsNatural ==
  ASSUME NEW x \in Match, NEW p \in Player
  PROVE  Awarded(x, p) \in Nat
<1>1. x.completed \in Seq(Score) /\ x.points[p] \in Nat
  BY DEF Match, Score
<1>2. InSets(x.completed, p) \in Nat
  BY <1>1, LoveIsUndecided, OneSetMore
<1>3. QED
  BY <1>1, <1>2, AwardedIs

LEMMA NothingAwarded ==
  ASSUME NEW x, NEW y, NEW p \in Player, y.completed = x.completed, y.complete = x.complete, y.points = x.points
  PROVE  Awarded(y, p) = Awarded(x, p)
BY AwardedIs

(* The completed sets and the running one, after a point.                  *)
LEMMA PointCompletes ==
  ASSUME NEW x, Sound(x), Phase(x) = "playing", NEW p \in Player,
         NEW pts, pts = PointsAfter(x, p, 1), NEW y, y = Scored(x, p, 1)
  PROVE  \/ Takes(pts, p) /\ y.completed = Append(x.completed, pts)
         \/ ~Takes(pts, p) /\ y.completed = x.completed
<1>1. x \in Match /\ ~x.complete /\ \A q \in Player : ~Takes(x.points, q)
  BY PhaseIs DEF Sound
<1>2. ~Takes(pts, Opponent(p))
  BY <1>1, OthersTakeNothing
<1>3. y = IF Takes(pts, p) THEN SetWon(x, pts, p) ELSE [x EXCEPT !.points = pts]
  <2>1. (p = "a" /\ Opponent(p) = "b") \/ (p = "b" /\ Opponent(p) = "a")
    BY DEF Player, Opponent
  <2>2. y = IF Takes(pts, "a") THEN SetWon(x, pts, "a")
            ELSE IF Takes(pts, "b") THEN SetWon(x, pts, "b") ELSE [x EXCEPT !.points = pts]
    BY DEF Scored
  <2>3. QED
    BY <1>2, <2>1, <2>2
<1>4. CASE Takes(pts, p)
  <2> DEFINE v == [x EXCEPT !.points = pts, !.completed = Append(@, pts), !.sets[p] = @ + 1]
             z == [v EXCEPT !.setIndex = @ + 1, !.points = Love]
             t == Append(x.completed, pts)
  <2>1. v.completed = t /\ DOMAIN v = DOMAIN x
    BY <1>1 DEF Match
  <2>2. z.completed = t
    BY <1>1, <2>1 DEF Match
  <2>3. y = IF v.sets[p] >= SetsToWin THEN [v EXCEPT !.complete = TRUE, !.winner = p] ELSE ChangedEnds(z)
    BY <1>3, <1>4 DEF SetWon
  <2> HIDE DEF t
  <2>4. [v EXCEPT !.complete = TRUE, !.winner = p].completed = t
    BY <1>1, <2>1 DEF Match
  <2>5. ChangedEnds(z).completed = t
    BY <1>1, <2>2 DEF Match, ChangedEnds
  <2> HIDE DEF v, z
  <2>6. y.completed = t
    BY <2>3, <2>4, <2>5
  <2>7. QED
    BY <1>4, <2>6 DEF t
<1>5. CASE ~Takes(pts, p)
  BY <1>1, <1>3, <1>5 DEF Match
<1>6. QED
  BY <1>4, <1>5

(* A point is awarded to whom it is scored for, and to nobody else, also   *)
(* when it takes the set or the match.                                     *)
LEMMA PointIsAwarded ==
  ASSUME NEW x, Sound(x), Phase(x) = "playing", NEW p \in Player, NEW y, y = Scored(x, p, 1),
         NEW q \in Player
  PROVE  Awarded(y, q) = Awarded(x, q) + PointFor(p)[q]
<1> DEFINE pts == PointsAfter(x, p, 1)
<1>1. x \in Match /\ y \in Match /\ ~x.complete /\ x.completed \in Seq(Score) /\ x.points[q] \in Nat
  BY PointMakes, PhaseIs DEF Sound, Match, Score
<1>2. pts \in Score /\ pts[q] = x.points[q] + PointFor(p)[q]
  <2>1. /\ pts \in Score /\ pts[p] = x.points[p] + 1 /\ pts[Opponent(p)] = x.points[Opponent(p)]
    BY <1>1, OnePointMore
  <2> HIDE DEF pts
  <2>2. PointFor(p)[q] = IF q = p THEN 1 ELSE 0
    BY DEF PointFor
  <2>3. Opponent(p) # p /\ (q = p \/ q = Opponent(p))
    BY PlayersAreTwo
  <2>4. QED
    BY <1>1, <2>1, <2>2, <2>3
<1>3. Awarded(x, q) = InSets(x.completed, q) + x.points[q] /\ InSets(x.completed, q) \in Nat
  BY <1>1, LoveIsUndecided, AwardedIs, OneSetMore
<1>4. PointFor(p)[q] \in Nat
  BY DEF PointFor
<1>5. \/ Takes(pts, p) /\ (y.complete \/ y.points = Love)
      \/ ~Takes(pts, p) /\ y.points = pts /\ ~y.complete
  <2>1. pts = PointsAfter(x, p, 1)
    OBVIOUS
  <2> HIDE DEF pts
  <2>2. \/ /\ Takes(pts, p) /\ y.sets = [x.sets EXCEPT ![p] = @ + 1]
           /\ y.complete => y.setIndex = x.setIndex /\ y.points = pts
           /\ ~y.complete => y.setIndex = x.setIndex + 1 /\ y.points = Love
                             /\ (ChangeEnds => y.endsPending)
        \/ /\ ~Takes(pts, p) /\ y.sets = x.sets /\ y.setIndex = x.setIndex /\ y.points = pts
           /\ ~y.complete /\ Phase(y) = "playing"
    BY <2>1, PointMakes
  <2>3. QED
    BY <2>2
<1>6. CASE Takes(pts, p) /\ y.completed = Append(x.completed, pts)
  <2>1. InSets(y.completed, q) = InSets(x.completed, q) + pts[q]
    BY <1>1, <1>2, <1>6, OneSetMore
  <2>2. y.complete \/ y.points[q] = 0
    BY <1>6, <1>5, LoveIsUndecided
  <2>3. Awarded(y, q) = InSets(y.completed, q) + (IF y.complete THEN 0 ELSE y.points[q])
    BY AwardedIs
  <2> HIDE DEF pts
  <2>4. QED
    BY <1>1, <1>2, <1>3, <1>4, <2>1, <2>2, <2>3
<1>7. CASE ~Takes(pts, p) /\ y.completed = x.completed
  <2>1. y.points = pts /\ ~y.complete
    BY <1>7, <1>5
  <2>2. Awarded(y, q) = InSets(x.completed, q) + pts[q]
    BY <1>7, <2>1, AwardedIs
  <2> HIDE DEF pts
  <2>3. QED
    BY <1>1, <1>2, <1>3, <1>4, <2>2
<1>8. QED
  BY <1>6, <1>7, PointCompletes

(* The players change ends with the set, and the phase says so.            *)
LEMMA EndsStay ==
  ASSUME NEW x, NEW y, x.setIndex = y.setIndex \/ ~ChangeEnds
  PROVE  Ends(y) = Ends(x)
<1>1. Swapped(y) = Swapped(x)
  BY DEF Swapped
<1>2. \A h \in Half : PlayerAt(y, h) = PlayerAt(x, h)
  BY <1>1 DEF PlayerAt
<1>3. QED
  BY <1>2 DEF Ends

(* A press of a half that is awaited, of one that is ready, in the serve   *)
(* rally, and for a point.                                                 *)
LEMMA ReadyPressed ==
  ASSUME NEW x, Sound(x), Phase(x) \in {"warmup", "change_ends"}, NEW h \in Half, NEW y, y = After(x, h)
  PROVE  /\ Sound(y) /\ Ends(y) = Ends(x) /\ \A q \in Player : Awarded(y, q) = Awarded(x, q)
         /\ h \in x.pressed => y = x
         /\ h \notin x.pressed => y # x
         /\ Waiting(y) # {} => h \in y.pressed
<1>1. ~x.complete /\ x \in Match
  BY PhaseIs DEF Sound
<1>2. CASE h \in x.pressed
  <2>1. y = x
    BY <1>1, <1>2, PressIs
  <2>2. QED
    BY <1>2, <2>1
<1>3. CASE h \notin x.pressed
  <2>1. y = Confirmed(x, h)
    BY <1>1, <1>3, PressIs
  <2>2. /\ Sound(y) /\ y.setIndex = x.setIndex /\ y.points = x.points /\ ~y.complete
        /\ \/ Waiting(x) \ Waiting(y) = {h}
           \/ /\ Waiting(x) = {h}
              /\ IF Phase(x) = "warmup" THEN ~y.warmup /\ y.endsPending = x.endsPending
                 ELSE ~y.endsPending /\ Phase(y) = "playing"
    BY <1>3, <2>1, ReadyMakes
  <2>3. y.completed = x.completed
    <3> DEFINE v == [x EXCEPT !.pressed = @ \cup {h}]
    <3>1. v.completed = x.completed /\ [v EXCEPT !.pressed = {}, !.warmup = FALSE].completed = x.completed
          /\ [v EXCEPT !.pressed = {}, !.endsPending = FALSE].completed = x.completed
      BY <1>1 DEF Match
    <3>2. y = v \/ y = [v EXCEPT !.pressed = {}, !.warmup = FALSE] \/ y = [v EXCEPT !.pressed = {}, !.endsPending = FALSE]
      BY <2>1 DEF Confirmed
    <3> HIDE DEF v
    <3>3. QED
      BY <3>1, <3>2
  <2>4. \A q \in Player : Awarded(y, q) = Awarded(x, q)
    <3>1. y.complete = x.complete
      BY <1>1, <2>2 DEF Sound, Match
    <3>2. QED
      BY <2>2, <2>3, <3>1, NothingAwarded
  <2>5. Waiting(y) = {} \/ h \notin Waiting(y)
    <3>1. CASE Waiting(x) \ Waiting(y) = {h}
      BY <3>1
    <3>2. CASE Phase(y) = "playing"
      BY <3>2 DEF Waiting
    <3>3. CASE Phase(x) = "warmup" /\ ~y.warmup /\ y.endsPending = x.endsPending
      <4>1. ~x.endsPending
        BY <3>3, PhaseIs DEF Sound, Match
      <4>2. Phase(y) \notin {"warmup", "change_ends"}
        BY <2>2, <3>3, <4>1, PhaseIs
      <4>3. QED
        BY <4>2 DEF Waiting
    <3>4. QED
      BY <2>2, <3>1, <3>2, <3>3
  <2>6. Waiting(y) # {} => Waiting(y) = Half \ y.pressed
    BY DEF Waiting
  <2>7. y # x
    <3>1. h \in Waiting(x) /\ Waiting(x) # {}
      BY <1>3 DEF Waiting
    <3>2. QED
      BY <2>5, <3>1
  <2>8. QED
    BY <1>3, <2>2, <2>4, <2>5, <2>6, <2>7, EndsStay
<1>4. QED
  BY <1>2, <1>3

LEMMA ServePressed ==
  ASSUME NEW x, Sound(x), Phase(x) = "serve_rally", NEW h \in Half, NEW y, y = After(x, h)
  PROVE  /\ Sound(y) /\ y # x /\ Ends(y) = Ends(x) /\ Phase(y) # "change_ends"
         /\ Serving(y) = PlayerAt(x, h) /\ \A q \in Player : Awarded(y, q) = Awarded(x, q)
<1>1. ~x.complete /\ x \in Match /\ PlayerAt(x, h) \in Player /\ x.setIndex = 0
  BY PhaseIs, StandsAt DEF Sound
<1>2. y = ServeDecided(x, PlayerAt(x, h))
  BY <1>1, PressIs
<1>3. /\ Sound(y) /\ y.setIndex = x.setIndex /\ y.points = x.points /\ ~y.complete /\ y # x
      /\ Serving(y) = PlayerAt(x, h)
  BY <1>1, <1>2, ServeMakes
<1>4. y.completed = x.completed
  BY <1>1, <1>2 DEF ServeDecided, Match
<1>5. ~y.endsPending
  BY <1>1, <1>3 DEF Sound, Match
<1>6. y.complete = x.complete
  BY <1>1, <1>3 DEF Sound, Match
<1>7. \A q \in Player : Awarded(y, q) = Awarded(x, q)
  BY <1>3, <1>4, <1>6, NothingAwarded
<1>8. Phase(y) # "change_ends"
  BY <1>3, <1>5, PhaseIs
<1>9. QED
  BY <1>3, <1>7, <1>8, EndsStay

LEMMA PointPressed ==
  ASSUME NEW x, Sound(x), Phase(x) = "playing", NEW h \in Half, NEW y, y = After(x, h)
  PROVE  /\ Sound(y) /\ y # x
         /\ Phase(y) # "change_ends" => Ends(y) = Ends(x)
         /\ \A q \in Player : Awarded(y, q) = Awarded(x, q) + PointFor(PlayerAt(x, h))[q]
<1>1. ~x.complete /\ x \in Match /\ PlayerAt(x, h) \in Player
  BY PhaseIs, StandsAt DEF Sound
<1>2. y = Scored(x, PlayerAt(x, h), 1)
  BY <1>1, PressIs
<1>3. \A q \in Player : Awarded(y, q) = Awarded(x, q) + PointFor(PlayerAt(x, h))[q]
  BY <1>1, <1>2, PointIsAwarded
<1>4. y # x
  BY <1>1, <1>2, AheadIsWinner
<1>5. PICK p \in Player : y = Scored(x, p, 1)
  BY <1>1, <1>2
<1>6. /\ Sound(y)
      /\ y.setIndex = x.setIndex \/ (~y.complete /\ (ChangeEnds => y.endsPending))
  <2>1. PICK pts : pts = PointsAfter(x, p, 1)
    OBVIOUS
  <2>2. Sound(y)
    BY <1>5, <2>1, PointMakes
  <2>3. \/ /\ Takes(pts, p) /\ y.sets = [x.sets EXCEPT ![p] = @ + 1]
           /\ y.complete => y.setIndex = x.setIndex /\ y.points = pts
           /\ ~y.complete => y.setIndex = x.setIndex + 1 /\ y.points = Love
                             /\ (ChangeEnds => y.endsPending)
        \/ /\ ~Takes(pts, p) /\ y.sets = x.sets /\ y.setIndex = x.setIndex /\ y.points = pts
           /\ ~y.complete /\ Phase(y) = "playing"
    BY <1>5, <2>1, PointMakes
  <2>4. QED
    BY <2>2, <2>3
<1>7. Phase(y) # "change_ends" => Ends(y) = Ends(x)
  <2>1. CASE y.setIndex = x.setIndex \/ ~ChangeEnds
    BY <2>1, EndsStay
  <2>2. CASE ~y.complete /\ y.endsPending
    BY <1>6, <2>2, PhaseIs DEF Sound
  <2>3. QED
    BY <1>6, <2>1, <2>2
<1>8. QED
  BY <1>3, <1>4, <1>6, <1>7

-----------------------------------------------------------------------------
(* A report: what it leaves, when it is answered.                          *)

LEMMA RollsAre == ASSUME NEW kind PROVE Rolls(kind) \subseteq BOOLEAN /\ (TRUE \in Rolls(kind) => kind \in faults)
<1>1. CASE kind \in faults /\ injected < MaxFaults
  BY <1>1 DEF Rolls
<1>2. CASE ~(kind \in faults /\ injected < MaxFaults)
  BY <1>2 DEF Rolls
<1>3. QED
  BY <1>1, <1>2

(* The match a serve rally or a point is played in stays on the undo stack.*)
LEMMA PressPushes ==
  ASSUME NEW z, NEW x, NEW u \in Seq(Match), NEW g, z = [m |-> x, undo |-> u, high |-> g],
         Sound(x), ~x.complete, NEW h \in Half
  PROVE  /\ Pressed(z, h).high = g /\ Pressed(z, h).undo \in Seq(Match)
         /\ Phase(x) \in {"serve_rally", "playing"} =>
              Pressed(z, h).undo # <<>> /\ Pressed(z, h).undo[Len(Pressed(z, h).undo)] = x
<1>1. z.m = x /\ z.undo = u /\ z.high = g /\ x \in Match
  BY DEF Sound
<1>2. Phase(x) \in {"warmup", "change_ends", "serve_rally", "playing"}
  BY PhaseIs DEF PhaseName
<1>3. Pushed(z) \in Seq(Match) /\ Pushed(z) # <<>> /\ Pushed(z)[Len(Pushed(z))] = x
  <2>1. Pushed(z) = <<x>> \/ Pushed(z) = Append(u, x)
    BY <1>1 DEF Pushed, Stacked
  <2>2. <<x>> \in Seq(Match) /\ <<x>> # <<>> /\ Len(<<x>>) = 1 /\ <<x>>[1] = x
    BY <1>1
  <2>3. /\ Append(u, x) \in Seq(Match) /\ Len(Append(u, x)) = Len(u) + 1 /\ Append(u, x)[Len(u) + 1] = x
        /\ Len(u) \in Nat
    BY <1>1
  <2>4. Append(u, x) # <<>>
    BY <2>3
  <2>5. QED
    BY <2>1, <2>2, <2>3, <2>4
<1>4. CASE Phase(x) \in {"warmup", "change_ends"}
  <2>1. Pressed(z, h) = IF h \in x.pressed THEN z ELSE [z EXCEPT !.m = Confirmed(x, h)]
    BY <1>1, <1>4 DEF Pressed
  <2>2. Pressed(z, h).high = g /\ Pressed(z, h).undo = u
    BY <1>1, <2>1
  <2>3. QED
    BY <1>4, <2>2
<1>5. CASE Phase(x) \in {"serve_rally", "playing"}
  <2> DEFINE p == Pushed(z)
  <2>1. \E y : Pressed(z, h) = [z EXCEPT !.undo = p, !.m = y]
    BY <1>1, <1>5 DEF Pressed
  <2> HIDE DEF p
  <2>2. PICK y : Pressed(z, h) = [z EXCEPT !.undo = p, !.m = y]
    BY <2>1
  <2>3. Pressed(z, h).high = g /\ Pressed(z, h).undo = p
    BY <1>1, <2>2
  <2>4. QED
    BY <1>3, <2>3 DEF p
<1>6. QED
  BY <1>2, <1>4, <1>5

(* An event from behind the watermark is not taken.                        *)
LEMMA BehindIsDropped ==
  ASSUME NEW z, NEW id \in Nat, NEW h, z.high \in Nat, id <= z.high
  PROVE  Ingested(z, id, h, FALSE) = z
<1>1. ~(id > z.high)
  OBVIOUS
<1>2. QED
  BY <1>1 DEF Ingested

(* The press itself is taken, and what overtakes it or repeats it is not:  *)
(* the watermark has reached its id.                                       *)
LEMMA ReportMakes ==
  ASSUME InStep, Apart, found = {}, ~m.complete, NEW h \in Half, NEW changes \in BOOLEAN, NEW fault, NEW then,
         Report(h, changes, fault, then),
         changes => After(m, h) # m, fault = "wrong_phase" => After(m, h) = m
  PROVE  /\ found' = {}
         /\ \/ at' \in Over
            \/ /\ at' = then /\ m' = After(m, h) /\ st' = m' /\ undo' \in Seq(Match)
               /\ Phase(m) \in {"serve_rally", "playing"} => undo' # <<>> /\ undo'[Len(undo')] = m
               /\ counter' \in Nat /\ high' \in Nat /\ high' <= counter' /\ late' = NotLate
<1>1. PICK reset \in (IF changes /\ counter > 0 THEN Rolls("counter_reset") ELSE {FALSE}) :
    LET now    == [m |-> m, undo |-> undo, high |-> high]
        id     == IF reset THEN 1 ELSE counter + 1
        first  == Ingested(now, id, h, reset)
        behind == late # NotLate /\ ~first.m.complete
        second == IF behind THEN Ingested(first, late.id, late.half, FALSE) ELSE first
    IN  /\ rally' = rally + 1 /\ counter' = id
        /\ \/ \E again \in (IF second.m.complete THEN {FALSE} ELSE Rolls("resend")) :
                LET third == IF again THEN Ingested(second, id, h, FALSE) ELSE second IN
                /\ m' = third.m /\ undo' = third.undo /\ high' = third.high /\ st' = third.m
                /\ late' = NotLate
                /\ found' = found \cup {f \in FaultKinds :
                     \/ f = "counter_reset" /\ reset /\ first.m = st
                     \/ f = "latency" /\ behind /\ second.m # first.m
                     \/ f = "resend" /\ third.m # second.m
                     \/ f = "wrong_phase" /\ fault = f /\ third.m # st}
                /\ Counts(One(reset) + One(again) + One(fault # None))
                /\ at' = then /\ UNCHANGED lost
           \/ lost < MaxLostAnswers /\ first.m.complete /\ Refused(first)
           \/ lost < MaxLostAnswers /\ Unanswered(first)
  BY DEF Report
<1> DEFINE now    == [m |-> m, undo |-> undo, high |-> high]
           id     == IF reset THEN 1 ELSE counter + 1
           first  == Ingested(now, id, h, reset)
           behind == late # NotLate /\ ~first.m.complete
           second == IF behind THEN Ingested(first, late.id, late.half, FALSE) ELSE first
           third(again) == IF again THEN Ingested(second, id, h, FALSE) ELSE second
           Taken(again) ==
             /\ m' = third(again).m /\ undo' = third(again).undo /\ high' = third(again).high
             /\ st' = third(again).m /\ late' = NotLate
             /\ found' = found \cup {f \in FaultKinds :
                  \/ f = "counter_reset" /\ reset /\ first.m = st
                  \/ f = "latency" /\ behind /\ second.m # first.m
                  \/ f = "resend" /\ third(again).m # second.m
                  \/ f = "wrong_phase" /\ fault = f /\ third(again).m # st}
             /\ at' = then
<1>2. /\ counter' = id
      /\ \/ \E again \in (IF second.m.complete THEN {FALSE} ELSE Rolls("resend")) : Taken(again)
         \/ Refused(first)
         \/ Unanswered(first)
  BY <1>1
<1>3. reset \in BOOLEAN /\ (reset => changes /\ "counter_reset" \in faults /\ "latency" \notin faults)
  <2> HIDE <1>1
  <2>1. reset \in (IF changes /\ counter > 0 THEN Rolls("counter_reset") ELSE {FALSE})
    OBVIOUS
  <2>2. QED
    BY <2>1, RollsAre DEF Apart
<1>4. /\ st = m /\ Sound(m) /\ undo \in Seq(Match) /\ high \in Nat /\ counter \in Nat /\ high <= counter
      /\ late # NotLate => "latency" \in faults /\ late.id \in Nat /\ late.id <= counter
  BY DEF InStep
<1>5. id \in Nat /\ (reset => id = 1) /\ (~reset => id = counter + 1)
  BY <1>3, <1>4
<1> DEFINE behindIt == [m |-> m, undo |-> undo, high |-> id]
<1> HIDE DEF id
<1>6. first = Pressed(behindIt, h)
  <2>1. now.m = m /\ now.high = high /\ [now EXCEPT !.high = id] = behindIt
    OBVIOUS
  <2>2. id > now.high \/ (reset /\ id <= RestartMaxEventID)
    BY <1>3, <1>4, <1>5, <2>1, PongGameAssumption
  <2> HIDE DEF now, behindIt
  <2>3. QED
    BY <2>1, <2>2 DEF Ingested
<1> HIDE DEF first
<1>7. first.m = After(m, h)
  BY <1>4, <1>6, PressIsAfter
<1>8. /\ first.high = id /\ first.undo \in Seq(Match)
      /\ Phase(m) \in {"serve_rally", "playing"} => first.undo # <<>> /\ first.undo[Len(first.undo)] = m
  BY <1>4, <1>6, PressPushes
<1>9. second = first
  <2>1. CASE behind
    <3>1. late.id \in Nat /\ late.id <= first.high
      BY <1>3, <1>4, <1>5, <1>8, <2>1
    <3>2. Ingested(first, late.id, late.half, FALSE) = first
      BY <1>5, <1>8, <3>1, BehindIsDropped
    <3>3. QED
      BY <2>1, <3>2
  <2>2. CASE ~behind
    BY <2>2
  <2>3. QED
    BY <2>1, <2>2
<1> HIDE DEF second, behind
<1>10. ASSUME NEW again \in BOOLEAN PROVE third(again) = first
  <2>1. id <= first.high /\ first.high \in Nat
    BY <1>5, <1>8
  <2>2. Ingested(first, id, h, FALSE) = first
    BY <1>5, <2>1, BehindIsDropped
  <2>3. QED
    BY <1>9, <2>2
<1> HIDE DEF third
<1>11. ASSUME NEW again \in BOOLEAN, Taken(again)
       PROVE  /\ found' = {} /\ at' = then /\ m' = first.m /\ st' = first.m /\ undo' = first.undo
              /\ high' = first.high /\ late' = NotLate
  <2>1. third(again) = first
    BY <1>10
  <2>2. ASSUME NEW f \in found' PROVE FALSE
    <3>1. \/ f = "counter_reset" /\ reset /\ first.m = st
          \/ f = "latency" /\ behind /\ second.m # first.m
          \/ f = "resend" /\ third(again).m # second.m
          \/ f = "wrong_phase" /\ fault = f /\ third(again).m # st
      BY <1>11
    <3>2. QED
      BY <1>3, <1>4, <1>7, <1>9, <2>1, <3>1
  <2>3. QED
    BY <1>11, <2>1, <2>2
<1>12. CASE \E again \in (IF second.m.complete THEN {FALSE} ELSE Rolls("resend")) : Taken(again)
  <2>1. PICK again \in BOOLEAN : Taken(again)
    <3> HIDE DEF Taken
    <3>1. QED
      BY <1>12, RollsAre
  <2>2. /\ found' = {} /\ at' = then /\ m' = first.m /\ st' = first.m /\ undo' = first.undo
        /\ high' = first.high /\ late' = NotLate
    BY <1>11, <2>1
  <2> HIDE DEF Taken
  <2>3. QED
    BY <1>2, <1>5, <1>7, <1>8, <2>2
<1>13. CASE Refused(first) \/ Unanswered(first)
  BY <1>13 DEF Refused, Unanswered, Over
<1> HIDE DEF Taken
<1>14. QED
  BY <1>2, <1>12, <1>13

-----------------------------------------------------------------------------
(* What is unexplained, when the match or the truth moves.                 *)

LEMMA PointsAreIntegers ==
  ASSUME NEW p \in Player
  PROVE  Love \in [Player -> Int] /\ PointFor(p) \in [Player -> Int] /\ PointShort(p) \in [Player -> Int]
<1>1. 0 \in Int /\ 1 \in Int /\ -1 \in Int
  OBVIOUS
<1>2. QED
  BY <1>1 DEF Love, PointFor, PointShort

LEMMA UnexplainedIs ==
  ASSUME NEW x \in Match, NEW t \in Truth, NEW f \in [Player -> Int],
         \A q \in Player : Awarded(x, q) = f[q] + t.won[q] + t.explained[q]
  PROVE  Unexplained(x, t) = f
<1>1. ASSUME NEW q \in Player PROVE Awarded(x, q) - t.won[q] - t.explained[q] = f[q]
  <2>1. f[q] \in Int /\ t.won[q] \in Int /\ t.explained[q] \in Int
    BY DEF Truth
  <2>2. QED
    BY <2>1
<1>2. f = [q \in Player |-> f[q]]
  OBVIOUS
<1>3. QED
  BY <1>1, <1>2 DEF Unexplained

LEMMA AwardedAndExplained ==
  ASSUME NEW x \in Match, NEW t \in Truth, NEW f \in [Player -> Int], Unexplained(x, t) = f, NEW q \in Player
  PROVE  /\ Awarded(x, q) = f[q] + t.won[q] + t.explained[q]
         /\ f[q] \in Int /\ t.won[q] \in Int /\ t.explained[q] \in Int
<1>1. f[q] \in Int /\ t.won[q] \in Int /\ t.explained[q] \in Int /\ Awarded(x, q) \in Int
  BY AwardedIsNatural DEF Truth
<1>2. f[q] = Awarded(x, q) - t.won[q] - t.explained[q]
  BY DEF Unexplained
<1>3. QED
  BY <1>1, <1>2

(* A press that awards nothing, and one that awards a point.               *)
LEMMA NothingMore ==
  ASSUME NEW x, NEW y, NEW t, \A q \in Player : Awarded(y, q) = Awarded(x, q)
  PROVE  Unexplained(y, t) = Unexplained(x, t)
BY DEF Unexplained

LEMMA PointMore ==
  ASSUME NEW x \in Match, NEW y \in Match, NEW t \in Truth, NEW p \in Player,
         \A q \in Player : Awarded(y, q) = Awarded(x, q) + PointFor(p)[q]
  PROVE  /\ Unexplained(x, t) = Love => Unexplained(y, t) = PointFor(p)
         /\ Unexplained(x, t) = PointShort(p) => Unexplained(y, t) = Love
<1>1. \A q \in Player : /\ Love[q] = 0 /\ PointFor(p)[q] = (IF q = p THEN 1 ELSE 0)
                        /\ PointShort(p)[q] = (IF q = p THEN -1 ELSE 0)
  BY DEF Love, PointFor, PointShort
<1>2. CASE Unexplained(x, t) = Love
  <2>1. ASSUME NEW q \in Player PROVE Awarded(y, q) = PointFor(p)[q] + t.won[q] + t.explained[q]
    <3>1. Awarded(x, q) = Love[q] + t.won[q] + t.explained[q] /\ t.won[q] \in Int /\ t.explained[q] \in Int
      BY <1>2, PointsAreIntegers, AwardedAndExplained
    <3>2. QED
      BY <1>1, <3>1
  <2>2. Unexplained(y, t) = PointFor(p)
    BY <2>1, PointsAreIntegers, UnexplainedIs
  <2>3. Love # PointShort(p)
    BY <1>1
  <2>4. QED
    BY <1>2, <2>2, <2>3
<1>3. CASE Unexplained(x, t) = PointShort(p)
  <2>1. ASSUME NEW q \in Player PROVE Awarded(y, q) = Love[q] + t.won[q] + t.explained[q]
    <3>1. /\ Awarded(x, q) = PointShort(p)[q] + t.won[q] + t.explained[q]
          /\ t.won[q] \in Int /\ t.explained[q] \in Int
      BY <1>3, PointsAreIntegers, AwardedAndExplained
    <3>2. QED
      BY <1>1, <3>1
  <2>2. Unexplained(y, t) = Love
    BY <2>1, PointsAreIntegers, UnexplainedIs
  <2>3. Love # PointShort(p)
    BY <1>1
  <2>4. QED
    BY <1>3, <2>2, <2>3
<1>4. QED
  BY <1>2, <1>3

(* A rally won, and one whose press is lost on the way.                    *)
LEMMA WonIsShort ==
  ASSUME NEW x \in Match, NEW t \in Truth, NEW p \in Player, Unexplained(x, t) = Love,
         NEW u, u = [t EXCEPT !.won[p] = @ + 1]
  PROVE  u \in Truth /\ u.explainedServe = t.explainedServe /\ Unexplained(x, u) = PointShort(p)
<1> DEFINE won == [t.won EXCEPT ![p] = @ + 1]
<1>1. t.won \in [Player -> Int] /\ t.explained \in [Player -> Int]
  BY DEF Truth
<1>2. won \in [Player -> Int] /\ \A q \in Player : won[q] = IF q = p THEN t.won[q] + 1 ELSE t.won[q]
  BY <1>1
<1>3. u = [t EXCEPT !.won = won]
  BY DEF Truth
<1> HIDE DEF won
<1>4. u \in Truth /\ u.explainedServe = t.explainedServe /\ u.won = won /\ u.explained = t.explained
  BY <1>2, <1>3 DEF Truth
<1>5. ASSUME NEW q \in Player PROVE Awarded(x, q) = PointShort(p)[q] + u.won[q] + u.explained[q]
  <2>1. Awarded(x, q) = Love[q] + t.won[q] + t.explained[q] /\ t.won[q] \in Int /\ t.explained[q] \in Int
    BY PointsAreIntegers, AwardedAndExplained
  <2>2. Love[q] = 0 /\ PointShort(p)[q] = IF q = p THEN -1 ELSE 0
    BY DEF Love, PointShort
  <2>3. QED
    BY <1>2, <1>4, <2>1, <2>2
<1>6. QED
  BY <1>4, <1>5, PointsAreIntegers, UnexplainedIs

(* What is explained of a press that never came, and of one nobody made.   *)
LEMMA LostIsExplained ==
  ASSUME NEW x \in Match, NEW t \in Truth, NEW p \in Player, Unexplained(x, t) = PointShort(p),
         NEW u, u = [t EXCEPT !.explained[p] = @ - 1]
  PROVE  u \in Truth /\ Unexplained(x, u) = Love
<1> DEFINE e == [t.explained EXCEPT ![p] = @ - 1]
<1>1. t.explained \in [Player -> Int]
  BY DEF Truth
<1>2. e \in [Player -> Int] /\ \A q \in Player : e[q] = IF q = p THEN t.explained[q] - 1 ELSE t.explained[q]
  BY <1>1
<1>3. u = [t EXCEPT !.explained = e]
  BY DEF Truth
<1> HIDE DEF e
<1>4. u \in Truth /\ u.won = t.won /\ u.explained = e
  BY <1>2, <1>3 DEF Truth
<1>5. ASSUME NEW q \in Player PROVE Awarded(x, q) = Love[q] + u.won[q] + u.explained[q]
  <2>1. /\ Awarded(x, q) = PointShort(p)[q] + t.won[q] + t.explained[q]
        /\ t.won[q] \in Int /\ t.explained[q] \in Int
    BY PointsAreIntegers, AwardedAndExplained
  <2>2. Love[q] = 0 /\ PointShort(p)[q] = IF q = p THEN -1 ELSE 0
    BY DEF Love, PointShort
  <2>3. QED
    BY <1>2, <1>4, <2>1, <2>2
<1>6. QED
  BY <1>4, <1>5, PointsAreIntegers, UnexplainedIs

LEMMA ExtraIsExplained ==
  ASSUME NEW x \in Match, NEW t \in Truth, NEW p \in Player, Unexplained(x, t) = PointFor(p),
         NEW u, u = [t EXCEPT !.explained[p] = @ + 1]
  PROVE  u \in Truth /\ Unexplained(x, u) = Love
<1> DEFINE e == [t.explained EXCEPT ![p] = @ + 1]
<1>1. t.explained \in [Player -> Int]
  BY DEF Truth
<1>2. e \in [Player -> Int] /\ \A q \in Player : e[q] = IF q = p THEN t.explained[q] + 1 ELSE t.explained[q]
  BY <1>1
<1>3. u = [t EXCEPT !.explained = e]
  BY DEF Truth
<1> HIDE DEF e
<1>4. u \in Truth /\ u.won = t.won /\ u.explained = e
  BY <1>2, <1>3 DEF Truth
<1>5. ASSUME NEW q \in Player PROVE Awarded(x, q) = Love[q] + u.won[q] + u.explained[q]
  <2>1. /\ Awarded(x, q) = PointFor(p)[q] + t.won[q] + t.explained[q]
        /\ t.won[q] \in Int /\ t.explained[q] \in Int
    BY PointsAreIntegers, AwardedAndExplained
  <2>2. Love[q] = 0 /\ PointFor(p)[q] = IF q = p THEN 1 ELSE 0
    BY DEF Love, PointFor
  <2>3. QED
    BY <1>2, <1>4, <2>1, <2>2
<1>6. QED
  BY <1>4, <1>5, PointsAreIntegers, UnexplainedIs

(* A mis-press that stays: one too few for its winner, one too many for    *)
(* the other.                                                              *)
LEMMA MisPressIsExplained ==
  ASSUME NEW x \in Match, NEW y \in Match, NEW t \in Truth, NEW w \in Player, Unexplained(x, t) = PointShort(w),
         \A q \in Player : Awarded(y, q) = Awarded(x, q) + PointFor(Opponent(w))[q],
         NEW u, u = [t EXCEPT !.explained[w] = @ - 1, !.explained[Opponent(w)] = @ + 1]
  PROVE  u \in Truth /\ Unexplained(y, u) = Love
<1> DEFINE o == Opponent(w)
           e == [t.explained EXCEPT ![w] = @ - 1, ![o] = @ + 1]
<1>1. t.explained \in [Player -> Int] /\ o \in Player /\ o # w
  BY PlayersAreTwo DEF Truth
<1>2. u = [t EXCEPT !.explained = e]
  BY DEF Truth
<1>3. \A q \in Player : Awarded(y, q) = Awarded(x, q) + PointFor(o)[q]
  OBVIOUS
<1> HIDE DEF o
<1>4. /\ e \in [Player -> Int]
      /\ \A q \in Player : e[q] = IF q = w THEN t.explained[q] - 1
                                  ELSE IF q = o THEN t.explained[q] + 1 ELSE t.explained[q]
  BY <1>1
<1> HIDE DEF e
<1>5. u \in Truth /\ u.won = t.won /\ u.explained = e
  BY <1>2, <1>4 DEF Truth
<1>6. ASSUME NEW q \in Player PROVE Awarded(y, q) = Love[q] + u.won[q] + u.explained[q]
  <2>1. /\ Awarded(x, q) = PointShort(w)[q] + t.won[q] + t.explained[q]
        /\ t.won[q] \in Int /\ t.explained[q] \in Int
    BY PointsAreIntegers, AwardedAndExplained
  <2>2. /\ Love[q] = 0 /\ PointShort(w)[q] = (IF q = w THEN -1 ELSE 0)
        /\ PointFor(o)[q] = (IF q = o THEN 1 ELSE 0)
    BY DEF Love, PointShort, PointFor
  <2>3. QED
    BY <1>1, <1>3, <1>4, <1>5, <2>1, <2>2
<1>7. QED
  BY <1>5, <1>6, PointsAreIntegers, UnexplainedIs

-----------------------------------------------------------------------------
(* Every step of the game.                                                 *)

LEMMA EndsArePlaces == ASSUME NEW x PROVE Ends(x) \in Place
<1>1. \A h \in Half : PlayerAt(x, h) \in Player
  BY StandsAt
<1>2. QED
  BY <1>1 DEF Ends, Place

LEMMA StandsAtEnds ==
  ASSUME NEW x, standing = Ends(x), NEW p \in Player
  PROVE  At(p) \in Half /\ PlayerAt(x, At(p)) = p
<1>1. HalfOf(x, p) \in Half /\ PlayerAt(x, HalfOf(x, p)) = p
  <2>1. CASE Swapped(x)
    BY <2>1 DEF HalfOf, PlayerAt, Player, Opponent, OtherHalf, Half
  <2>2. CASE ~Swapped(x)
    BY <2>2 DEF HalfOf, PlayerAt, Player, Opponent, OtherHalf, Half
  <2>3. QED
    BY <2>1, <2>2
<1>2. \E h \in Half : standing[h] = p
  BY <1>1 DEF Ends
<1>3. At(p) \in Half /\ standing[At(p)] = p
  BY <1>2 DEF At
<1>4. QED
  BY <1>3 DEF Ends

LEMMA GameGoesOn ==
  ASSUME GameInv, at \in Places
  PROVE  /\ found = {} /\ InStep /\ truth \in Truth /\ parted = Love /\ Walked /\ Outstanding
         /\ st = m /\ Sound(st) /\ st \in Match
<1>1. at \notin Over
  BY DEF Places, Over
<1>2. QED
  BY <1>1 DEF GameInv, InStep, Sound

LEMMA OverKeeps ==
  ASSUME found' = {}, at' \in Over
  PROVE  GameInv'
BY DEF GameInv

(* A report that was answered leaves both in step.                         *)
LEMMA AnsweredInStep ==
  ASSUME NEW x, Sound(x), m' = x, st' = m', undo' \in Seq(Match),
         counter' \in Nat, high' \in Nat, high' <= counter', late' = NotLate
  PROVE  InStep'
BY DEF InStep

LEMMA WalkKnows ==
  ASSUME Walked, at = "top", Walk
  PROVE  /\ acted' = Phase(st) /\ standing' = Ends(st) /\ standing' \in Place
         /\ Phase(st) # "change_ends" => standing' = standing
BY EndsArePlaces DEF Walked, Walk

LEMMA DoneKeeps ==
  ASSUME GameInv, Done
  PROVE  GameInv'
<1>1. at = "top" /\ at' \in Over /\ found' = found
  BY DEF Done, Over
<1>2. QED
  BY <1>1, GameGoesOn, OverKeeps DEF Places

LEMMA ReadyKeeps ==
  ASSUME GameInv, Apart, NEW h \in Half, Ready(h)
  PROVE  GameInv'
<1>1. /\ at = "top" /\ ~st.complete /\ Phase(st) \in {"warmup", "change_ends"} /\ Walk
      /\ doing' = [Idle EXCEPT !.half = h] /\ UNCHANGED <<truth, parted>>
  BY DEF Ready, Top
<1>2. /\ found = {} /\ InStep /\ truth \in Truth /\ parted = Love /\ Walked /\ st = m /\ Sound(st)
      /\ Unexplained(st, truth) = Love
  <2>1. at \in Places
    BY <1>1 DEF Places
  <2>2. QED
    BY <1>1, <2>1, GameGoesOn DEF Outstanding
<1>3. PICK y : y = After(m, h)
  OBVIOUS
<1>4. /\ Sound(y) /\ Ends(y) = Ends(st) /\ \A q \in Player : Awarded(y, q) = Awarded(st, q)
      /\ h \notin st.pressed => y # st
      /\ Waiting(y) # {} => h \in y.pressed
  BY <1>1, <1>2, <1>3, ReadyPressed
<1>5. /\ found' = {}
      /\ \/ at' \in Over
         \/ /\ at' = "ready" /\ m' = y /\ st' = m' /\ undo' \in Seq(Match)
            /\ counter' \in Nat /\ high' \in Nat /\ high' <= counter' /\ late' = NotLate
  <2>1. PICK changes \in BOOLEAN : changes = (h \in Waiting(st))
    <3>1. (h \in Waiting(st)) \in BOOLEAN
      OBVIOUS
    <3>2. QED
      BY <3>1
  <2>2. Report(h, changes, None, "ready")
    BY <2>1 DEF Ready
  <2>3. changes => y # m
    BY <1>2, <1>4, <2>1 DEF Waiting
  <2>4. None # "wrong_phase"
    BY DEF None
  <2>5. ~m.complete
    BY <1>1, <1>2
  <2>6. QED
    BY <1>2, <1>3, <2>2, <2>3, <2>4, <2>5, ReportMakes
<1>6. ASSUME at' \notin Over PROVE GameInv'
  <2>1. /\ found' = {} /\ at' = "ready" /\ m' = y /\ st' = m' /\ undo' \in Seq(Match)
        /\ counter' \in Nat /\ high' \in Nat /\ high' <= counter' /\ late' = NotLate
    BY <1>5, <1>6
  <2>2. InStep'
    BY <1>4, <2>1, AnsweredInStep
  <2>3. Walked'
    BY <1>1, <1>2, <1>4, <2>1, WalkKnows DEF Walked
  <2>4. Unexplained(y, truth) = Love
    BY <1>2, <1>4, NothingMore
  <2>5. doing'.half = h
    BY <1>1 DEF Idle
  <2>6. Outstanding'
    BY <1>1, <1>4, <2>1, <2>4, <2>5 DEF Outstanding
  <2>7. QED
    BY <1>1, <1>2, <2>1, <2>2, <2>3, <2>6 DEF GameInv, Places
<1>7. QED
  BY <1>5, <1>6, OverKeeps

LEMMA ReadiedKeeps ==
  ASSUME GameInv, Apart, Readied
  PROVE  GameInv'
<1>1. at = "ready" /\ UNCHANGED <<doing, standing, acted, truth, parted>>
  BY DEF Readied, placeVars
<1>2. /\ found = {} /\ InStep /\ truth \in Truth /\ parted = Love /\ Walked /\ st = m /\ Sound(st)
      /\ Unexplained(st, truth) = Love /\ doing.half \in Half
      /\ Waiting(st) # {} => doing.half \in st.pressed
  <2>1. at \in Places
    BY <1>1 DEF Places
  <2>2. QED
    BY <1>1, <2>1, GameGoesOn DEF Outstanding
<1>3. CASE at' = "top" /\ UNCHANGED <<matchVars, st, pressVars, found, injected, lost>> /\ UNCHANGED faults
  <2>1. UNCHANGED <<m, undo, high, st, counter, late, found, faults>>
    BY <1>3 DEF matchVars, pressVars
  <2>2. InStep'
    BY <1>2, <2>1 DEF InStep
  <2>3. Walked'
    BY <1>1, <1>2, <1>3, <2>1 DEF Walked
  <2>4. Outstanding'
    BY <1>1, <1>2, <1>3, <2>1 DEF Outstanding
  <2>5. QED
    BY <1>1, <1>2, <1>3, <2>1, <2>2, <2>3, <2>4 DEF GameInv, Places
<1>4. CASE Waiting(st) # {} /\ Report(doing.half, FALSE, "wrong_phase", "top")
  <2>1. Phase(st) \in {"warmup", "change_ends"} /\ doing.half \in st.pressed
    BY <1>2, <1>4 DEF Waiting
  <2>2. After(m, doing.half) = m /\ ~m.complete
    BY <1>2, <2>1, ReadyPressed, PhaseIs
  <2>3. /\ found' = {}
        /\ \/ at' \in Over
           \/ /\ at' = "top" /\ m' = m /\ st' = m' /\ undo' \in Seq(Match)
              /\ counter' \in Nat /\ high' \in Nat /\ high' <= counter' /\ late' = NotLate
    BY <1>2, <1>4, <2>2, ReportMakes
  <2>4. ASSUME at' \notin Over PROVE GameInv'
    <3>1. /\ found' = {} /\ at' = "top" /\ m' = m /\ st' = m' /\ undo' \in Seq(Match)
          /\ counter' \in Nat /\ high' \in Nat /\ high' <= counter' /\ late' = NotLate
      BY <2>3, <2>4
    <3>2. InStep'
      BY <1>2, <3>1, AnsweredInStep
    <3>3. Walked'
      BY <1>1, <1>2, <3>1 DEF Walked
    <3>4. Outstanding'
      BY <1>1, <1>2, <3>1 DEF Outstanding
    <3>5. QED
      BY <1>1, <1>2, <3>1, <3>2, <3>3, <3>4 DEF GameInv, Places
  <2>5. QED
    BY <2>3, <2>4, OverKeeps
<1>5. QED
  BY <1>3, <1>4 DEF Readied

(* A press for a rally changes the match, at whichever half it is made.    *)
LEMMA RallyPressed ==
  ASSUME NEW x, Sound(x), Phase(x) \in {"serve_rally", "playing"}, NEW h \in Half, NEW y, y = After(x, h)
  PROVE  Sound(y) /\ y # x /\ (Phase(y) # "change_ends" => Ends(y) = Ends(x)) /\ ~x.complete
<1>1. CASE Phase(x) = "serve_rally"
  BY <1>1, ServePressed, PhaseIs
<1>2. CASE Phase(x) = "playing"
  BY <1>2, PointPressed, PhaseIs
<1>3. QED
  BY <1>1, <1>2

LEMMA RallyReported ==
  ASSUME InStep, Apart, found = {}, Phase(st) \in {"serve_rally", "playing"}, NEW h \in Half,
         NEW fault, fault # "wrong_phase", NEW then, Report(h, TRUE, fault, then), at' \notin Over
  PROVE  /\ found' = {} /\ at' = then /\ st' = After(st, h) /\ m' = st' /\ InStep'
         /\ undo' # <<>> /\ undo'[Len(undo')] = st
         /\ Sound(st') /\ (Phase(st') # "change_ends" => Ends(st') = Ends(st))
<1>1. st = m /\ Sound(st)
  BY DEF InStep
<1>2. PICK y : y = After(st, h)
  OBVIOUS
<1>3. Sound(y) /\ y # st /\ (Phase(y) # "change_ends" => Ends(y) = Ends(st)) /\ ~st.complete
  BY <1>1, <1>2, RallyPressed
<1>4. /\ found' = {} /\ at' = then /\ m' = After(m, h) /\ st' = m' /\ undo' \in Seq(Match)
      /\ Phase(m) \in {"serve_rally", "playing"} => undo' # <<>> /\ undo'[Len(undo')] = m
      /\ counter' \in Nat /\ high' \in Nat /\ high' <= counter' /\ late' = NotLate
  BY <1>1, <1>2, <1>3, ReportMakes
<1>5. InStep'
  BY <1>1, <1>2, <1>3, <1>4, AnsweredInStep
<1>6. QED
  BY <1>1, <1>2, <1>3, <1>4, <1>5

LEMMA FoundNothing ==
  ASSUME InStep, Apart, found = {}, Phase(st) \in {"serve_rally", "playing"}, NEW h \in Half,
         NEW fault, fault # "wrong_phase", NEW then, Report(h, TRUE, fault, then)
  PROVE  found' = {}
<1>1. st = m /\ Sound(st)
  BY DEF InStep
<1>2. After(m, h) # m /\ ~m.complete
  BY <1>1, RallyPressed
<1>3. QED
  BY <1>2, ReportMakes

(* The press of a rally, and its mis-press.                                *)
LEMMA PressMakes ==
  ASSUME InStep, Apart, found = {}, Phase(st) \in {"serve_rally", "playing"}, NEW p, NEW h \in Half,
         NEW next, Press(p, h, next)
  PROVE  /\ found' = {}
         /\ \/ at' \in Over
            \/ /\ doing' = [player |-> p, half |-> h, before |-> st, next |-> next]
               /\ m' = st' /\ InStep' /\ Sound(st') /\ (Phase(st') # "change_ends" => Ends(st') = Ends(st))
               /\ \/ at' = next /\ st' = After(st, h)
                  \/ /\ at' = "wrong" /\ st' = After(st, OtherHalf(h))
                     /\ undo' # <<>> /\ undo'[Len(undo')] = st
<1>1. /\ doing' = [player |-> p, half |-> h, before |-> st, next |-> next]
      /\ Report(OtherHalf(h), TRUE, None, "wrong") \/ Report(h, TRUE, None, next)
  BY DEF Press
<1>2. None # "wrong_phase" /\ OtherHalf(h) \in Half
  BY HalvesAreTwo DEF None
<1>3. CASE Report(OtherHalf(h), TRUE, None, "wrong")
  BY <1>1, <1>2, <1>3, FoundNothing, RallyReported
<1>4. CASE Report(h, TRUE, None, next)
  BY <1>1, <1>2, <1>4, FoundNothing, RallyReported
<1>5. QED
  BY <1>1, <1>3, <1>4

LEMMA ServeRallyKeeps ==
  ASSUME GameInv, Apart, NEW p \in Player, ServeRally(p)
  PROVE  GameInv'
<1>1. /\ at = "top" /\ ~st.complete /\ Phase(st) = "serve_rally" /\ Walk
      /\ truth' = [truth EXCEPT !.serve = p, !.explainedServe = p] /\ parted' = parted
      /\ Press(p, At(p), "serve")
  BY DEF ServeRally, Top
<1>2. /\ found = {} /\ InStep /\ truth \in Truth /\ parted = Love /\ Walked /\ st = m /\ Sound(st)
      /\ st \in Match /\ Unexplained(st, truth) = Love
  <2>1. at \in Places
    BY <1>1 DEF Places
  <2>2. QED
    BY <1>1, <2>1, GameGoesOn DEF Outstanding
<1>3. standing = Ends(st) /\ standing' = standing /\ standing' \in Place /\ acted' = "serve_rally"
  BY <1>1, <1>2, WalkKnows
<1>4. PICK h \in Half : h = At(p) /\ PlayerAt(st, h) = p
  BY <1>3, StandsAtEnds
<1>5. /\ found' = {}
      /\ \/ at' \in Over
         \/ /\ doing' = [player |-> p, half |-> h, before |-> st, next |-> "serve"]
            /\ m' = st' /\ InStep' /\ Sound(st') /\ (Phase(st') # "change_ends" => Ends(st') = Ends(st))
            /\ \/ at' = "serve" /\ st' = After(st, h)
               \/ /\ at' = "wrong" /\ st' = After(st, OtherHalf(h))
                  /\ undo' # <<>> /\ undo'[Len(undo')] = st
  <2>1. Press(p, h, "serve")
    BY <1>1, <1>4
  <2>2. QED
    BY <1>1, <1>2, <2>1, PressMakes
<1>6. truth' \in Truth /\ truth'.won = truth.won /\ truth'.explained = truth.explained /\ truth'.explainedServe = p
  BY <1>1, <1>2 DEF Truth
<1>7. \A x : Unexplained(x, truth') = Unexplained(x, truth)
  BY <1>6 DEF Unexplained
<1>8. ASSUME at' \notin Over PROVE GameInv'
  <2>1. /\ doing' = [player |-> p, half |-> h, before |-> st, next |-> "serve"]
        /\ InStep' /\ Sound(st') /\ (Phase(st') # "change_ends" => Ends(st') = Ends(st))
    BY <1>5, <1>8
  <2>2. acted' # "change_ends"
    BY <1>3
  <2>3. Walked'
    BY <1>3, <2>1, <2>2 DEF Walked
  <2>4. CASE at' = "serve" /\ st' = After(st, h)
    <3>1. Serving(st') = p /\ \A q \in Player : Awarded(st', q) = Awarded(st, q)
      BY <1>1, <1>2, <1>4, <2>4, ServePressed
    <3>2. Unexplained(st', truth') = Love
      BY <1>2, <1>7, <3>1, NothingMore
    <3>3. Outstanding'
      BY <1>6, <2>4, <3>1, <3>2 DEF Outstanding
    <3>4. QED
      BY <1>1, <1>2, <1>5, <1>6, <2>1, <2>3, <2>4, <3>3 DEF GameInv, Places
  <2>5. CASE at' = "wrong" /\ st' = After(st, OtherHalf(h)) /\ undo' # <<>> /\ undo'[Len(undo')] = st
    <3>1. Played'
      BY <1>1, <1>2, <1>3, <1>4, <1>6, <1>7, <2>1 DEF Played
    <3>2. Outstanding'
      BY <2>1, <2>5, <3>1 DEF Outstanding
    <3>3. QED
      BY <1>1, <1>2, <1>5, <1>6, <2>1, <2>3, <2>5, <3>2 DEF GameInv, Places
  <2>6. QED
    BY <1>5, <1>8, <2>4, <2>5
<1>9. QED
  BY <1>5, <1>8, OverKeeps

LEMMA ServedKeeps ==
  ASSUME GameInv, Served
  PROVE  GameInv'
<1>1. /\ at = "serve" /\ at' = "top"
      /\ found' = IF Serving(st) # truth.explainedServe THEN found \cup {"serve"} ELSE found
      /\ UNCHANGED <<m, undo, high, st, doing, standing, acted, counter, late, truth, parted, faults>>
  BY DEF Served, matchVars, placeVars, pressVars
<1>2. /\ found = {} /\ InStep /\ truth \in Truth /\ parted = Love /\ Walked
      /\ Unexplained(st, truth) = Love /\ Serving(st) = truth.explainedServe
  <2>1. at \in Places
    BY <1>1 DEF Places
  <2>2. QED
    BY <1>1, <2>1, GameGoesOn DEF Outstanding
<1>3. found' = {}
  BY <1>1, <1>2
<1>4. InStep' /\ Walked'
  BY <1>1, <1>2 DEF InStep, Walked
<1>5. Outstanding'
  BY <1>1, <1>2 DEF Outstanding
<1>6. QED
  BY <1>1, <1>2, <1>3, <1>4, <1>5 DEF GameInv, Places

LEMMA UncorrectedKeeps ==
  ASSUME GameInv, Uncorrected
  PROVE  GameInv'
<1> DEFINE w == doing.player
           x == doing.before
<1>1. /\ at = "wrong" /\ at' = doing.next
      /\ truth' = IF Phase(x) = "serve_rally" THEN [truth EXCEPT !.explainedServe = Opponent(w)]
                  ELSE [truth EXCEPT !.explained[w] = @ - 1, !.explained[Opponent(w)] = @ + 1]
      /\ UNCHANGED <<m, undo, high, st, doing, standing, acted, counter, late, parted, found, faults>>
  BY DEF Uncorrected, matchVars, placeVars, pressVars
<1>2. /\ found = {} /\ InStep /\ truth \in Truth /\ parted = Love /\ Walked /\ st \in Match
      /\ Played /\ st = After(x, OtherHalf(doing.half))
  <2>1. at \in Places
    BY <1>1 DEF Places
  <2>2. QED
    BY <1>1, <2>1, GameGoesOn DEF Outstanding
<1>3. /\ Sound(x) /\ x \in Match /\ doing.half \in Half /\ w = PlayerAt(x, doing.half)
      /\ OtherHalf(doing.half) \in Half
      /\ w \in Player /\ Opponent(w) \in Player /\ PlayerAt(x, OtherHalf(doing.half)) = Opponent(w)
      /\ \/ /\ Phase(x) = "serve_rally" /\ doing.next = "serve"
            /\ Unexplained(x, truth) = Love
         \/ Phase(x) = "playing" /\ doing.next = "point" /\ Unexplained(x, truth) = PointShort(w)
  <2>1. /\ Sound(x) /\ x \in Match /\ doing.half \in Half /\ w = PlayerAt(x, doing.half)
        /\ \/ /\ Phase(x) = "serve_rally" /\ doing.next = "serve"
              /\ Unexplained(x, truth) = Love
           \/ Phase(x) = "playing" /\ doing.next = "point" /\ Unexplained(x, truth) = PointShort(w)
    BY <1>2 DEF Played, Sound
  <2> HIDE DEF x, w
  <2>2. QED
    BY <2>1, StandsAt, HalvesAreTwo, PlayersAreTwo
<1> HIDE DEF x, w
<1>4. InStep' /\ found' = {} /\ parted' = Love
  BY <1>1, <1>2 DEF InStep
<1>5. at' \in {"serve", "point"} /\ Walked'
  BY <1>1, <1>2, <1>3 DEF Walked
<1>6. CASE Phase(x) = "serve_rally"
  <2>1. truth' = [truth EXCEPT !.explainedServe = Opponent(w)] /\ at' = "serve" /\ Unexplained(x, truth) = Love
    BY <1>1, <1>3, <1>6
  <2>2. /\ truth' \in Truth /\ truth'.won = truth.won /\ truth'.explained = truth.explained
        /\ truth'.explainedServe = Opponent(w)
    BY <1>2, <1>3, <2>1 DEF Truth
  <2>3. Serving(st) = Opponent(w) /\ \A q \in Player : Awarded(st, q) = Awarded(x, q)
    BY <1>2, <1>3, <1>6, ServePressed
  <2>4. Unexplained(st, truth') = Unexplained(x, truth)
    BY <2>2, <2>3 DEF Unexplained
  <2>5. Outstanding'
    BY <1>1, <2>1, <2>2, <2>3, <2>4 DEF Outstanding
  <2>6. QED
    BY <1>4, <1>5, <2>1, <2>2, <2>5 DEF GameInv, Places
<1>7. CASE Phase(x) = "playing"
  <2>1. /\ truth' = [truth EXCEPT !.explained[w] = @ - 1, !.explained[Opponent(w)] = @ + 1]
        /\ at' = "point" /\ Unexplained(x, truth) = PointShort(w)
    BY <1>1, <1>3, <1>7
  <2>2. \A q \in Player : Awarded(st, q) = Awarded(x, q) + PointFor(Opponent(w))[q]
    BY <1>2, <1>3, <1>7, PointPressed
  <2>3. truth' \in Truth /\ Unexplained(st, truth') = Love
    <3>1. x \in Match /\ st \in Match /\ truth \in Truth /\ w \in Player
      BY <1>2, <1>3
    <3>2. QED
      BY <2>1, <2>2, <3>1, MisPressIsExplained, Zenon
  <2>4. Outstanding'
    BY <1>1, <1>3, <2>1, <2>3 DEF Outstanding
  <2>5. QED
    BY <1>4, <1>5, <2>1, <2>3, <2>4 DEF GameInv, Places
<1>8. QED
  BY <1>3, <1>6, <1>7

LEMMA TakeBackKeeps ==
  ASSUME GameInv, TakeBack
  PROVE  GameInv'
<1>1. /\ at = "wrong" /\ at' = "right"
      /\ UNCHANGED <<high, doing, standing, acted, counter, late, truth, parted, faults>>
  BY DEF TakeBack, placeVars, pressVars
<1>2. /\ found = {} /\ InStep /\ truth \in Truth /\ parted = Love /\ Walked
      /\ Played /\ undo # <<>> /\ undo[Len(undo)] = doing.before
  <2>1. at \in Places
    BY <1>1 DEF Places
  <2>2. QED
    BY <1>1, <2>1, GameGoesOn DEF Outstanding
<1>3. /\ m' = doing.before /\ undo' = SubSeq(undo, 1, Len(undo) - 1) /\ st' = m'
      /\ found' = {}
  BY <1>2 DEF TakeBack
<1>4. Sound(doing.before) /\ standing = Ends(doing.before) /\ undo \in Seq(Match)
  BY <1>2 DEF Played, InStep
<1>5. undo' \in Seq(Match)
  <2>1. Len(undo) \in Nat /\ Len(undo) # 0
    BY <1>2, <1>4
  <2>2. \A i \in 1..Len(undo) - 1 : i \in 1..Len(undo)
    BY <2>1
  <2>3. QED
    BY <1>3, <1>4, <2>1, <2>2
<1>6. InStep'
  BY <1>1, <1>2, <1>3, <1>4, <1>5 DEF InStep
<1>7. Walked'
  BY <1>1, <1>2, <1>3, <1>4 DEF Walked
<1>8. Played'
  BY <1>1, <1>2 DEF Played
<1>9. Outstanding'
  BY <1>1, <1>3, <1>8 DEF Outstanding
<1>10. QED
  BY <1>1, <1>2, <1>3, <1>6, <1>7, <1>9 DEF GameInv, Places

LEMMA SendRightKeeps ==
  ASSUME GameInv, Apart, SendRight
  PROVE  GameInv'
<1> DEFINE w == doing.player
           h == doing.half
<1>1. /\ at = "right" /\ Report(doing.half, TRUE, None, doing.next)
      /\ UNCHANGED <<doing, standing, acted, truth, parted, faults>>
  BY DEF SendRight, placeVars
<1>2. /\ found = {} /\ InStep /\ truth \in Truth /\ parted = Love /\ Walked /\ st = m /\ Sound(st)
      /\ st \in Match /\ Played /\ st = doing.before
  <2>1. at \in Places
    BY <1>1 DEF Places
  <2>2. QED
    BY <1>1, <2>1, GameGoesOn DEF Outstanding
<1>3. /\ h \in Half /\ w = PlayerAt(st, h) /\ standing = Ends(st)
      /\ \/ /\ Phase(st) = "serve_rally" /\ doing.next = "serve"
            /\ Unexplained(st, truth) = Love /\ truth.explainedServe = w
         \/ Phase(st) = "playing" /\ doing.next = "point" /\ Unexplained(st, truth) = PointShort(w)
  BY <1>2 DEF Played
<1>4. None # "wrong_phase" /\ Report(h, TRUE, None, doing.next)
  BY <1>1 DEF None
<1> HIDE DEF w, h
<1>5. w \in Player
  BY <1>3, StandsAt
<1>6. found' = {}
  BY <1>2, <1>3, <1>4, FoundNothing
<1>7. ASSUME at' \notin Over PROVE GameInv'
  <2>1. /\ at' = doing.next /\ st' = After(st, h) /\ m' = st' /\ InStep'
        /\ Sound(st') /\ (Phase(st') # "change_ends" => Ends(st') = Ends(st))
    BY <1>2, <1>3, <1>4, <1>7, RallyReported
  <2>2. acted' # "change_ends" /\ standing' \in Place
    BY <1>1, <1>2 DEF Walked
  <2>3. Walked'
    BY <1>1, <1>3, <2>1, <2>2 DEF Walked
  <2>4. CASE Phase(st) = "serve_rally"
    <3>1. /\ at' = "serve" /\ Unexplained(st, truth) = Love /\ truth.explainedServe = w
      BY <1>3, <2>1, <2>4
    <3>2. Serving(st') = w /\ \A q \in Player : Awarded(st', q) = Awarded(st, q)
      BY <1>2, <1>3, <2>1, <2>4, ServePressed
    <3>3. Unexplained(st', truth) = Love
      BY <3>1, <3>2, NothingMore
    <3>4. Outstanding'
      BY <1>1, <3>1, <3>2, <3>3 DEF Outstanding
    <3>5. QED
      BY <1>1, <1>2, <1>6, <2>1, <2>3, <3>1, <3>4 DEF GameInv, Places
  <2>5. CASE Phase(st) = "playing"
    <3>1. at' = "point" /\ Unexplained(st, truth) = PointShort(w)
      BY <1>3, <2>1, <2>5
    <3>2. \A q \in Player : Awarded(st', q) = Awarded(st, q) + PointFor(w)[q]
      BY <1>2, <1>3, <2>1, <2>5, PointPressed
    <3>3. Unexplained(st', truth) = Love
      <4>1. st' \in Match
        BY <2>1 DEF Sound
      <4>2. QED
        BY <1>2, <1>5, <3>1, <3>2, <4>1, PointMore
    <3>4. doing'.half \in Half
      BY <1>1, <1>3 DEF h
    <3>5. Outstanding'
      BY <1>1, <3>1, <3>3, <3>4 DEF Outstanding
    <3>6. QED
      BY <1>1, <1>2, <1>6, <2>1, <2>3, <3>1, <3>5 DEF GameInv, Places
  <2>6. QED
    BY <1>3, <2>4, <2>5
<1>8. QED
  BY <1>6, <1>7, OverKeeps

LEMMA PointKeeps ==
  ASSUME GameInv, Point
  PROVE  GameInv'
<1>1. /\ at = "top" /\ Phase(st) = "playing" /\ Walk /\ at' = "open"
      /\ found' = IF Ends(st) # standing THEN found \cup {"ends"} ELSE found
      /\ UNCHANGED <<m, undo, high, st, doing, counter, late, truth, parted, faults>>
  BY DEF Point, Top, matchVars, pressVars
<1>2. /\ found = {} /\ InStep /\ truth \in Truth /\ parted = Love /\ Walked
      /\ Unexplained(st, truth) = Love
  <2>1. at \in Places
    BY <1>1 DEF Places
  <2>2. QED
    BY <1>1, <2>1, GameGoesOn DEF Outstanding
<1>3. acted' = "playing" /\ standing' = Ends(st) /\ standing' = standing /\ standing' \in Place
  BY <1>1, <1>2, WalkKnows
<1>4. found' = {}
  BY <1>1, <1>2, <1>3
<1>5. InStep' /\ Walked'
  BY <1>1, <1>2, <1>3 DEF InStep, Walked
<1>6. Outstanding'
  BY <1>1, <1>2 DEF Outstanding
<1>7. QED
  BY <1>1, <1>2, <1>4, <1>5, <1>6 DEF GameInv, Places

(* A press that no rally is behind: the point goes to whoever stands there.*)
LEMMA ExtraKeeps ==
  ASSUME GameInv, Apart, at \in {"open", "bounce"}, NEW h \in Half, NEW fault, fault # "wrong_phase",
         NEW then, then \in {"ghost", "bounced"}, Report(h, TRUE, fault, then), doing'.half = h,
         UNCHANGED <<standing, acted, truth, parted, faults>>
  PROVE  GameInv'
<1>1. /\ found = {} /\ InStep /\ truth \in Truth /\ parted = Love /\ Walked /\ Sound(st) /\ st \in Match
      /\ Unexplained(st, truth) = Love /\ Phase(st) = "playing"
  <2>1. at \in Places
    BY DEF Places
  <2>2. QED
    BY <2>1, GameGoesOn DEF Outstanding
<1>2. found' = {}
  BY <1>1, FoundNothing
<1>3. standing = Ends(st) /\ acted # "change_ends" /\ standing \in Place /\ standing[h] = PlayerAt(st, h)
  BY <1>1 DEF Walked, Ends
<1>4. ASSUME at' \notin Over PROVE GameInv'
  <2>1. /\ at' = then /\ st' = After(st, h) /\ m' = st' /\ InStep'
        /\ Sound(st') /\ (Phase(st') # "change_ends" => Ends(st') = Ends(st))
    BY <1>1, <1>4, RallyReported
  <2>2. Walked'
    BY <1>3, <2>1 DEF Walked
  <2>3. \A q \in Player : Awarded(st', q) = Awarded(st, q) + PointFor(PlayerAt(st, h))[q]
    BY <1>1, <2>1, PointPressed
  <2>4. Unexplained(st', truth) = PointFor(PlayerAt(st, h))
    <3>1. st' \in Match /\ PlayerAt(st, h) \in Player
      BY <2>1, StandsAt DEF Sound
    <3>2. QED
      BY <1>1, <2>3, <3>1, PointMore
  <2>5. Outstanding'
    BY <1>3, <2>1, <2>4 DEF Outstanding
  <2>6. QED
    BY <1>1, <1>2, <2>1, <2>2, <2>5 DEF GameInv, Places
<1>5. QED
  BY <1>2, <1>4, OverKeeps

LEMMA GhostKeeps ==
  ASSUME GameInv, Apart, NEW h \in Half, Ghost(h)
  PROVE  GameInv'
<1>1. /\ at = "open" /\ doing' = [Idle EXCEPT !.half = h] /\ Report(h, TRUE, "ghost", "ghost")
      /\ UNCHANGED <<standing, acted, truth, parted, faults>>
  BY DEF Ghost, placeVars
<1>2. doing'.half = h
  BY <1>1 DEF Idle
<1>3. QED
  BY <1>1, <1>2, ExtraKeeps

LEMMA BounceKeeps ==
  ASSUME GameInv, Apart, Bounce
  PROVE  GameInv'
<1>1. at = "bounce" /\ UNCHANGED <<doing, standing, acted, truth, parted, faults>>
  BY DEF Bounce, placeVars
<1>2. /\ found = {} /\ InStep /\ truth \in Truth /\ parted = Love /\ Walked
      /\ Unexplained(st, truth) = Love /\ doing.half \in Half
  <2>1. at \in Places
    BY <1>1 DEF Places
  <2>2. QED
    BY <1>1, <2>1, GameGoesOn DEF Outstanding
<1>3. CASE at' = "top" /\ UNCHANGED <<matchVars, st, pressVars, found, injected, lost>>
  <2>1. UNCHANGED <<m, undo, high, st, counter, late, found>>
    BY <1>3 DEF matchVars, pressVars
  <2>2. InStep' /\ Walked' /\ Outstanding'
    BY <1>1, <1>2, <1>3, <2>1 DEF InStep, Walked, Outstanding
  <2>3. QED
    BY <1>1, <1>2, <1>3, <2>1, <2>2 DEF GameInv, Places
<1>4. CASE Report(doing.half, TRUE, "bounce", "bounced")
  <2>1. PICK h \in Half : h = doing.half
    BY <1>2
  <2>2. Report(h, TRUE, "bounce", "bounced")
    BY <1>4, <2>1
  <2>3. QED
    BY <1>1, <2>1, <2>2, ExtraKeeps
<1>5. QED
  BY <1>3, <1>4 DEF Bounce

LEMMA NotSentKeeps ==
  ASSUME GameInv, at \in {"open", "rally"}, NEW p \in Player, NEW held \in BOOLEAN,
         held => "latency" \in faults, NotSent(p, held), UNCHANGED <<standing, acted, faults>>
  PROVE  GameInv'
<1> DEFINE short == Won(p)
           t     == [short EXCEPT !.explained[p] = @ - 1]
<1>1. /\ counter' = counter + 1 /\ at' = "top"
      /\ late' = IF held THEN [id |-> counter', half |-> At(p)] ELSE late
      /\ Compare(t) /\ UNCHANGED <<m, undo, high, st, doing>>
  BY DEF NotSent, matchVars
<1>2. /\ found = {} /\ InStep /\ truth \in Truth /\ parted = Love /\ Walked /\ Sound(st) /\ st \in Match
      /\ Unexplained(st, truth) = Love /\ Phase(st) = "playing"
  <2>1. at \in Places
    BY DEF Places
  <2>2. QED
    BY <2>1, GameGoesOn DEF Outstanding
<1>3. short \in Truth /\ Unexplained(st, short) = PointShort(p)
  BY <1>2, WonIsShort DEF Won
<1> HIDE DEF short
<1>4. t \in Truth /\ Unexplained(st, t) = Love
  BY <1>2, <1>3, LostIsExplained
<1> HIDE DEF t
<1>5. truth' = t /\ parted' = Love /\ found' = {}
  <2>1. Unexplained(st, t) = [q \in Player |-> Awarded(st, q) - t.won[q] - t.explained[q]]
    BY DEF Unexplained
  <2>2. QED
    BY <1>1, <1>2, <1>4, <2>1 DEF Compare
<1>6. InStep'
  <2>1. high \in Nat /\ counter \in Nat /\ high <= counter /\ counter' \in Nat /\ high' <= counter'
    BY <1>1, <1>2 DEF InStep
  <2>2. CASE held
    <3>1. late'.id = counter'
      BY <1>1, <2>2
    <3>2. QED
      BY <1>1, <1>2, <2>1, <2>2, <3>1 DEF InStep
  <2>3. CASE ~held
    <3>1. late' = late
      BY <1>1, <2>3
    <3>2. late # NotLate => "latency" \in faults /\ late.id \in Nat /\ late.id <= counter + 1
      BY <1>2, <2>1 DEF InStep
    <3>3. QED
      BY <1>1, <1>2, <2>1, <3>1, <3>2 DEF InStep
  <2>4. QED
    BY <2>2, <2>3
<1>7. Walked'
  BY <1>1, <1>2 DEF Walked
<1>8. Outstanding'
  BY <1>1, <1>4, <1>5 DEF Outstanding
<1>9. QED
  BY <1>1, <1>4, <1>5, <1>6, <1>7, <1>8 DEF GameInv, Places

LEMMA RallyKeeps ==
  ASSUME GameInv, Apart, NEW p \in Player, Rally(p)
  PROVE  GameInv'
<1>1. /\ at \in {"open", "rally"} /\ UNCHANGED <<standing, acted, faults>>
      /\ \/ NotSent(p, FALSE)
         \/ "latency" \in faults /\ NotSent(p, TRUE)
         \/ truth' = Won(p) /\ Press(p, At(p), "point") /\ UNCHANGED parted
  BY RollsAre DEF Rally, placeVars
<1>2. CASE NotSent(p, FALSE)
  BY <1>1, <1>2, NotSentKeeps
<1>3. CASE "latency" \in faults /\ NotSent(p, TRUE)
  BY <1>1, <1>3, NotSentKeeps
<1>4. CASE truth' = Won(p) /\ Press(p, At(p), "point") /\ UNCHANGED parted
  <2>1. /\ found = {} /\ InStep /\ truth \in Truth /\ parted = Love /\ Walked /\ Sound(st) /\ st \in Match
        /\ Unexplained(st, truth) = Love /\ Phase(st) = "playing"
    <3>1. at \in Places
      BY <1>1 DEF Places
    <3>2. QED
      BY <1>1, <3>1, GameGoesOn DEF Outstanding
  <2>2. standing = Ends(st) /\ standing \in Place /\ acted # "change_ends"
    BY <1>1, <2>1 DEF Walked
  <2>3. PICK h \in Half : h = At(p) /\ PlayerAt(st, h) = p
    BY <2>2, StandsAtEnds
  <2>4. /\ found' = {}
        /\ \/ at' \in Over
           \/ /\ doing' = [player |-> p, half |-> h, before |-> st, next |-> "point"]
              /\ m' = st' /\ InStep' /\ Sound(st') /\ (Phase(st') # "change_ends" => Ends(st') = Ends(st))
              /\ \/ at' = "point" /\ st' = After(st, h)
                 \/ /\ at' = "wrong" /\ st' = After(st, OtherHalf(h))
                    /\ undo' # <<>> /\ undo'[Len(undo')] = st
    <3>1. Press(p, h, "point")
      BY <1>4, <2>3
    <3>2. QED
      BY <2>1, <3>1, PressMakes
  <2>5. truth' \in Truth /\ Unexplained(st, truth') = PointShort(p) /\ parted' = Love
    BY <1>4, <2>1, WonIsShort DEF Won
  <2>6. ASSUME at' \notin Over PROVE GameInv'
    <3>1. /\ doing' = [player |-> p, half |-> h, before |-> st, next |-> "point"]
          /\ InStep' /\ Sound(st') /\ (Phase(st') # "change_ends" => Ends(st') = Ends(st))
      BY <2>4, <2>6
    <3>2. Walked'
      BY <1>1, <2>2, <3>1 DEF Walked
    <3>3. CASE at' = "point" /\ st' = After(st, h)
      <4>1. \A q \in Player : Awarded(st', q) = Awarded(st, q) + PointFor(p)[q]
        BY <2>1, <2>3, <3>3, PointPressed
      <4>2. Unexplained(st', truth') = Love
        <5>1. st' \in Match
          BY <3>1 DEF Sound
        <5>2. QED
          BY <2>1, <2>5, <4>1, <5>1, PointMore
      <4>3. Outstanding'
        BY <3>1, <3>3, <4>2 DEF Outstanding
      <4>4. QED
        BY <2>4, <2>5, <3>1, <3>2, <3>3, <4>3 DEF GameInv, Places
    <3>4. CASE at' = "wrong" /\ st' = After(st, OtherHalf(h)) /\ undo' # <<>> /\ undo'[Len(undo')] = st
      <4>1. Played'
        BY <1>1, <2>1, <2>2, <2>3, <2>5, <3>1 DEF Played
      <4>2. Outstanding'
        BY <3>1, <3>4, <4>1 DEF Outstanding
      <4>3. QED
        BY <2>4, <2>5, <3>1, <3>2, <3>4, <4>2 DEF GameInv, Places
    <3>5. QED
      BY <2>4, <2>6, <3>3, <3>4
  <2>7. QED
    BY <2>4, <2>6, OverKeeps
<1>5. QED
  BY <1>1, <1>2, <1>3, <1>4

LEMMA ComparedKeeps ==
  ASSUME GameInv, Compared
  PROVE  GameInv'
<1> DEFINE q == standing[doing.half]
           t == IF at = "point" THEN truth ELSE [truth EXCEPT !.explained[q] = @ + 1]
<1>1. /\ at \in {"ghost", "point", "bounced"} /\ Compare(t)
      /\ at' = IF at = "bounced" \/ Phase(st) # "playing" THEN "top"
               ELSE IF at = "ghost" THEN "rally" ELSE "bounce"
      /\ UNCHANGED <<m, undo, high, st, doing, standing, acted, counter, late, faults>>
  BY DEF Compared, matchVars, placeVars, pressVars
<1>2. /\ found = {} /\ InStep /\ truth \in Truth /\ parted = Love /\ Walked /\ st \in Match
      /\ doing.half \in Half /\ q \in Player
      /\ Unexplained(st, truth) = IF at = "point" THEN Love ELSE PointFor(q)
  <2>1. at \in Places
    BY <1>1 DEF Places
  <2>2. /\ found = {} /\ InStep /\ truth \in Truth /\ parted = Love /\ Walked /\ st \in Match
        /\ doing.half \in Half
    BY <1>1, <2>1, GameGoesOn DEF Outstanding
  <2>3. Unexplained(st, truth) = IF at = "point" THEN Love ELSE PointFor(q)
    BY <1>1, <2>1, GameGoesOn DEF Outstanding
  <2>4. QED
    BY <2>2, <2>3 DEF Walked, Place
<1> HIDE DEF q
<1>3. t \in Truth /\ Unexplained(st, t) = Love
  <2>1. CASE at = "point"
    BY <1>2, <2>1
  <2>2. CASE at # "point"
    <3>1. t = [truth EXCEPT !.explained[q] = @ + 1] /\ Unexplained(st, truth) = PointFor(q)
      BY <1>2, <2>2
    <3> HIDE DEF t
    <3>2. QED
      BY <1>2, <3>1, ExtraIsExplained
  <2>3. QED
    BY <2>1, <2>2
<1> HIDE DEF t
<1>4. truth' = t /\ parted' = Love /\ found' = {}
  <2>1. Unexplained(st, t) = [r \in Player |-> Awarded(st, r) - t.won[r] - t.explained[r]]
    BY DEF Unexplained
  <2>2. QED
    BY <1>1, <1>2, <1>3, <2>1 DEF Compare
<1>5. InStep' /\ Walked' /\ at' \in {"top", "rally", "bounce"}
  BY <1>1, <1>2 DEF InStep, Walked
<1>6. Outstanding'
  BY <1>1, <1>2, <1>3, <1>4 DEF Outstanding
<1>7. QED
  BY <1>3, <1>4, <1>5, <1>6 DEF GameInv, Places

LEMMA GameStep ==
  ASSUME GameInv, Apart, [Next]_vars
  PROVE  GameInv' /\ Apart'
<1>1. faults' = faults
  BY DEF vars, Next, Done, Readied, Served, Uncorrected, TakeBack, SendRight, Point, Compared, Bounce,
     Ready, Ghost, ServeRally, Rally
<1>2. Apart'
  BY <1>1 DEF Apart
<1>3. CASE UNCHANGED vars
  <2>1. UNCHANGED <<m, undo, high, st, at, doing, standing, acted, counter, late, truth, parted, found, faults>>
    BY <1>3 DEF vars, matchVars, placeVars, pressVars
  <2>2. InStep' = InStep /\ Walked' = Walked /\ Outstanding' = Outstanding
    BY <2>1 DEF InStep, Walked, Outstanding, Played
  <2>3. QED
    BY <1>2, <2>1, <2>2 DEF GameInv
<1>4. CASE Done \/ Readied \/ Served \/ Uncorrected \/ TakeBack \/ SendRight \/ Point \/ Compared \/ Bounce
  BY <1>2, <1>4, DoneKeeps, ReadiedKeeps, ServedKeeps, UncorrectedKeeps, TakeBackKeeps, SendRightKeeps,
     PointKeeps, ComparedKeeps, BounceKeeps
<1>5. ASSUME NEW h \in Half, Ready(h) \/ Ghost(h) PROVE GameInv'
  BY <1>5, ReadyKeeps, GhostKeeps
<1>6. ASSUME NEW p \in Player, ServeRally(p) \/ Rally(p) PROVE GameInv'
  BY <1>6, ServeRallyKeeps, RallyKeeps
<1>7. QED
  BY <1>2, <1>3, <1>4, <1>5, <1>6 DEF Next

LEMMA GameBegins == Init => GameInv
<1> SUFFICES ASSUME Init PROVE GameInv
  OBVIOUS
<1>1. /\ m = NewMatch /\ undo = <<>> /\ high = 0 /\ st = NewMatch /\ at = "top"
      /\ standing = Ends(NewMatch) /\ counter = 0 /\ late = NotLate
      /\ truth = [won |-> Love, explained |-> Love, serve |-> None, explainedServe |-> None]
      /\ parted = Love /\ found = {}
  BY DEF Init
<1>2. Sound(NewMatch) /\ NewMatch \in Match
  BY NewMatchIsSound DEF Sound
<1>3. InStep
  BY <1>1, <1>2 DEF InStep
<1>4. Walked
  BY <1>1, EndsArePlaces DEF Walked
<1>5. truth \in Truth /\ truth.won = Love /\ truth.explained = Love
  <2>1. None \in Player \cup {None} /\ Love \in [Player -> Int]
    BY DEF Love
  <2>2. QED
    BY <1>1, <2>1 DEF Truth
<1>6. Unexplained(st, truth) = Love
  <2>1. ASSUME NEW q \in Player PROVE Awarded(st, q) = Love[q] + truth.won[q] + truth.explained[q]
    <3>1. st.completed = <<>> /\ st.complete = FALSE /\ st.points = Love
      BY <1>1 DEF NewMatch
    <3>2. Love[q] = 0
      BY LoveIsUndecided
    <3>3. Awarded(st, q) = 0
      BY <3>1, <3>2, AwardedIs, NoSets
    <3>4. QED
      BY <1>5, <3>2, <3>3
  <2>2. Love \in [Player -> Int]
    BY DEF Love
  <2>3. QED
    BY <1>1, <1>2, <1>5, <2>1, <2>2, UnexplainedIs
<1>7. Outstanding
  BY <1>1, <1>6 DEF Outstanding
<1>8. QED
  BY <1>1, <1>3, <1>4, <1>5, <1>7 DEF GameInv, Places

(* A game that is not the bots' compares nothing.                          *)
BotGame == IF driver = "bots" THEN Apart => GameInv ELSE found = {}

LEMMA BotGameInit == GamesInit => BotGame
<1>1. GamesInit => Init
  BY DEF GamesInit
<1>2. Init => found = {}
  BY DEF Init
<1>3. QED
  BY <1>1, <1>2, GameBegins DEF BotGame

LEMMA BotGameStep == BotGame /\ [GamesNext]_gamesVars => BotGame' /\ faults' = faults
<1> SUFFICES ASSUME BotGame, [GamesNext]_gamesVars PROVE BotGame' /\ faults' = faults
  OBVIOUS
<1>1. driver' = driver
  BY DEF GamesNext, gamesVars
<1>2. CASE driver = "bots"
  <2>1. [Next]_vars
    BY <1>2 DEF GamesNext, gamesVars, Plays
  <2>2. faults' = faults
    BY <2>1 DEF vars, Next, Done, Readied, Served, Uncorrected, TakeBack, SendRight, Point, Compared, Bounce,
       Ready, Ghost, ServeRally, Rally
  <2>3. Apart' = Apart
    BY <2>2 DEF Apart
  <2>4. QED
    BY <1>1, <1>2, <2>1, <2>2, <2>3, GameStep DEF BotGame
<1>3. CASE driver # "bots"
  <2>1. UNCHANGED <<found, faults>>
    BY <1>3 DEF GamesNext, gamesVars, Plays, OfTheGame, vars
  <2>2. QED
    BY <1>1, <1>3, <2>1 DEF BotGame
<1>4. QED
  BY <1>2, <1>3

(* The game cries no wolf, in every format and with every mixture of       *)
(* faults that does not both delay presses and reset the counter: what the *)
(* scorer answers is what the game expects, and every difference in        *)
(* points, serve and ends has its fault (game.go, report, press, points).  *)
THEOREM GamesNoFindings ==
  GamesSpec => [](~({"counter_reset", "latency"} \subseteq faults) => NoFindings)
<1>1. BotGame => (~({"counter_reset", "latency"} \subseteq faults) => NoFindings)
  BY DEF BotGame, Apart, GameInv, NoFindings
<1>2. QED
  BY <1>1, BotGameInit, BotGameStep, PTL DEF GamesSpec
=============================================================================
