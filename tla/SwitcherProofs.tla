--------------------------- MODULE SwitcherProofs ---------------------------
(***************************************************************************)
(* Theorems about who has the panel, for any number of matches, any length *)
(* of the queue and any number of wins and failed calls.                   *)
(***************************************************************************)
EXTENDS Switcher, FiniteSetTheorems, SequenceTheorems, TLAPS

-----------------------------------------------------------------------------
(* The inductive invariant.                                                *)

(* The worker gives back what the switcher holds, and sets the panel for a *)
(* match that was started.                                                 *)
WorkerFits ==
  /\ worker.pc = "rest" => worker = AtRest
  /\ worker.pc = "set" => worker.match \in Ids /\ worker.why = "start"
  /\ worker.pc \in {"read", "back"} => held /\ worker.match = matchID /\ worker.why # "start"
  /\ worker.pc = "gone" => ~held /\ stop
  /\ worker.pc \in {"read", "back"} /\ worker.why = "shutdown" => stop
  /\ worker.pc \in {"read", "back"} /\ worker.why = "idle" => astray

(* What a create handler has to submit: the start of its own match and the *)
(* ends of matches that are ended.                                         *)
ToldFits(t, e, m) ==
  \A j \in Ids :
    /\ j > m => t[j] = <<>>
    /\ \A k \in 1..Len(t[j]) :
         \/ t[j][k].kind = "start" /\ t[j][k].match = j
         \/ t[j][k].kind = "end" /\ e[t[j][k].match]

(* A job that ends a match is about one that is ended.                     *)
EndsAreEnded(q, e) == \A k \in 1..Len(q) : q[k].kind = "end" => e[q[k].match]

EndedInv ==
  /\ ToldFits(told, ended, made)
  /\ \A i \in ending : ended[i]
  /\ EndsAreEnded(work, ended)
  /\ worker.pc \in {"read", "back"} /\ worker.why = "end" => ended[worker.match]

(* A job of a win is about a match that is over, unless the job of an undo *)
(* comes behind it.                                                        *)
WonsAreOver(q, o) ==
  \A k \in 1..Len(q) : q[k].kind = "won" =>
    o[q[k].match] \/ \E l \in k + 1..Len(q) : q[l] = [kind |-> "undo", match |-> q[k].match]

WonInv ==
  ~dropped =>
    /\ WonsAreOver(work, over)
    /\ worker.pc \in {"read", "back"} /\ worker.why = "won" =>
         over[worker.match] \/ Pending("undo", worker.match)

(* With no call failed, what we put on the panel is what we know we put.   *)
HomeInv == failures = 0 /\ panel.by = "us" => (held <=> panel.streams = "match")

(* The start of n is queued, and no other start behind it.                 *)
StartQueued(q, n) ==
  \E k \in 1..Len(q) : /\ q[k] = [kind |-> "start", match |-> n]
                       /\ \A l \in k + 1..Len(q) : q[l].kind # "start"

(* The start of n has been taken, and none is queued: the panel is being   *)
(* set for n, or n has it, or n gave it back and gets it with an undo, or  *)
(* a person took it away.                                                  *)
Followed(q, n) ==
  /\ \A k \in 1..Len(q) : q[k].kind # "start"
  /\ IF worker.pc = "set" THEN worker.match = n /\ wonID = NoMatch
     ELSE IF held THEN matchID = n /\ wonID = NoMatch
     ELSE \/ wonID = NoMatch /\ panel.by = "person"
          \/ wonID = n /\ (over[n] \/ Pending("undo", n))

Undisturbed == ~stop /\ failures = 0 /\ ~dropped /\ ~astray /\ made >= 1 /\ ~ended[made]

FollowInv ==
  Undisturbed => ~Started(made) \/ StartQueued(work, made) \/ Followed(work, made)

SwitcherInv == TypeOK /\ WorkerFits /\ EndedInv /\ WonInv /\ HomeInv /\ FollowInv

-----------------------------------------------------------------------------
(* Queues.                                                                 *)

LEMMA JobsAppended ==
  ASSUME NEW q \in Seq(Job), NEW j \in Job
  PROVE  /\ Append(q, j) \in Seq(Job) /\ Len(Append(q, j)) = Len(q) + 1
         /\ \A k \in 1..Len(q) : Append(q, j)[k] = q[k]
         /\ Append(q, j)[Len(q) + 1] = j
OBVIOUS

LEMMA JobsTaken ==
  ASSUME NEW q \in Seq(Job), q # <<>>
  PROVE  /\ Head(q) \in Job /\ Tail(q) \in Seq(Job) /\ Len(Tail(q)) = Len(q) - 1
         /\ Len(q) \in Nat \ {0} /\ Head(q) = q[1]
         /\ \A k \in 1..Len(Tail(q)) : Tail(q)[k] = q[k + 1] /\ k + 1 \in 1..Len(q)
OBVIOUS

LEMMA EndsAppended ==
  ASSUME NEW q \in Seq(Job), NEW j \in Job, NEW e, EndsAreEnded(q, e),
         j.kind = "end" => e[j.match]
  PROVE  EndsAreEnded(Append(q, j), e)
<1> SUFFICES ASSUME NEW k \in 1..Len(Append(q, j)), Append(q, j)[k].kind = "end"
             PROVE  e[Append(q, j)[k].match]
  BY DEF EndsAreEnded
<1>1. k \in 1..Len(q) \/ k = Len(q) + 1
  BY JobsAppended
<1>2. QED
  BY <1>1, JobsAppended DEF EndsAreEnded

LEMMA EndsTaken ==
  ASSUME NEW q \in Seq(Job), q # <<>>, NEW e, EndsAreEnded(q, e)
  PROVE  EndsAreEnded(Tail(q), e) /\ (Head(q).kind = "end" => e[Head(q).match])
BY JobsTaken DEF EndsAreEnded

LEMMA UndosAppended ==
  ASSUME NEW q \in Seq(Job), NEW j \in Job, NEW x, x \in ToSet(q)
  PROVE  x \in ToSet(Append(q, j))
<1>1. PICK k \in 1..Len(q) : x = q[k]
  BY DEF ToSet
<1>2. k \in 1..Len(Append(q, j)) /\ Append(q, j)[k] = x
  BY <1>1, JobsAppended
<1>3. DOMAIN Append(q, j) = 1..Len(Append(q, j))
  BY JobsAppended
<1>4. QED
  BY <1>2, <1>3 DEF ToSet

LEMMA LastOfAppended ==
  ASSUME NEW q \in Seq(Job), NEW j \in Job
  PROVE  j \in ToSet(Append(q, j))
<1>1. Len(q) + 1 \in DOMAIN Append(q, j) /\ Append(q, j)[Len(q) + 1] = j
  BY JobsAppended
<1>2. QED
  BY <1>1 DEF ToSet

LEMMA UndosTaken ==
  ASSUME NEW q \in Seq(Job), q # <<>>, NEW x, x \in ToSet(q), x # Head(q)
  PROVE  x \in ToSet(Tail(q))
<1>1. PICK k \in 1..Len(q) : x = q[k]
  BY DEF ToSet
<1>2. k # 1
  BY <1>1, JobsTaken
<1>3. k - 1 \in 1..Len(Tail(q)) /\ Tail(q)[k - 1] = x
  BY <1>1, <1>2, JobsTaken
<1>4. DOMAIN Tail(q) = 1..Len(Tail(q))
  BY JobsTaken
<1>5. QED
  BY <1>3, <1>4 DEF ToSet

LEMMA WonsAppended ==
  ASSUME NEW q \in Seq(Job), NEW j \in Job, NEW o, WonsAreOver(q, o),
         j.kind = "won" => o[j.match]
  PROVE  WonsAreOver(Append(q, j), o)
<1> SUFFICES ASSUME NEW k \in 1..Len(Append(q, j)), Append(q, j)[k].kind = "won",
                    ~o[Append(q, j)[k].match]
             PROVE  \E l \in k + 1..Len(Append(q, j)) :
                      Append(q, j)[l] = [kind |-> "undo", match |-> Append(q, j)[k].match]
  BY DEF WonsAreOver
<1>1. k # Len(q) + 1
  BY JobsAppended
<1>2. k \in 1..Len(q)
  BY <1>1, JobsAppended
<1>3. PICK l \in k + 1..Len(q) : q[l] = [kind |-> "undo", match |-> q[k].match]
  BY <1>2, JobsAppended DEF WonsAreOver
<1>4. l \in 1..Len(q) /\ l \in k + 1..Len(Append(q, j))
  BY <1>2, JobsAppended
<1>5. QED
  BY <1>2, <1>3, <1>4, JobsAppended

LEMMA WonsUndone ==
  ASSUME NEW q \in Seq(Job), NEW i \in Ids, NEW o, NEW p, WonsAreOver(q, o),
         \A n : n # i => p[n] = o[n]
  PROVE  WonsAreOver(Append(q, [kind |-> "undo", match |-> i]), p)
<1> DEFINE j == [kind |-> "undo", match |-> i]
<1>1. j \in Job
  BY DEF Job
<1> SUFFICES ASSUME NEW k \in 1..Len(Append(q, j)), Append(q, j)[k].kind = "won",
                    ~p[Append(q, j)[k].match]
             PROVE  \E l \in k + 1..Len(Append(q, j)) :
                      Append(q, j)[l] = [kind |-> "undo", match |-> Append(q, j)[k].match]
  BY DEF WonsAreOver
<1>2. k # Len(q) + 1
  BY <1>1, JobsAppended
<1>3. k \in 1..Len(q) /\ Append(q, j)[k] = q[k]
  BY <1>1, <1>2, JobsAppended
<1>4. CASE q[k].match = i
  <2>1. Len(q) + 1 \in k + 1..Len(Append(q, j))
    BY <1>1, <1>3, JobsAppended
  <2>2. Append(q, j)[Len(q) + 1] = j
    BY <1>1, JobsAppended
  <2>3. QED
    BY <1>3, <1>4, <2>1, <2>2
<1>5. CASE q[k].match # i
  <2>1. ~o[q[k].match]
    BY <1>3, <1>5
  <2>2. PICK l \in k + 1..Len(q) : q[l] = [kind |-> "undo", match |-> q[k].match]
    BY <1>3, <2>1 DEF WonsAreOver
  <2>3. l \in 1..Len(q) /\ l \in k + 1..Len(Append(q, j))
    BY <1>1, <1>3, JobsAppended
  <2>4. QED
    BY <1>1, <1>3, <2>2, <2>3, JobsAppended
<1>6. QED
  BY <1>4, <1>5

LEMMA WonsTaken ==
  ASSUME NEW q \in Seq(Job), q # <<>>, NEW o, WonsAreOver(q, o)
  PROVE  /\ WonsAreOver(Tail(q), o)
         /\ Head(q).kind = "won" =>
              o[Head(q).match] \/ [kind |-> "undo", match |-> Head(q).match] \in ToSet(Tail(q))
<1>1. WonsAreOver(Tail(q), o)
  <2> SUFFICES ASSUME NEW k \in 1..Len(Tail(q)), Tail(q)[k].kind = "won", ~o[Tail(q)[k].match]
               PROVE  \E l \in k + 1..Len(Tail(q)) :
                        Tail(q)[l] = [kind |-> "undo", match |-> Tail(q)[k].match]
    BY DEF WonsAreOver
  <2>1. k + 1 \in 1..Len(q) /\ Tail(q)[k] = q[k + 1]
    BY JobsTaken
  <2>2. PICK l \in k + 2..Len(q) : q[l] = [kind |-> "undo", match |-> q[k + 1].match]
    BY <2>1 DEF WonsAreOver
  <2>3. l - 1 \in k + 1..Len(Tail(q)) /\ l - 1 \in 1..Len(Tail(q)) /\ (l - 1) + 1 = l
    BY JobsTaken
  <2>4. Tail(q)[l - 1] = q[l]
    BY <2>3, JobsTaken
  <2>5. QED
    BY <2>1, <2>2, <2>3, <2>4
<1>2. ASSUME Head(q).kind = "won", ~o[Head(q).match]
      PROVE  [kind |-> "undo", match |-> Head(q).match] \in ToSet(Tail(q))
  <2>1. PICK l \in 2..Len(q) : q[l] = [kind |-> "undo", match |-> q[1].match]
    BY <1>2, JobsTaken DEF WonsAreOver
  <2>2. l - 1 \in DOMAIN Tail(q) /\ Tail(q)[l - 1] = q[l]
    BY JobsTaken
  <2>3. QED
    BY <2>1, <2>2, JobsTaken DEF ToSet
<1>3. QED
  BY <1>1, <1>2

LEMMA StartAppended ==
  ASSUME NEW q \in Seq(Job), NEW j \in Job, NEW n, StartQueued(q, n), j.kind # "start"
  PROVE  StartQueued(Append(q, j), n)
<1>1. PICK k \in 1..Len(q) : /\ q[k] = [kind |-> "start", match |-> n]
                             /\ \A l \in k + 1..Len(q) : q[l].kind # "start"
  BY DEF StartQueued
<1>2. k \in 1..Len(Append(q, j)) /\ Append(q, j)[k] = [kind |-> "start", match |-> n]
  BY <1>1, JobsAppended
<1>3. ASSUME NEW l \in k + 1..Len(Append(q, j))
      PROVE  Append(q, j)[l].kind # "start"
  <2>1. l \in k + 1..Len(q) \/ l = Len(q) + 1
    BY <1>3, JobsAppended
  <2>2. l \in k + 1..Len(q) => l \in 1..Len(q)
    OBVIOUS
  <2>3. QED
    BY <1>1, <2>1, <2>2, JobsAppended
<1>4. QED
  BY <1>2, <1>3 DEF StartQueued

LEMMA StartLast ==
  ASSUME NEW q \in Seq(Job), NEW n \in Ids
  PROVE  StartQueued(Append(q, [kind |-> "start", match |-> n]), n)
<1> DEFINE j == [kind |-> "start", match |-> n]
<1>1. j \in Job
  BY DEF Job
<1>2. Len(q) + 1 \in 1..Len(Append(q, j)) /\ Append(q, j)[Len(q) + 1] = j
  BY <1>1, JobsAppended
<1>3. \A l \in (Len(q) + 1) + 1..Len(Append(q, j)) : FALSE
  BY <1>1, JobsAppended
<1>4. QED
  BY <1>2, <1>3 DEF StartQueued

(* Taking a job takes the start of n, and no start is left, or leaves it.  *)
LEMMA StartTaken ==
  ASSUME NEW q \in Seq(Job), NEW n, StartQueued(q, n)
  PROVE  /\ q # <<>>
         /\ \/ StartQueued(Tail(q), n)
            \/ /\ Head(q) = [kind |-> "start", match |-> n]
               /\ \A l \in 1..Len(Tail(q)) : Tail(q)[l].kind # "start"
<1>1. PICK k \in 1..Len(q) : /\ q[k] = [kind |-> "start", match |-> n]
                             /\ \A l \in k + 1..Len(q) : q[l].kind # "start"
  BY DEF StartQueued
<1>2. q # <<>>
  OBVIOUS
<1>3. CASE k = 1
  <2>1. \A l \in 1..Len(Tail(q)) : Tail(q)[l].kind # "start"
    BY <1>1, <1>2, <1>3, JobsTaken
  <2>2. QED
    BY <1>1, <1>2, <1>3, <2>1, JobsTaken
<1>4. CASE k # 1
  <2>1. k - 1 \in 1..Len(Tail(q)) /\ Tail(q)[k - 1] = q[k]
    BY <1>2, <1>4, JobsTaken
  <2>2. \A l \in (k - 1) + 1..Len(Tail(q)) : Tail(q)[l].kind # "start"
    BY <1>1, <1>2, <1>4, JobsTaken
  <2>3. QED
    BY <1>1, <1>2, <2>1, <2>2 DEF StartQueued
<1>5. QED
  BY <1>3, <1>4

(* The demos a new match lets go of, as the create handler tells of them.  *)
Taken(asDemo) == {i \in 1..made : ~asDemo /\ demo[i] /\ Running(i)}
Ends(s) == [j \in 1..Len(SetToSeq(s)) |-> [kind |-> "end", match |-> SetToSeq(s)[j]]]
Starts(n, s) == <<[kind |-> "start", match |-> n]>> \o Ends(s)

LEMMA SetAsSeq ==
  ASSUME NEW S, IsFiniteSet(S)
  PROVE  SetToSeq(S) \in [1..Cardinality(S) -> S] /\ Cardinality(S) \in Nat
<1>1. Cardinality(S) \in Nat /\ ExistsBijection(1..Cardinality(S), S)
  BY FS_CardinalityType
<1>2. PICK f : f \in Bijection(1..Cardinality(S), S)
  BY <1>1 DEF ExistsBijection
<1>3. f \in [1..Cardinality(S) -> S] /\ IsInjective(f)
  BY <1>2 DEF Bijection, Injection, IsInjective
<1>4. QED
  BY <1>1, <1>3 DEF SetToSeq

LEMMA StartsAreJobs ==
  ASSUME MaxMatches \in Nat, NEW m \in 0..MaxMatches, NEW n \in Ids, NEW s \in SUBSET (1..m)
  PROVE  /\ Starts(n, s) \in Seq(Job)
         /\ \A k \in 1..Len(Starts(n, s)) :
              \/ Starts(n, s)[k] = [kind |-> "start", match |-> n]
              \/ \E i \in s : Starts(n, s)[k] = [kind |-> "end", match |-> i]
         /\ 1 \in 1..Len(Starts(n, s)) /\ Starts(n, s)[1] = [kind |-> "start", match |-> n]
<1>1. IsFiniteSet(s)
  <2>1. IsFiniteSet(1..m)
    BY FS_Interval
  <2>2. QED
    BY <2>1, FS_Subset
<1>2. PICK c \in Nat : SetToSeq(s) \in [1..c -> s]
  BY <1>1, SetAsSeq
<1>3. Len(SetToSeq(s)) = c /\ SetToSeq(s) \in Seq(s)
  BY <1>2
<1>4. \A k \in 1..c : SetToSeq(s)[k] \in s /\ s \subseteq Ids
  BY <1>2 DEF Ids
<1>5. Ends(s) \in Seq(Job) /\ Len(Ends(s)) = c
  <2>1. Ends(s) \in [1..c -> Job]
    BY <1>3, <1>4 DEF Ends, Job
  <2>2. QED
    BY <2>1
<1>6. \A k \in 1..c : Ends(s)[k] = [kind |-> "end", match |-> SetToSeq(s)[k]]
  BY <1>3 DEF Ends
<1> DEFINE a == [kind |-> "start", match |-> n]
<1>7. a \in Job
  BY DEF Job
<1> HIDE DEF a
<1>8. <<a>> \in Seq(Job) /\ Len(<<a>>) = 1 /\ <<a>>[1] = a
  BY <1>7
<1>9. /\ <<a>> \o Ends(s) \in Seq(Job) /\ Len(<<a>> \o Ends(s)) = 1 + c
      /\ (<<a>> \o Ends(s))[1] = a
      /\ \A k \in 2..(1 + c) : (<<a>> \o Ends(s))[k] = Ends(s)[k - 1]
  BY <1>5, <1>8
<1>10. Starts(n, s) = <<a>> \o Ends(s)
  BY DEF Starts, a
<1>11. ASSUME NEW k \in 1..Len(Starts(n, s)), k # 1
       PROVE  \E i \in s : Starts(n, s)[k] = [kind |-> "end", match |-> i]
  <2>1. k \in 2..(1 + c) /\ k - 1 \in 1..c
    BY <1>9, <1>10, <1>11
  <2>2. QED
    BY <2>1, <1>4, <1>6, <1>9, <1>10
<1>12. QED
  BY <1>9, <1>10, <1>11 DEF a

LEMMA CreateTells ==
  ASSUME NEW asDemo \in BOOLEAN, Create(asDemo)
  PROVE  /\ made < MaxMatches /\ ~stop /\ made' = made + 1
         /\ ended' = [i \in Ids |-> ended[i] \/ i \in Taken(asDemo)]
         /\ told' = [told EXCEPT ![made + 1] = Starts(made + 1, Taken(asDemo))]
         /\ demo' = [demo EXCEPT ![made + 1] = asDemo]
         /\ UNCHANGED <<over, wins, ending, work, worker, heldVars, quiet, stop, panel,
                        dropped, pastVars>>
BY DEF Create, Taken, Starts, Ends

-----------------------------------------------------------------------------
(* Type correctness.                                                       *)

LEMMA InitType == Init => TypeOK
<1> SUFFICES ASSUME Init PROVE TypeOK
  OBVIOUS
<1>1. <<>> \in Seq(Job) /\ Len(<<>>) = 0
  OBVIOUS
<1>2. AtRest \in [pc : {"rest", "set", "read", "back", "gone"}, match : Ids \cup {NoMatch},
                  why : {"start", "end", "won", "idle", "shutdown"}]
  BY DEF AtRest
<1>3. panel \in [streams : {"idle", "match"}, by : {"us"}]
  BY DEF Init
<1>4. /\ worker = AtRest /\ panel \in [streams : {"idle", "match"}, by : {"us"}]
      /\ work = <<>> /\ held = FALSE /\ matchID = NoMatch /\ wonID = NoMatch /\ failures = 0
      /\ told = [i \in Ids |-> <<>>]
  BY <1>3 DEF Init
<1>5. told \in [Ids -> Seq(Job)]
  BY <1>1, <1>4
<1>6. /\ made \in 0..MaxMatches /\ wins \in 0..MaxWins /\ failures \in 0..MaxFailures
  BY SwitcherAssumption DEF Init
<1>7. /\ demo \in [Ids -> BOOLEAN] /\ over \in [Ids -> BOOLEAN] /\ ended \in [Ids -> BOOLEAN]
      /\ ending \subseteq Ids /\ quiet \in BOOLEAN /\ stop \in BOOLEAN
      /\ dropped \in BOOLEAN /\ astray \in BOOLEAN
  BY DEF Init
<1>8. work \in Seq(Job) /\ Len(work) <= QueueSize
  BY <1>1, <1>4, SwitcherAssumption
<1>9. QED
  BY <1>2, <1>4, <1>5, <1>6, <1>7, <1>8 DEF TypeOK

LEMMA SubmitType ==
  ASSUME TypeOK, NEW kind \in {"start", "end", "won", "undo"}, NEW i \in Ids, Submit(kind, i)
  PROVE  work' \in Seq(Job) /\ Len(work') <= QueueSize /\ dropped' \in BOOLEAN
<1> DEFINE j == [kind |-> kind, match |-> i]
<1>1. j \in Job
  BY DEF Job
<1>2. CASE Len(work) < QueueSize
  <2>1. work' = Append(work, j) /\ UNCHANGED dropped
    BY <1>2 DEF Submit
  <2>2. QED
    BY <1>1, <1>2, <2>1, JobsAppended, SwitcherAssumption DEF TypeOK
<1>3. CASE ~(Len(work) < QueueSize)
  BY <1>3 DEF Submit, TypeOK
<1>4. QED
  BY <1>2, <1>3

Worker == [pc : {"rest", "set", "read", "back", "gone"}, match : Ids \cup {NoMatch},
           why : {"start", "end", "won", "idle", "shutdown"}]

LEMMA RestType == ASSUME Rest PROVE worker' \in Worker
BY DEF Rest, AtRest, Worker

(* The three ways to take a job.                                           *)
LEMMA TakeStart ==
  ASSUME Take, Head(work).kind = "start"
  PROVE  worker' = [pc |-> "set", match |-> Head(work).match, why |-> "start"] /\ wonID' = NoMatch
BY DEF Take

LEMMA TakeEnd ==
  ASSUME Take, Head(work).kind \in {"end", "won"}
  PROVE  /\ wonID' = wonID
         /\ \/ /\ held /\ matchID = Head(work).match
               /\ worker' = [pc |-> "read", match |-> matchID, why |-> Head(work).kind]
            \/ ~(held /\ matchID = Head(work).match) /\ worker' = worker
BY DEF Take, Holder

LEMMA TakeUndo ==
  ASSUME Take, Head(work).kind = "undo"
  PROVE  \/ /\ wonID = Head(work).match /\ ~held
            /\ worker' = [pc |-> "set", match |-> Head(work).match, why |-> "start"]
            /\ wonID' = NoMatch
         \/ ~(wonID = Head(work).match /\ ~held) /\ worker' = worker /\ wonID' = wonID
BY DEF Take, Ours

LEMMA FailType ==
  ASSUME TypeOK, Fail \/ UNCHANGED failures
  PROVE  failures' \in 0..MaxFailures
BY SwitcherAssumption DEF TypeOK, Fail

LEMMA NextType ==
  ASSUME TypeOK, WorkerFits, [Next]_vars
  PROVE  TypeOK'
<1> USE SwitcherAssumption
<1>0. CASE UNCHANGED vars
  BY <1>0 DEF TypeOK, vars, matchVars, submitVars, heldVars, pastVars
<1>1. ASSUME NEW asDemo \in BOOLEAN, Create(asDemo)
      PROVE  TypeOK'
  <2>1. Taken(asDemo) \in SUBSET (1..made) /\ made + 1 \in Ids /\ made \in 0..MaxMatches
    <3>1. made \in 0..MaxMatches /\ made < MaxMatches
      BY <1>1, CreateTells DEF TypeOK
    <3>2. Taken(asDemo) \in SUBSET (1..made)
      BY DEF Taken
    <3>3. QED
      BY <3>1, <3>2 DEF Ids
  <2>2. Starts(made + 1, Taken(asDemo)) \in Seq(Job)
    BY <2>1, StartsAreJobs
  <2>3. told' \in [Ids -> Seq(Job)]
    BY <1>1, <2>2, CreateTells DEF TypeOK
  <2>4. demo' \in [Ids -> BOOLEAN] /\ ended' \in [Ids -> BOOLEAN] /\ made' \in 0..MaxMatches
    <3>1. demo' \in [Ids -> BOOLEAN]
      <4>1. demo' = [demo EXCEPT ![made + 1] = asDemo] /\ demo \in [Ids -> BOOLEAN]
        BY <1>1, CreateTells DEF TypeOK
      <4>2. QED
        BY <4>1
    <3>2. ended' \in [Ids -> BOOLEAN]
      <4>1. ended' = [i \in Ids |-> ended[i] \/ i \in Taken(asDemo)]
        BY <1>1, CreateTells
      <4>2. \A i \in Ids : (ended[i] \/ i \in Taken(asDemo)) \in BOOLEAN
        OBVIOUS
      <4>3. QED
        BY <4>1, <4>2, Zenon
    <3>3. made' \in 0..MaxMatches
      BY <1>1, <2>1, CreateTells DEF Ids
    <3>4. QED
      BY <3>1, <3>2, <3>3
  <2>5. QED
    BY <1>1, <2>3, <2>4, CreateTells DEF TypeOK, heldVars, pastVars
<1>2. ASSUME NEW i \in Ids, Tell(i)
      PROVE  TypeOK'
  <2>1. told[i] \in Seq(Job) /\ told[i] # <<>>
    BY <1>2 DEF Tell, TypeOK
  <2>2. Head(told[i]) \in Job /\ Tail(told[i]) \in Seq(Job)
    BY <2>1, JobsTaken
  <2>3. work' \in Seq(Job) /\ Len(work') <= QueueSize /\ dropped' \in BOOLEAN
    BY <1>2, <2>2, SubmitType DEF Tell, Job
  <2>4. told' \in [Ids -> Seq(Job)]
    BY <1>2, <2>2 DEF Tell, TypeOK
  <2>5. astray' \in BOOLEAN
    BY <1>2 DEF Tell, TypeOK
  <2>6. QED
    BY <1>2, <2>3, <2>4, <2>5 DEF Tell, TypeOK, matchVars, heldVars
<1>3. ASSUME NEW i \in Ids, End(i)
      PROVE  TypeOK'
  BY <1>3 DEF End, TypeOK, heldVars, pastVars
<1>4. ASSUME NEW i \in Ids, LetGo(i)
      PROVE  TypeOK'
  <2>1. work' \in Seq(Job) /\ Len(work') <= QueueSize /\ dropped' \in BOOLEAN
    BY <1>4, SubmitType DEF LetGo
  <2>2. QED
    BY <1>4, <2>1 DEF LetGo, TypeOK, matchVars, heldVars, pastVars
<1>5. ASSUME NEW i \in Ids, Point(i)
      PROVE  TypeOK'
  BY <1>5 DEF Point, Seen, TypeOK, matchVars, submitVars, heldVars, pastVars
<1>6. ASSUME NEW i \in Ids, Win(i)
      PROVE  TypeOK'
  <2>1. work' \in Seq(Job) /\ Len(work') <= QueueSize /\ dropped' \in BOOLEAN
    BY <1>6, SubmitType DEF Win
  <2>2. wins' \in 0..MaxWins /\ over' \in [Ids -> BOOLEAN] /\ quiet' \in BOOLEAN
    BY <1>6 DEF Win, Seen, TypeOK
  <2>3. QED
    BY <1>6, <2>1, <2>2 DEF Win, TypeOK, submitVars, heldVars, pastVars
<1>7. ASSUME NEW i \in Ids, Undo(i)
      PROVE  TypeOK'
  <2>1. work' \in Seq(Job) /\ Len(work') <= QueueSize /\ dropped' \in BOOLEAN
    BY <1>7, SubmitType DEF Undo
  <2>2. over' \in [Ids -> BOOLEAN] /\ quiet' \in BOOLEAN
    BY <1>7 DEF Undo, Seen, TypeOK
  <2>3. QED
    BY <1>7, <2>1, <2>2 DEF Undo, TypeOK, submitVars, heldVars, pastVars
<1>8. CASE Take
  <2>1. Head(work) \in Job /\ Tail(work) \in Seq(Job) /\ Len(Tail(work)) = Len(work) - 1
    BY <1>8, JobsTaken DEF Take, TypeOK
  <2>2. work' \in Seq(Job) /\ Len(work') <= QueueSize
    BY <1>8, <2>1 DEF Take, TypeOK
  <2>3. Head(work).kind \in {"start", "end", "won", "undo"} /\ Head(work).match \in Ids
    BY <2>1 DEF Job
  <2>4. worker' \in Worker /\ wonID' \in Ids \cup {NoMatch}
    <3>0. worker \in Worker /\ matchID \in Ids \cup {NoMatch} /\ wonID \in Ids \cup {NoMatch}
      BY DEF TypeOK, Worker
    <3>1. CASE Head(work).kind = "start"
      BY <1>8, <2>3, <3>1, TakeStart DEF Worker
    <3>2. CASE Head(work).kind \in {"end", "won"}
      BY <1>8, <3>0, <3>2, TakeEnd DEF Worker
    <3>3. CASE Head(work).kind = "undo"
      BY <1>8, <2>3, <3>0, <3>3, TakeUndo DEF Worker
    <3>4. QED
      BY <2>3, <3>1, <3>2, <3>3
  <2>5. QED
    BY <1>8, <2>2, <2>4 DEF Take, TypeOK, Worker, matchVars, submitVars, pastVars
<1>9. CASE CheckIdle
  BY <1>9 DEF CheckIdle, Idle, TypeOK, matchVars, submitVars, heldVars
<1>10. CASE Set
  <2>1. worker' \in Worker
    BY <1>10, RestType DEF Set
  <2>2. panel' \in [streams : {"idle", "match"}, by : {"us"}]
                     \cup [streams : {"other", "match"}, by : {"person"}]
    BY <1>10 DEF Set, TypeOK
  <2>3. /\ held' \in BOOLEAN /\ matchID' \in Ids \cup {NoMatch} /\ (held' <=> matchID' # NoMatch)
        /\ quiet' \in BOOLEAN /\ failures' \in 0..MaxFailures
    <3>1. failures' \in 0..MaxFailures
      BY <1>10, FailType DEF Set
    <3>2. worker.match \in Ids /\ worker.match # NoMatch
      BY <1>10 DEF Set, WorkerFits, Ids, NoMatch
    <3>3. CASE /\ held' = TRUE /\ matchID' = worker.match /\ quiet' = FALSE
      BY <3>1, <3>2, <3>3
    <3>4. CASE UNCHANGED <<held, matchID, quiet>>
      BY <3>1, <3>4 DEF TypeOK
    <3>5. QED
      BY <1>10, <3>3, <3>4 DEF Set
  <2>4. QED
    BY <1>10, <2>1, <2>2, <2>3 DEF Set, Kept, TypeOK, Worker, matchVars, submitVars
<1>11. CASE Read
  <2>1. worker' \in Worker
    BY <1>11, RestType DEF Read, TypeOK, Worker
  <2>2. /\ held' \in BOOLEAN /\ matchID' \in Ids \cup {NoMatch} /\ (held' <=> matchID' # NoMatch)
        /\ failures' \in 0..MaxFailures
    <3>1. failures' \in 0..MaxFailures
      BY <1>11, FailType DEF Read
    <3>2. CASE UNCHANGED <<held, matchID>>
      BY <3>1, <3>2 DEF TypeOK
    <3>3. CASE Forget
      BY <3>1, <3>3 DEF Forget
    <3>4. QED
      BY <1>11, <3>2, <3>3 DEF Read
  <2>3. QED
    BY <1>11, <2>1, <2>2 DEF Read, Kept, TypeOK, Worker, matchVars, submitVars
<1>12. CASE Back
  <2>1. worker' \in Worker
    BY <1>12, RestType DEF Back
  <2>2. panel' \in [streams : {"idle", "match"}, by : {"us"}]
                     \cup [streams : {"other", "match"}, by : {"person"}]
    BY <1>12 DEF Back, TypeOK
  <2>3. /\ held' \in BOOLEAN /\ matchID' \in Ids \cup {NoMatch} /\ (held' <=> matchID' # NoMatch)
        /\ failures' \in 0..MaxFailures /\ wonID' \in Ids \cup {NoMatch}
    <3>1. failures' \in 0..MaxFailures
      BY <1>12, FailType DEF Back
    <3>2. QED
      BY <1>12, <3>1 DEF Back, Forget, TypeOK
  <2>4. QED
    BY <1>12, <2>1, <2>2, <2>3 DEF Back, Kept, TypeOK, Worker, matchVars, submitVars
<1>13. CASE Close
  <2>1. <<>> \in Seq(Job)
    OBVIOUS
  <2>2. QED
    BY <1>13, <2>1 DEF Close, TypeOK, matchVars, heldVars, pastVars
<1>14. CASE Stop
  <2>1. worker' \in Worker
    BY <1>14 DEF Stop, Leave, AtRest, TypeOK, Worker
  <2>2. QED
    BY <1>14, <2>1 DEF Stop, TypeOK, Worker, matchVars, submitVars, heldVars, pastVars
<1>15. CASE TimePasses
  BY <1>15 DEF TimePasses, TypeOK, matchVars, submitVars, heldVars, pastVars
<1>16. CASE Person
  BY <1>16 DEF Person, TypeOK, matchVars, submitVars, heldVars, pastVars
<1>17. QED
  BY <1>0, <1>1, <1>2, <1>3, <1>4, <1>5, <1>6, <1>7, <1>8, <1>9, <1>10, <1>11, <1>12,
     <1>13, <1>14, <1>15, <1>16 DEF Next

-----------------------------------------------------------------------------
(* What the worker is at.                                                  *)

LEMMA RestsOrIsGone ==
  ASSUME Rest
  PROVE  \/ worker.why = "shutdown" /\ worker' = [AtRest EXCEPT !.pc = "gone"]
         \/ worker.why # "shutdown" /\ worker' = AtRest
BY DEF Rest

LEMMA GoneIsGone == [AtRest EXCEPT !.pc = "gone"].pc = "gone" /\ AtRest.pc = "rest"
BY DEF AtRest

LEMMA NextWorker ==
  ASSUME TypeOK, WorkerFits, [Next]_vars
  PROVE  WorkerFits'
<1>1. CASE /\ UNCHANGED <<worker, heldVars>>
           /\ stop => stop'
           /\ astray => astray'
  BY <1>1 DEF WorkerFits, heldVars, AtRest, Ids
<1>2. CASE Take
  <2>1. Head(work) \in Job
    BY <1>2, JobsTaken DEF Take, TypeOK
  <2>2. Head(work).kind \in {"start", "end", "won", "undo"} /\ Head(work).match \in Ids
    BY <2>1 DEF Job
  <2>3. UNCHANGED <<held, matchID, stop, astray>>
    BY <1>2 DEF Take, pastVars
  <2>4. CASE worker' = worker
    BY <2>3, <2>4 DEF WorkerFits, AtRest, Ids
  <2>5. CASE worker' = [pc |-> "set", match |-> Head(work).match, why |-> "start"]
    BY <2>2, <2>5 DEF WorkerFits, Ids
  <2>6. CASE /\ held /\ worker' = [pc |-> "read", match |-> matchID, why |-> Head(work).kind]
             /\ Head(work).kind \in {"end", "won"}
    BY <2>3, <2>6 DEF WorkerFits
  <2>7. QED
    BY <1>2, <2>2, <2>4, <2>5, <2>6, TakeStart, TakeEnd, TakeUndo
<1>3. CASE CheckIdle
  BY <1>3 DEF CheckIdle, Idle, WorkerFits, heldVars
<1>4. CASE Set
  <2>1. worker.why # "shutdown"
    BY <1>4 DEF Set, WorkerFits
  <2>2. worker' = AtRest
    BY <1>4, <2>1, RestsOrIsGone DEF Set
  <2>3. QED
    BY <2>2 DEF WorkerFits, AtRest
<1>5. ASSUME Rest, Forget, worker.pc \in {"read", "back"}, UNCHANGED stop
      PROVE  WorkerFits'
  <2>1. CASE worker' = AtRest
    BY <2>1 DEF WorkerFits, AtRest
  <2>2. CASE worker.why = "shutdown" /\ worker' = [AtRest EXCEPT !.pc = "gone"]
    BY <1>5, <2>2, GoneIsGone DEF WorkerFits, Forget, AtRest
  <2>3. QED
    BY <1>5, <2>1, <2>2, RestsOrIsGone
<1>6. CASE Read
  <2>1. CASE worker' = [worker EXCEPT !.pc = "back"] /\ UNCHANGED <<held, matchID>>
    <3>1. /\ worker'.pc = "back" /\ worker'.match = worker.match /\ worker'.why = worker.why
          /\ UNCHANGED <<stop, astray>>
      BY <1>6, <2>1 DEF Read, Kept, TypeOK
    <3>2. QED
      BY <1>6, <2>1, <3>1 DEF WorkerFits, Read
  <2>2. CASE Rest /\ Forget
    BY <1>5, <1>6, <2>2 DEF Read, Kept
  <2>3. QED
    BY <1>6, <2>1, <2>2 DEF Read
<1>7. CASE Back
  BY <1>5, <1>7 DEF Back, Kept
<1>8. CASE Stop
  <2>1. UNCHANGED <<held, matchID, stop, astray>> /\ stop
    BY <1>8 DEF Stop, heldVars, pastVars
  <2>2. CASE held
    <3>1. worker' = [pc |-> "read", match |-> matchID, why |-> "shutdown"]
      BY <1>8, <2>2 DEF Stop, Leave
    <3>2. QED
      BY <2>1, <2>2, <3>1 DEF WorkerFits
  <2>3. CASE ~held
    <3>1. worker' = [AtRest EXCEPT !.pc = "gone"]
      BY <1>8, <2>3 DEF Stop, Leave
    <3>2. QED
      BY <2>1, <2>3, <3>1, GoneIsGone DEF WorkerFits
  <2>4. QED
    BY <2>2, <2>3
<1>9. CASE Close
  BY <1>1, <1>9 DEF Close, heldVars, pastVars
<1>10. ASSUME NEW asDemo \in BOOLEAN, Create(asDemo)
       PROVE  WorkerFits'
  BY <1>1, <1>10, CreateTells DEF heldVars, pastVars
<1>11. ASSUME NEW i \in Ids, Tell(i)
       PROVE  WorkerFits'
  BY <1>1, <1>11 DEF Tell
<1>12. ASSUME NEW i \in Ids, End(i) \/ LetGo(i) \/ Point(i) \/ Win(i) \/ Undo(i)
       PROVE  WorkerFits'
  BY <1>1, <1>12 DEF End, LetGo, Point, Win, Undo, pastVars
<1>13. CASE TimePasses \/ Person
  BY <1>1, <1>13 DEF TimePasses, Person, pastVars
<1>14. CASE UNCHANGED vars
  BY <1>1, <1>14 DEF vars, pastVars
<1>15. QED
  BY <1>2, <1>3, <1>4, <1>6, <1>7, <1>8, <1>9, <1>10, <1>11, <1>12, <1>13, <1>14 DEF Next

-----------------------------------------------------------------------------
(* Jobs that end a match.                                                  *)

LEMMA EndsGrow ==
  ASSUME NEW q \in Seq(Job), NEW e, NEW f, EndsAreEnded(q, e), \A i \in Ids : e[i] => f[i]
  PROVE  EndsAreEnded(q, f)
<1>1. ASSUME NEW k \in 1..Len(q)
      PROVE  q[k].match \in Ids
  <2>1. q[k] \in Job
    OBVIOUS
  <2>2. QED
    BY <2>1 DEF Job
<1>2. QED
  BY <1>1 DEF EndsAreEnded

LEMMA SubmitsEnd ==
  ASSUME TypeOK, NEW kind \in {"start", "end", "won", "undo"}, NEW i \in Ids, Submit(kind, i),
         EndsAreEnded(work, ended), kind = "end" => ended[i]
  PROVE  EndsAreEnded(work', ended)
<1> DEFINE j == [kind |-> kind, match |-> i]
<1>1. j \in Job /\ work \in Seq(Job)
  BY DEF Job, TypeOK
<1>2. CASE work' = Append(work, j)
  BY <1>1, <1>2, EndsAppended
<1>3. CASE work' = work
  BY <1>3
<1>4. QED
  BY <1>2, <1>3 DEF Submit

LEMMA ToldTaken ==
  ASSUME NEW t \in [Ids -> Seq(Job)], NEW e, NEW m, ToldFits(t, e, m),
         NEW i \in Ids, t[i] # <<>>
  PROVE  /\ ToldFits([t EXCEPT ![i] = Tail(@)], e, m)
         /\ ~(i > m)
         /\ \/ Head(t[i]).kind = "start" /\ Head(t[i]).match = i
            \/ Head(t[i]).kind = "end" /\ e[Head(t[i]).match]
<1> DEFINE u == [t EXCEPT ![i] = Tail(@)]
<1>1. t[i] \in Seq(Job)
  OBVIOUS
<1>2. u[i] = Tail(t[i]) /\ \A j \in Ids : j # i => u[j] = t[j]
  OBVIOUS
<1> HIDE DEF u
<1>3. ASSUME NEW k \in 1..Len(u[i])
      PROVE  \/ u[i][k].kind = "start" /\ u[i][k].match = i
             \/ u[i][k].kind = "end" /\ e[u[i][k].match]
  <2>1. u[i][k] = t[i][k + 1] /\ k + 1 \in 1..Len(t[i])
    BY <1>1, <1>2, JobsTaken
  <2>2. QED
    BY <2>1 DEF ToldFits
<1>4. ToldFits(u, e, m)
  <2>1. ~(i > m)
    BY DEF ToldFits
  <2>2. ASSUME NEW j \in Ids, j # i
        PROVE  /\ j > m => u[j] = <<>>
               /\ \A k \in 1..Len(u[j]) :
                    \/ u[j][k].kind = "start" /\ u[j][k].match = j
                    \/ u[j][k].kind = "end" /\ e[u[j][k].match]
    BY <1>2, <2>2 DEF ToldFits
  <2>3. QED
    BY <1>3, <2>1, <2>2 DEF ToldFits
<1>5. 1 \in 1..Len(t[i]) /\ Head(t[i]) = t[i][1]
  BY <1>1, JobsTaken
<1>6. QED
  BY <1>4, <1>5 DEF ToldFits, u

LEMMA ToldGrows ==
  ASSUME NEW t \in [Ids -> Seq(Job)], NEW e, NEW f, NEW m, ToldFits(t, e, m),
         \A i \in Ids : e[i] => f[i]
  PROVE  ToldFits(t, f, m)
<1>1. \A j \in Ids : \A k \in 1..Len(t[j]) : t[j][k].match \in Ids
  <2> SUFFICES ASSUME NEW j \in Ids, NEW k \in 1..Len(t[j]) PROVE t[j][k].match \in Ids
    OBVIOUS
  <2>1. t[j] \in Seq(Job)
    OBVIOUS
  <2>2. t[j][k] \in Job
    BY <2>1
  <2>3. QED
    BY <2>2 DEF Job
<1>2. QED
  BY <1>1 DEF ToldFits

LEMMA CreateEnds ==
  ASSUME TypeOK, NEW asDemo \in BOOLEAN, Create(asDemo)
  PROVE  /\ \A i \in Ids : ended[i] => ended'[i]
         /\ \A i \in Taken(asDemo) : ended'[i]
         /\ made + 1 \in Ids /\ Taken(asDemo) \in SUBSET (1..made)
<1>1. made \in 0..MaxMatches /\ made < MaxMatches
  BY CreateTells DEF TypeOK
<1>2. Taken(asDemo) \in SUBSET (1..made) /\ Taken(asDemo) \subseteq Ids
  BY <1>1, SwitcherAssumption DEF Taken, Ids
<1>3. \A i \in Ids : ended'[i] <=> (ended[i] \/ i \in Taken(asDemo))
  BY CreateTells
<1>4. made + 1 \in Ids
  BY <1>1, SwitcherAssumption DEF Ids
<1>5. QED
  BY <1>2, <1>3, <1>4

(* The worker's or a handler's step leaves the ends alone.                 *)
LEMMA NextEnded ==
  ASSUME TypeOK, WorkerFits, EndedInv, [Next]_vars
  PROVE  EndedInv'
<1>0. /\ told \in [Ids -> Seq(Job)] /\ work \in Seq(Job) /\ ending \subseteq Ids
      /\ ended \in [Ids -> BOOLEAN] /\ worker.match \in Ids \cup {NoMatch} /\ made \in 0..MaxMatches
  BY DEF TypeOK
<1>1. ASSUME UNCHANGED <<told, ending, ended, made>>, EndsAreEnded(work', ended),
             worker'.pc \in {"read", "back"} /\ worker'.why = "end" => ended[worker'.match]
      PROVE  EndedInv'
  BY <1>1 DEF EndedInv
<1>2. ASSUME NEW asDemo \in BOOLEAN, Create(asDemo)
      PROVE  EndedInv'
  <2>1. \A i \in Ids : ended[i] => ended'[i]
    BY <1>2, CreateEnds
  <2>2. EndsAreEnded(work', ended')
    BY <1>0, <1>2, <2>1, EndsGrow, CreateTells DEF EndedInv
  <2>3. \A i \in ending' : ended'[i]
    BY <1>0, <1>2, <2>1, CreateTells DEF EndedInv
  <2>4. worker'.pc \in {"read", "back"} /\ worker'.why = "end" => ended'[worker'.match]
    <3>1. worker.pc \in {"read", "back"} => worker.match \in Ids
      BY <1>0 DEF WorkerFits, TypeOK
    <3>2. QED
      BY <1>2, <2>1, <3>1, CreateTells DEF EndedInv
  <2>5. ToldFits(told', ended', made')
    <3> DEFINE s == Starts(made + 1, Taken(asDemo))
    <3>1. made + 1 \in Ids /\ Taken(asDemo) \in SUBSET (1..made)
      BY <1>2, CreateEnds
    <3>2. ToldFits(told, ended', made)
      BY <1>0, <2>1, ToldGrows DEF EndedInv
    <3>0. \A k \in 1..Len(s) :
            \/ s[k] = [kind |-> "start", match |-> made + 1]
            \/ \E i \in Taken(asDemo) : s[k] = [kind |-> "end", match |-> i]
      <4>1. MaxMatches \in Nat
        BY SwitcherAssumption
      <4>2. QED
        BY <1>0, <3>1, <4>1, StartsAreJobs
    <3>3. told'[made + 1] = s /\ \A j \in Ids : j # made + 1 => told'[j] = told[j]
      BY <1>0, <1>2, <3>1, CreateTells
    <3> HIDE DEF s
    <3>4. ASSUME NEW k \in 1..Len(s)
          PROVE  \/ s[k].kind = "start" /\ s[k].match = made + 1
                 \/ s[k].kind = "end" /\ ended'[s[k].match]
      <4>1. \A i \in Taken(asDemo) : ended'[i]
        BY <1>2, CreateEnds
      <4>2. CASE s[k] = [kind |-> "start", match |-> made + 1]
        BY <4>2
      <4>3. ASSUME NEW i \in Taken(asDemo), s[k] = [kind |-> "end", match |-> i]
            PROVE  s[k].kind = "end" /\ ended'[s[k].match]
        BY <4>1, <4>3
      <4>4. QED
        BY <3>0, <4>2, <4>3
    <3>5. made' = made + 1
      BY <1>2, CreateTells
    <3>6. ASSUME NEW j \in Ids
          PROVE  /\ j > made' => told'[j] = <<>>
                 /\ \A k \in 1..Len(told'[j]) :
                      \/ told'[j][k].kind = "start" /\ told'[j][k].match = j
                      \/ told'[j][k].kind = "end" /\ ended'[told'[j][k].match]
      <4>1. CASE j = made + 1
        BY <1>0, <3>3, <3>4, <3>5, <4>1
      <4>2. CASE j # made + 1
        <5>1. j > made' => j > made
          BY <1>0, <3>5 DEF Ids
        <5>2. QED
          BY <3>2, <3>3, <4>2, <5>1 DEF ToldFits
      <4>3. QED
        BY <4>1, <4>2
    <3>7. QED
      BY <3>6 DEF ToldFits
  <2>6. QED
    BY <2>2, <2>3, <2>4, <2>5 DEF EndedInv
<1>3. ASSUME NEW i \in Ids, Tell(i)
      PROVE  EndedInv'
  <2>1. /\ told[i] # <<>> /\ told' = [told EXCEPT ![i] = Tail(@)]
        /\ Submit(Head(told[i]).kind, Head(told[i]).match)
        /\ UNCHANGED <<made, ended, ending, worker>>
    BY <1>3 DEF Tell, matchVars
  <2>2. ToldFits(told', ended, made) /\ (Head(told[i]).kind = "end" => ended[Head(told[i]).match])
    BY <1>0, <2>1, ToldTaken DEF EndedInv
  <2>3. Head(told[i]) \in Job
    BY <1>0, <2>1, JobsTaken
  <2>4. EndsAreEnded(work', ended)
    BY <2>1, <2>2, <2>3, SubmitsEnd DEF EndedInv, Job
  <2>5. QED
    BY <2>1, <2>2, <2>4 DEF EndedInv
<1>4. ASSUME NEW i \in Ids, End(i)
      PROVE  EndedInv'
  <2>1. /\ ended' = [ended EXCEPT ![i] = TRUE] /\ ending' = ending \cup {i}
        /\ UNCHANGED <<told, work, worker, made>>
    BY <1>4 DEF End
  <2>2. \A j \in Ids : ended[j] => ended'[j]
    BY <1>0, <2>1
  <2>3. ToldFits(told, ended', made) /\ EndsAreEnded(work, ended')
    BY <1>0, <2>2, EndsGrow, ToldGrows DEF EndedInv
  <2>4. \A j \in ending' : ended'[j]
    BY <1>0, <2>1 DEF EndedInv
  <2>5. worker.pc \in {"read", "back"} => worker.match \in Ids
    BY <1>0 DEF WorkerFits, TypeOK
  <2>6. QED
    BY <2>1, <2>2, <2>3, <2>4, <2>5 DEF EndedInv
<1>5. ASSUME NEW i \in Ids, LetGo(i)
      PROVE  EndedInv'
  <2>1. /\ i \in ending /\ ending' = ending \ {i} /\ Submit("end", i)
        /\ UNCHANGED <<told, ended, made, worker>>
    BY <1>5 DEF LetGo, matchVars
  <2>2. EndsAreEnded(work', ended)
    BY <2>1, SubmitsEnd DEF EndedInv
  <2>3. QED
    BY <2>1, <2>2 DEF EndedInv
<1>6. ASSUME NEW i \in Ids, Win(i) \/ Undo(i)
      PROVE  EndedInv'
  <2>1. /\ Submit("won", i) \/ Submit("undo", i)
        /\ UNCHANGED <<told, ending, ended, made, worker>>
    BY <1>6 DEF Win, Undo, submitVars
  <2>2. EndsAreEnded(work', ended)
    BY <2>1, SubmitsEnd DEF EndedInv
  <2>3. QED
    BY <1>1, <2>1, <2>2 DEF EndedInv
<1>7. CASE Take
  <2>1. work # <<>> /\ work' = Tail(work) /\ UNCHANGED <<told, ending, ended, made, held, matchID>>
    BY <1>7 DEF Take, matchVars, submitVars
  <2>2. EndsAreEnded(work', ended) /\ (Head(work).kind = "end" => ended[Head(work).match])
    BY <1>0, <2>1, EndsTaken DEF EndedInv
  <2>3. Head(work).kind \in {"start", "end", "won", "undo"}
    BY <1>0, <2>1, JobsTaken DEF Job
  <2>4. worker'.pc \in {"read", "back"} /\ worker'.why = "end" => ended[worker'.match]
    <3>1. CASE worker' = worker
      BY <3>1 DEF EndedInv
    <3>2. CASE worker' = [pc |-> "set", match |-> Head(work).match, why |-> "start"]
      BY <3>2
    <3>3. CASE /\ matchID = Head(work).match
               /\ worker' = [pc |-> "read", match |-> matchID, why |-> Head(work).kind]
      BY <2>2, <3>3
    <3>4. QED
      BY <1>7, <2>3, <3>1, <3>2, <3>3, TakeStart, TakeEnd, TakeUndo
  <2>5. QED
    BY <1>1, <2>1, <2>2, <2>4
<1>8. CASE CheckIdle
  BY <1>1, <1>8 DEF CheckIdle, EndedInv, matchVars, submitVars
<1>9. ASSUME Rest
      PROVE  worker'.pc \notin {"read", "back"}
  BY <1>9, RestsOrIsGone, GoneIsGone
<1>10. CASE Set \/ Back
  BY <1>1, <1>9, <1>10 DEF Set, Back, Kept, EndedInv, matchVars, submitVars
<1>11. CASE Read
  <2>1. UNCHANGED <<told, ending, ended, made, work>>
    BY <1>11 DEF Read, Kept, matchVars, submitVars
  <2>2. worker' = [worker EXCEPT !.pc = "back"] \/ Rest
    BY <1>11 DEF Read
  <2>3. CASE worker' = [worker EXCEPT !.pc = "back"]
    <3>1. worker'.match = worker.match /\ worker'.why = worker.why /\ worker.pc = "read"
      BY <1>11, <2>3 DEF TypeOK, Read
    <3>2. QED
      BY <1>1, <2>1, <3>1 DEF EndedInv
  <2>4. QED
    BY <1>1, <1>9, <2>1, <2>2, <2>3 DEF EndedInv
<1>12. CASE Close
  <2>1. /\ told' = [i \in Ids |-> <<>>] /\ ending' = {} /\ UNCHANGED <<work, worker, ended, made>>
    BY <1>12 DEF Close, matchVars
  <2>2. ToldFits(told', ended, made)
    BY <2>1 DEF ToldFits
  <2>3. QED
    BY <2>1, <2>2 DEF EndedInv
<1>13. CASE Stop
  <2>1. worker'.pc = "gone" \/ worker' = [pc |-> "read", match |-> matchID, why |-> "shutdown"]
    BY <1>13, GoneIsGone DEF Stop, Leave
  <2>2. QED
    BY <1>1, <1>13, <2>1 DEF Stop, EndedInv, matchVars, submitVars
<1>14. ASSUME NEW i \in Ids, Point(i)
       PROVE  EndedInv'
  BY <1>1, <1>14 DEF Point, EndedInv, matchVars, submitVars
<1>15. CASE TimePasses \/ Person
  BY <1>1, <1>15 DEF TimePasses, Person, EndedInv, matchVars, submitVars
<1>16. CASE UNCHANGED vars
  BY <1>1, <1>16 DEF vars, EndedInv, matchVars, submitVars
<1>17. QED
  BY <1>2, <1>3, <1>4, <1>5, <1>6, <1>7, <1>8, <1>10, <1>11, <1>12, <1>13, <1>14, <1>15,
     <1>16 DEF Next

-----------------------------------------------------------------------------
(* Jobs of a win.                                                          *)

(* A submitted job finds its place, or is dropped.                         *)
LEMMA Submitted ==
  ASSUME TypeOK, NEW kind \in {"start", "end", "won", "undo"}, NEW i \in Ids, Submit(kind, i),
         ~dropped'
  PROVE  /\ ~dropped /\ [kind |-> kind, match |-> i] \in Job
         /\ work' = Append(work, [kind |-> kind, match |-> i])
BY DEF Submit, Job, TypeOK

LEMMA SubmitsOther ==
  ASSUME TypeOK, NEW kind \in {"start", "end", "won", "undo"}, NEW i \in Ids, Submit(kind, i),
         WonInv, NEW o, kind = "won" => o[i],
         \A j \in Ids : over[j] => o[j], over' = o, UNCHANGED worker, WorkerFits
  PROVE  WonInv'
<1> SUFFICES ASSUME ~dropped' PROVE WonInv'
  BY DEF WonInv
<1> DEFINE x == [kind |-> kind, match |-> i]
<1>1. ~dropped /\ x \in Job /\ work' = Append(work, x) /\ work \in Seq(Job)
  BY Submitted DEF TypeOK
<1>2. WonsAreOver(work, o)
  <2>1. ASSUME NEW k \in 1..Len(work)
        PROVE  work[k].match \in Ids
    <3>1. work[k] \in Job
      BY <1>1
    <3>2. QED
      BY <3>1 DEF Job
  <2>2. QED
    BY <1>1, <2>1 DEF WonInv, WonsAreOver
<1>3. WonsAreOver(work', o)
  <2>1. x.kind = "won" => o[x.match]
    OBVIOUS
  <2>2. QED
    BY <1>1, <1>2, <2>1, WonsAppended
<1>4. worker.pc \in {"read", "back"} /\ worker.why = "won" =>
        o[worker.match] \/ [kind |-> "undo", match |-> worker.match] \in ToSet(work')
  <2>1. worker.pc \in {"read", "back"} => worker.match \in Ids
    BY DEF WorkerFits, TypeOK
  <2>2. [kind |-> "undo", match |-> worker.match] \in ToSet(work) =>
          [kind |-> "undo", match |-> worker.match] \in ToSet(work')
    BY <1>1, UndosAppended
  <2>3. QED
    BY <1>1, <2>1, <2>2 DEF WonInv, Pending
<1>5. QED
  BY <1>3, <1>4 DEF WonInv, Pending

LEMMA NextWon ==
  ASSUME TypeOK, WorkerFits, EndedInv, WonInv, [Next]_vars
  PROVE  WonInv'
<1>0. /\ told \in [Ids -> Seq(Job)] /\ work \in Seq(Job) /\ over \in [Ids -> BOOLEAN]
      /\ worker.match \in Ids \cup {NoMatch}
  BY DEF TypeOK
<1>1. ASSUME UNCHANGED <<work, over, dropped>>,
             worker'.pc \in {"read", "back"} /\ worker'.why = "won" =>
               worker.pc \in {"read", "back"} /\ worker.why = "won" /\ worker'.match = worker.match
      PROVE  WonInv'
  BY <1>1 DEF WonInv, Pending
<1>2. ASSUME NEW asDemo \in BOOLEAN, Create(asDemo)
      PROVE  WonInv'
  BY <1>1, <1>2, CreateTells
<1>3. ASSUME NEW i \in Ids, Tell(i)
      PROVE  WonInv'
  <2>1. /\ told[i] # <<>> /\ Submit(Head(told[i]).kind, Head(told[i]).match)
        /\ UNCHANGED <<over, worker>>
    BY <1>3 DEF Tell, matchVars
  <2>2. Head(told[i]) \in Job
    BY <1>0, <2>1, JobsTaken
  <2>3. Head(told[i]).kind # "won"
    BY <1>0, <2>1, ToldTaken DEF EndedInv
  <2>4. QED
    BY <2>1, <2>2, <2>3, SubmitsOther DEF Job
<1>4. ASSUME NEW i \in Ids, LetGo(i)
      PROVE  WonInv'
  <2>1. Submit("end", i) /\ UNCHANGED <<over, worker>>
    BY <1>4 DEF LetGo, matchVars
  <2>2. QED
    BY <2>1, SubmitsOther
<1>5. ASSUME NEW i \in Ids, Win(i)
      PROVE  WonInv'
  <2>1. Submit("won", i) /\ over' = [over EXCEPT ![i] = TRUE] /\ UNCHANGED worker
    BY <1>5 DEF Win
  <2>2. over'[i] /\ \A j \in Ids : over[j] => over'[j]
    BY <1>0, <2>1
  <2>3. QED
    BY <2>1, <2>2, SubmitsOther
<1>6. ASSUME NEW i \in Ids, Undo(i), ~dropped'
      PROVE  WonInv'
  <2> DEFINE x == [kind |-> "undo", match |-> i]
  <2>1. Submit("undo", i) /\ over' = [over EXCEPT ![i] = FALSE] /\ UNCHANGED worker
    BY <1>6 DEF Undo
  <2>2. ~dropped /\ x \in Job /\ work' = Append(work, x)
    BY <1>6, <2>1, Submitted
  <2>3. \A n : n # i => over'[n] = over[n]
    BY <1>0, <2>1
  <2>4. WonsAreOver(work', over')
    <3>1. WonsAreOver(work, over)
      BY <2>2 DEF WonInv
    <3>2. QED
      BY <1>0, <2>2, <2>3, <3>1, WonsUndone
  <2>5. worker.pc \in {"read", "back"} /\ worker.why = "won" =>
          over'[worker.match] \/ [kind |-> "undo", match |-> worker.match] \in ToSet(work')
    <3>1. CASE worker.match = i
      BY <1>0, <2>2, <3>1, LastOfAppended
    <3>2. CASE worker.match # i
      BY <1>0, <2>2, <2>3, <3>2, UndosAppended DEF WonInv, Pending
    <3>3. QED
      BY <3>1, <3>2
  <2>6. QED
    BY <2>1, <2>4, <2>5 DEF WonInv, Pending
<1>7. CASE Take
  <2>1. work # <<>> /\ work' = Tail(work) /\ UNCHANGED <<over, dropped>>
    BY <1>7 DEF Take, matchVars
  <2> SUFFICES ASSUME ~dropped PROVE WonInv'
    BY <2>1 DEF WonInv
  <2>2. /\ WonsAreOver(work', over)
        /\ Head(work).kind = "won" =>
             over[Head(work).match] \/ [kind |-> "undo", match |-> Head(work).match] \in ToSet(work')
    BY <1>0, <2>1, WonsTaken DEF WonInv
  <2>3. Head(work).kind \in {"start", "end", "won", "undo"} /\ worker.pc = "rest"
    BY <1>0, <1>7, <2>1, JobsTaken DEF Job, Take
  <2>4. worker'.pc \in {"read", "back"} /\ worker'.why = "won" =>
          over[worker'.match] \/ [kind |-> "undo", match |-> worker'.match] \in ToSet(work')
    <3>1. CASE worker' = worker
      BY <2>3, <3>1
    <3>2. CASE worker' = [pc |-> "set", match |-> Head(work).match, why |-> "start"]
      BY <3>2
    <3>3. CASE /\ matchID = Head(work).match
               /\ worker' = [pc |-> "read", match |-> matchID, why |-> Head(work).kind]
      BY <2>2, <3>3
    <3>4. QED
      BY <1>7, <2>3, <3>1, <3>2, <3>3, TakeStart, TakeEnd, TakeUndo
  <2>5. QED
    BY <2>1, <2>2, <2>4 DEF WonInv, Pending
<1>8. CASE CheckIdle
  BY <1>1, <1>8 DEF CheckIdle, matchVars
<1>9. ASSUME Rest
      PROVE  worker'.pc \notin {"read", "back"}
  BY <1>9, RestsOrIsGone, GoneIsGone
<1>10. CASE Set \/ Back
  BY <1>1, <1>9, <1>10 DEF Set, Back, Kept, matchVars
<1>11. CASE Read
  <2>1. UNCHANGED <<work, over, dropped>> /\ worker.pc = "read"
    BY <1>11 DEF Read, Kept, matchVars
  <2>2. CASE worker' = [worker EXCEPT !.pc = "back"]
    <3>1. worker'.match = worker.match /\ worker'.why = worker.why
      BY <2>2 DEF TypeOK
    <3>2. QED
      BY <1>1, <2>1, <3>1
  <2>3. CASE Rest
    BY <1>1, <1>9, <2>1, <2>3
  <2>4. QED
    BY <1>11, <2>2, <2>3 DEF Read
<1>12. CASE Close
  BY <1>1, <1>12 DEF Close, matchVars
<1>13. CASE Stop
  <2>1. worker'.pc = "gone" \/ worker' = [pc |-> "read", match |-> matchID, why |-> "shutdown"]
    BY <1>13, GoneIsGone DEF Stop, Leave
  <2>2. QED
    BY <1>1, <1>13, <2>1 DEF Stop, matchVars
<1>14. ASSUME NEW i \in Ids, Point(i) \/ End(i)
       PROVE  WonInv'
  BY <1>1, <1>14 DEF Point, End, matchVars
<1>15. CASE TimePasses \/ Person
  BY <1>1, <1>15 DEF TimePasses, Person, matchVars
<1>16. CASE UNCHANGED vars
  BY <1>1, <1>16 DEF vars, matchVars
<1>17. ASSUME NEW i \in Ids, Undo(i)
       PROVE  WonInv'
  BY <1>6, <1>17 DEF WonInv
<1>18. QED
  BY <1>2, <1>3, <1>4, <1>5, <1>7, <1>8, <1>10, <1>11, <1>12, <1>13, <1>14, <1>15, <1>16,
     <1>17 DEF Next

-----------------------------------------------------------------------------
(* The scoreboard we put up.                                               *)

LEMMA FailCounts == ASSUME TypeOK, Fail PROVE failures' # 0
<1>1. failures \in Nat
  BY SwitcherAssumption DEF TypeOK
<1>2. QED
  BY <1>1 DEF Fail

LEMMA NextHome ==
  ASSUME TypeOK, HomeInv, [Next]_vars
  PROVE  HomeInv'
<1>1. ASSUME UNCHANGED <<failures, panel, held>>
      PROVE  HomeInv'
  BY <1>1 DEF HomeInv
<1>2. CASE Set
  <2>1. CASE held' = TRUE /\ panel' = [streams |-> "match", by |-> "us"]
    BY <2>1 DEF HomeInv
  <2>2. CASE Fail
    BY <2>2, FailCounts DEF HomeInv
  <2>3. QED
    BY <1>2, <2>1, <2>2 DEF Set
<1>3. CASE Read
  <2>1. CASE UNCHANGED <<held, failures>>
    BY <1>1, <1>3, <2>1 DEF Read
  <2>2. CASE ~Unswitched(panel.streams)
    BY <1>3, <2>2 DEF Read, Forget, Fail, HomeInv, Unswitched
  <2>3. CASE Fail
    BY <2>3, FailCounts DEF HomeInv
  <2>4. QED
    BY <1>3, <2>1, <2>2, <2>3 DEF Read
<1>4. CASE Back
  <2>1. CASE panel' = [streams |-> "idle", by |-> "us"]
    BY <1>4, <2>1 DEF Back, Forget, HomeInv
  <2>2. CASE Fail
    BY <2>2, FailCounts DEF HomeInv
  <2>3. QED
    BY <1>4, <2>1, <2>2 DEF Back
<1>5. CASE Person
  BY <1>5 DEF Person, HomeInv
<1>6. ASSUME NEW asDemo \in BOOLEAN, Create(asDemo)
      PROVE  HomeInv'
  BY <1>1, <1>6, CreateTells DEF heldVars, pastVars
<1>7. ASSUME NEW i \in Ids, Tell(i) \/ End(i) \/ LetGo(i) \/ Point(i) \/ Win(i) \/ Undo(i)
      PROVE  HomeInv'
  BY <1>1, <1>7 DEF Tell, End, LetGo, Point, Win, Undo, heldVars, pastVars
<1>8. CASE Take \/ CheckIdle \/ Close \/ Stop \/ TimePasses \/ UNCHANGED vars
  BY <1>1, <1>8 DEF Take, CheckIdle, Close, Stop, TimePasses, vars, heldVars, pastVars
<1>9. QED
  BY <1>2, <1>3, <1>4, <1>5, <1>6, <1>7, <1>8 DEF Next

-----------------------------------------------------------------------------
(* The newest match.                                                       *)

(* Whatever disturbed the following stays.                                 *)
LEMMA StaysUndisturbed ==
  ASSUME TypeOK, [Next]_vars, Undisturbed', made' = made
  PROVE  Undisturbed
<1>1. failures \in Nat /\ ended \in [Ids -> BOOLEAN] /\ made \in 0..MaxMatches
  BY SwitcherAssumption DEF TypeOK
<1>2. failures' = 0 => failures = 0
  <2>1. UNCHANGED failures \/ Fail
    BY CreateTells DEF Next, Tell, End, LetGo, Point, Win, Undo, Take, CheckIdle, Set, Read, Back,
       Close, Stop, TimePasses, Person, vars, pastVars
  <2>2. QED
    BY <1>1, <2>1, FailCounts
<1>3. stop => stop'
  BY CreateTells DEF Next, Tell, End, LetGo, Point, Win, Undo, Take, CheckIdle, Set, Read, Back,
     Close, Stop, TimePasses, Person, vars, Kept
<1>4. astray => astray'
  BY CreateTells DEF Next, Tell, End, LetGo, Point, Win, Undo, Take, CheckIdle, Set, Read, Back,
     Close, Stop, TimePasses, Person, vars, pastVars, Kept
<1>5. dropped => dropped'
  BY CreateTells DEF Next, Tell, End, LetGo, Point, Win, Undo, Take, CheckIdle, Set, Read, Back,
     Close, Stop, TimePasses, Person, vars, Kept, Submit
<1>6. \A i \in Ids : ended[i] => ended'[i]
  <2>1. ASSUME NEW asDemo \in BOOLEAN, Create(asDemo)
        PROVE  \A i \in Ids : ended[i] => ended'[i]
    BY <2>1, CreateEnds
  <2>2. ASSUME NEW i \in Ids, End(i)
        PROVE  \A j \in Ids : ended[j] => ended'[j]
    BY <1>1, <2>2 DEF End
  <2>3. ASSUME UNCHANGED ended
        PROVE  \A i \in Ids : ended[i] => ended'[i]
    BY <2>3
  <2>4. QED
    BY <2>1, <2>2, <2>3 DEF Next, Tell, LetGo, Point, Win, Undo, Take, CheckIdle, Set, Read, Back,
       Close, Stop, TimePasses, Person, vars, Kept, matchVars
<1>7. made >= 1 => made \in Ids
  BY <1>1, SwitcherAssumption DEF Ids
<1>8. QED
  BY <1>2, <1>3, <1>4, <1>5, <1>6, <1>7 DEF Undisturbed

(* Another job behind those queued.                                        *)
LEMMA FollowedMore ==
  ASSUME NEW n \in Ids, NEW j \in Job, work \in Seq(Job), j.kind # "start",
         StartQueued(work, n) \/ Followed(work, n),
         work' = Append(work, j), UNCHANGED <<worker, heldVars, panel>>,
         over[n] => over'[n] \/ j = [kind |-> "undo", match |-> n]
  PROVE  StartQueued(work', n) \/ Followed(work, n)'
<1>1. CASE StartQueued(work, n)
  BY <1>1, StartAppended
<1>2. CASE Followed(work, n)
  <2>1. \A k \in 1..Len(work') : work'[k].kind # "start"
    <3> SUFFICES ASSUME NEW k \in 1..Len(work') PROVE work'[k].kind # "start"
      OBVIOUS
    <3>1. k \in 1..Len(work) \/ k = Len(work) + 1
      BY JobsAppended
    <3>2. QED
      BY <1>2, <3>1, JobsAppended DEF Followed
  <2>2. wonID = n /\ (over[n] \/ Pending("undo", n)) =>
          over'[n] \/ [kind |-> "undo", match |-> n] \in ToSet(work')
    BY UndosAppended, LastOfAppended DEF Pending
  <2>3. QED
    BY <1>2, <2>1, <2>2 DEF Followed, heldVars, Pending
<1>3. QED
  BY <1>1, <1>2

(* The queue and the worker as they were.                                  *)
LEMMA FollowedStill ==
  ASSUME NEW n, StartQueued(work, n) \/ Followed(work, n),
         UNCHANGED <<work, over, held, matchID, wonID>>,
         worker' = worker \/ (worker.pc # "set" /\ worker'.pc # "set"),
         panel.by = "person" => panel'.by = "person"
  PROVE  StartQueued(work', n) \/ Followed(work, n)'
<1>1. CASE StartQueued(work, n)
  BY <1>1
<1>2. CASE Followed(work, n)
  BY <1>2 DEF Followed, Pending
<1>3. QED
  BY <1>1, <1>2

LEMMA FollowedTaken ==
  ASSUME NEW n \in Ids, TypeOK, Take, StartQueued(work, n) \/ Followed(work, n)
  PROVE  StartQueued(work', n) \/ Followed(work, n)'
<1>1. /\ work \in Seq(Job) /\ work # <<>> /\ work' = Tail(work) /\ worker.pc = "rest"
      /\ UNCHANGED <<over, held, matchID, panel>>
  BY DEF TypeOK, Take, matchVars
<1>2. Head(work) \in Job /\ Head(work).kind \in {"start", "end", "won", "undo"} /\ Head(work).match \in Ids
  BY <1>1, JobsTaken DEF Job
<1>3. CASE StartQueued(work, n)
  <2>1. CASE /\ Head(work) = [kind |-> "start", match |-> n]
             /\ \A l \in 1..Len(Tail(work)) : Tail(work)[l].kind # "start"
    <3>1. worker' = [pc |-> "set", match |-> n, why |-> "start"] /\ wonID' = NoMatch
      BY <2>1, TakeStart
    <3>2. QED
      BY <1>1, <2>1, <3>1 DEF Followed
  <2>2. QED
    BY <1>1, <1>3, <2>1, StartTaken
<1>4. CASE Followed(work, n)
  <2>1. Head(work).kind # "start" /\ \A k \in 1..Len(work') : work'[k].kind # "start"
    BY <1>1, <1>4, JobsTaken DEF Followed
  <2>2. Head(work) # [kind |-> "undo", match |-> n] /\ Pending("undo", n) => Pending("undo", n)'
    BY <1>1, UndosTaken DEF Pending
  <2>3. CASE Head(work).kind \in {"end", "won"}
    <3>1. worker'.pc # "set" /\ wonID' = wonID
      BY <1>1, <2>3, TakeEnd
    <3>2. Head(work) # [kind |-> "undo", match |-> n]
      BY <2>3
    <3>3. QED
      BY <1>1, <1>4, <2>1, <2>2, <3>1, <3>2 DEF Followed
  <2>4. CASE Head(work).kind = "undo"
    <3>1. CASE /\ wonID = Head(work).match /\ ~held
               /\ worker' = [pc |-> "set", match |-> Head(work).match, why |-> "start"]
               /\ wonID' = NoMatch
      <4>1. wonID # NoMatch
        BY <1>2, <3>1 DEF Ids, NoMatch
      <4>2. wonID = n
        BY <1>1, <1>4, <3>1, <4>1 DEF Followed
      <4>3. QED
        BY <2>1, <3>1, <4>2 DEF Followed
    <3>2. CASE ~(wonID = Head(work).match /\ ~held) /\ worker' = worker /\ wonID' = wonID
      <4>1. CASE held
        BY <1>1, <1>4, <2>1, <3>2, <4>1 DEF Followed
      <4>2. CASE ~held
        <5>1. wonID = n => Head(work) # [kind |-> "undo", match |-> n]
          BY <3>2, <4>2
        <5>2. QED
          BY <1>1, <1>4, <2>1, <2>2, <3>2, <4>2, <5>1 DEF Followed
      <4>3. QED
        BY <4>1, <4>2
    <3>3. QED
      BY <2>4, <3>1, <3>2, TakeUndo
  <2>5. QED
    BY <1>2, <2>1, <2>3, <2>4
<1>5. QED
  BY <1>3, <1>4

LEMMA RestSetsNothing == ASSUME Rest PROVE worker'.pc \notin {"set", "read", "back"}
BY RestsOrIsGone, GoneIsGone

LEMMA FollowedSet ==
  ASSUME NEW n \in Ids, TypeOK, Set, failures' = 0, StartQueued(work, n) \/ Followed(work, n)
  PROVE  StartQueued(work', n) \/ Followed(work, n)'
<1>1. UNCHANGED <<work, wonID, over>> /\ worker.pc = "set" /\ worker'.pc # "set"
  BY RestSetsNothing DEF Set, Kept, matchVars
<1>2. held' = TRUE /\ matchID' = worker.match
  BY FailCounts DEF Set
<1>3. CASE StartQueued(work, n)
  BY <1>1, <1>3
<1>4. CASE Followed(work, n)
  BY <1>1, <1>2, <1>4 DEF Followed
<1>5. QED
  BY <1>3, <1>4

LEMMA FollowedRead ==
  ASSUME NEW n \in Ids, TypeOK, WorkerFits, HomeInv, Read, failures = 0, failures' = 0,
         StartQueued(work, n) \/ Followed(work, n)
  PROVE  StartQueued(work', n) \/ Followed(work, n)'
<1>1. /\ UNCHANGED <<work, wonID, over, panel>> /\ worker.pc = "read" /\ held
  BY DEF Read, Kept, matchVars, WorkerFits
<1>2. worker'.pc # "set"
  <2>1. worker' = [worker EXCEPT !.pc = "back"] => worker'.pc = "back"
    BY DEF TypeOK
  <2>2. QED
    BY <2>1, RestSetsNothing DEF Read
<1>3. UNCHANGED <<held, matchID>> \/ (held' = FALSE /\ panel.streams # "match")
  <2>1. ~Fail
    BY FailCounts
  <2>2. QED
    BY <2>1 DEF Read, Forget, Unswitched
<1>4. CASE UNCHANGED <<held, matchID>>
  BY <1>1, <1>2, <1>4, FollowedStill
<1>5. CASE held' = FALSE /\ panel.streams # "match"
  <2>1. panel.by = "person"
    BY <1>1, <1>5 DEF HomeInv, TypeOK
  <2>2. CASE StartQueued(work, n)
    BY <1>1, <2>2
  <2>3. CASE Followed(work, n)
    BY <1>1, <1>2, <1>5, <2>1, <2>3 DEF Followed
  <2>4. QED
    BY <2>2, <2>3
<1>6. QED
  BY <1>3, <1>4, <1>5

LEMMA FollowedBack ==
  ASSUME NEW n \in Ids, TypeOK, WorkerFits, EndedInv, WonInv, Back, failures' = 0,
         ~stop, ~astray, ~dropped, ~ended[n], StartQueued(work, n) \/ Followed(work, n)
  PROVE  StartQueued(work', n) \/ Followed(work, n)'
<1>1. /\ UNCHANGED <<work, over>> /\ worker.pc = "back" /\ held /\ worker.match = matchID
      /\ held' = FALSE /\ worker'.pc # "set"
  BY RestSetsNothing DEF Back, Kept, matchVars, WorkerFits, Forget
<1>2. CASE StartQueued(work, n)
  BY <1>1, <1>2
<1>3. CASE Followed(work, n)
  <2>1. worker.match = n
    BY <1>1, <1>3 DEF Followed
  <2>2. worker.why \notin {"start", "idle", "shutdown", "end"}
    BY <1>1, <2>1 DEF WorkerFits, EndedInv
  <2>3. worker.why = "won"
    BY <2>2 DEF TypeOK
  <2>4. wonID' = n
    BY <2>1, <2>3, FailCounts DEF Back
  <2>5. over[n] \/ Pending("undo", n)
    BY <1>1, <2>1, <2>3 DEF WonInv
  <2>6. QED
    BY <1>1, <1>3, <2>4, <2>5 DEF Followed, Pending
<1>4. QED
  BY <1>2, <1>3

LEMMA FollowedTold ==
  ASSUME NEW n \in Ids, n = made, TypeOK, EndedInv, NEW i \in Ids, Tell(i), ~dropped', ~astray',
         ~Started(n) \/ StartQueued(work, n) \/ Followed(work, n)
  PROVE  ~Started(n)' \/ StartQueued(work', n) \/ Followed(work, n)'
<1> DEFINE j == Head(told[i])
<1>1. /\ told[i] # <<>> /\ told' = [told EXCEPT ![i] = Tail(@)] /\ Submit(j.kind, j.match)
      /\ UNCHANGED <<over, worker, heldVars, panel, made>>
      /\ told \in [Ids -> Seq(Job)] /\ work \in Seq(Job) /\ told[i] \in Seq(Job)
  BY DEF Tell, matchVars, TypeOK
<1>2. j \in Job /\ j = [kind |-> j.kind, match |-> j.match]
  BY <1>1, JobsTaken DEF Job
<1>3. work' = Append(work, j)
  BY <1>1, <1>2, Submitted DEF Job
<1>4. ~(i > n) /\ ((j.kind = "start" /\ j.match = i) \/ j.kind = "end")
  BY <1>1, ToldTaken DEF EndedInv
<1>5. CASE i = n /\ j.kind = "start"
  <2>1. j = [kind |-> "start", match |-> n]
    BY <1>2, <1>4, <1>5
  <2>2. QED
    BY <1>1, <1>3, <2>1, StartLast
<1>6. CASE i = n /\ j.kind # "start" /\ ~Started(n)
  <2>1. PICK k \in 1..Len(told[n]) : told[n][k].kind = "start"
    BY <1>6 DEF Started
  <2>2. k # 1
    BY <1>1, <1>6, <2>1, JobsTaken
  <2>3. told'[n] = Tail(told[n])
    BY <1>1, <1>6
  <2>4. k - 1 \in 1..Len(Tail(told[n])) /\ Tail(told[n])[k - 1] = told[n][k]
    BY <1>1, <1>6, <2>1, <2>2, JobsTaken
  <2>5. QED
    BY <2>1, <2>3, <2>4 DEF Started
<1>7. CASE i # n /\ ~Started(n)
  <2>1. told'[n] = told[n]
    BY <1>1, <1>7
  <2>2. QED
    BY <1>7, <2>1 DEF Started
<1>8. CASE j.kind # "start" /\ Started(n)
  BY <1>1, <1>2, <1>3, <1>8, FollowedMore
<1>9. CASE i # n /\ j.kind = "start" /\ Started(n)
  <2>1. i < n /\ n \in Nat /\ i \in Nat
    BY <1>4, <1>9 DEF Ids
  <2>2. n \in i + 1..made
    BY <2>1
  <2>3. astray'
    BY <1>9, <2>2 DEF Tell
  <2>4. QED
    BY <2>3
<1>10. QED
  BY <1>5, <1>6, <1>7, <1>8, <1>9

LEMMA FollowedSubmit ==
  ASSUME NEW n \in Ids, TypeOK, NEW kind \in {"end", "won", "undo"}, NEW i \in Ids, Submit(kind, i),
         ~dropped', UNCHANGED <<worker, heldVars, panel>>, StartQueued(work, n) \/ Followed(work, n),
         over[n] => over'[n] \/ (kind = "undo" /\ i = n)
  PROVE  StartQueued(work', n) \/ Followed(work, n)'
<1> DEFINE j == [kind |-> kind, match |-> i]
<1>1. j \in Job /\ work' = Append(work, j) /\ work \in Seq(Job)
  BY Submitted DEF TypeOK
<1>2. j.kind # "start"
  OBVIOUS
<1>3. QED
  BY <1>1, <1>2, FollowedMore

LEMMA NextFollow ==
  ASSUME TypeOK, WorkerFits, EndedInv, WonInv, HomeInv, FollowInv, [Next]_vars
  PROVE  FollowInv'
<1>1. ASSUME NEW asDemo \in BOOLEAN, Create(asDemo)
      PROVE  FollowInv'
  <2> DEFINE s == Starts(made + 1, Taken(asDemo))
  <2>1. made + 1 \in Ids /\ Taken(asDemo) \in SUBSET (1..made) /\ made \in 0..MaxMatches
    BY <1>1, CreateEnds DEF TypeOK
  <2>2. 1 \in 1..Len(s) /\ s[1] = [kind |-> "start", match |-> made + 1]
    BY <2>1, StartsAreJobs, SwitcherAssumption
  <2> HIDE DEF s
  <2>3. made' = made + 1 /\ told'[made + 1] = s
    BY <1>1, <2>1, CreateTells DEF TypeOK, s
  <2>4. 1 \in 1..Len(told'[made']) /\ told'[made'][1].kind = "start"
    BY <2>2, <2>3
  <2>5. ~Started(made)'
    BY <2>4 DEF Started
  <2>6. QED
    BY <2>5 DEF FollowInv, Undisturbed
<1>2. ASSUME Undisturbed', made' = made,
             ~Started(made) \/ StartQueued(work, made) \/ Followed(work, made)
      PROVE  ~Started(made)' \/ StartQueued(work, made)' \/ Followed(work, made)'
  <2>0. Undisturbed
    BY <1>2, StaysUndisturbed
  <2>1. made \in Ids
    BY <2>0, SwitcherAssumption DEF Undisturbed, TypeOK, Ids
  <2>2. PICK n \in Ids : n = made
    BY <2>1
  <2>3. ~Started(n) \/ StartQueued(work, n) \/ Followed(work, n)
    BY <1>2, <2>2
  <2>4. SUFFICES ~Started(n)' \/ StartQueued(work', n) \/ Followed(work, n)'
    BY <1>2, <2>2 DEF Started, StartQueued, Followed, Pending
  <2>5. /\ ~stop /\ failures = 0 /\ ~dropped /\ ~astray /\ ~ended[n]
        /\ ~stop' /\ failures' = 0 /\ ~dropped' /\ ~astray'
    BY <1>2, <2>0, <2>2 DEF Undisturbed
  <2>6. ASSUME NEW i \in Ids, Tell(i)
        PROVE  ~Started(n)' \/ StartQueued(work', n) \/ Followed(work, n)'
    BY <2>2, <2>3, <2>5, <2>6, FollowedTold
  <2>7. ASSUME UNCHANGED told, StartQueued(work, n) \/ Followed(work, n) =>
                                 StartQueued(work', n) \/ Followed(work, n)'
        PROVE  ~Started(n)' \/ StartQueued(work', n) \/ Followed(work, n)'
    BY <2>3, <2>7 DEF Started
  <2>8. ASSUME NEW i \in Ids, LetGo(i)
        PROVE  ~Started(n)' \/ StartQueued(work', n) \/ Followed(work, n)'
    <3>1. Submit("end", i) /\ UNCHANGED <<told, over, worker, heldVars, panel>>
      BY <2>8 DEF LetGo, matchVars
    <3>2. StartQueued(work, n) \/ Followed(work, n) => StartQueued(work', n) \/ Followed(work, n)'
      <4>1. over[n] => over'[n]
        BY <3>1
      <4>2. "end" \in {"end", "won", "undo"} /\ UNCHANGED <<worker, heldVars, panel>>
        BY <3>1
      <4>3. QED
        BY <2>5, <3>1, <4>1, <4>2, FollowedSubmit
    <3>3. QED
      BY <2>7, <3>1, <3>2
  <2>9. ASSUME NEW i \in Ids, Win(i)
        PROVE  ~Started(n)' \/ StartQueued(work', n) \/ Followed(work, n)'
    <3>1. Submit("won", i) /\ UNCHANGED <<told, worker, heldVars, panel>>
      BY <2>9 DEF Win, submitVars
    <3>2. over[n] => over'[n]
      BY <2>9 DEF Win, TypeOK
    <3>3. StartQueued(work, n) \/ Followed(work, n) => StartQueued(work', n) \/ Followed(work, n)'
      <4>1. "won" \in {"end", "won", "undo"} /\ UNCHANGED <<worker, heldVars, panel>>
        BY <3>1
      <4>2. QED
        BY <2>5, <3>1, <3>2, <4>1, FollowedSubmit
    <3>4. QED
      BY <2>7, <3>1, <3>3
  <2>10. ASSUME NEW i \in Ids, Undo(i)
         PROVE  ~Started(n)' \/ StartQueued(work', n) \/ Followed(work, n)'
    <3>1. Submit("undo", i) /\ UNCHANGED <<told, worker, heldVars, panel>>
      BY <2>10 DEF Undo, submitVars
    <3>2. over[n] => over'[n] \/ i = n
      BY <2>10 DEF Undo, TypeOK
    <3>3. StartQueued(work, n) \/ Followed(work, n) => StartQueued(work', n) \/ Followed(work, n)'
      <4>1. "undo" \in {"end", "won", "undo"} /\ UNCHANGED <<worker, heldVars, panel>>
        BY <3>1
      <4>2. QED
        BY <2>5, <3>1, <3>2, <4>1, FollowedSubmit
    <3>4. QED
      BY <2>7, <3>1, <3>3
  <2>11. CASE Take
    BY <2>7, <2>11, FollowedTaken DEF Take, submitVars
  <2>12. CASE Set
    BY <2>5, <2>7, <2>12, FollowedSet DEF Set, Kept, submitVars
  <2>13. CASE Read
    BY <2>5, <2>7, <2>13, FollowedRead DEF Read, Kept, submitVars
  <2>14. CASE Back
    BY <2>5, <2>7, <2>14, FollowedBack DEF Back, Kept, submitVars
  <2>15. ASSUME UNCHANGED <<told, work, over, worker, heldVars>>,
                panel.by = "person" => panel'.by = "person"
         PROVE  ~Started(n)' \/ StartQueued(work', n) \/ Followed(work, n)'
    <3>1. UNCHANGED <<work, over, held, matchID, wonID>> /\ worker' = worker
      BY <2>15 DEF heldVars
    <3>2. StartQueued(work, n) \/ Followed(work, n) => StartQueued(work', n) \/ Followed(work, n)'
      BY <2>15, <3>1, FollowedStill
    <3>3. QED
      BY <2>7, <2>15, <3>2
  <2>16. ASSUME NEW i \in Ids, End(i) \/ Point(i)
         PROVE  ~Started(n)' \/ StartQueued(work', n) \/ Followed(work, n)'
    BY <2>15, <2>16 DEF End, Point, matchVars, submitVars
  <2>17. CASE TimePasses \/ Person \/ UNCHANGED vars
    BY <2>15, <2>17 DEF TimePasses, Person, vars, matchVars, submitVars
  <2>18. CASE CheckIdle \/ Close \/ Stop
    BY <2>5, <2>18 DEF CheckIdle, Close, Stop
  <2>19. ASSUME NEW asDemo \in BOOLEAN, Create(asDemo)
         PROVE  FALSE
    BY <1>2, <2>1, <2>19, CreateTells DEF Ids
  <2>20. QED
    BY <2>6, <2>8, <2>9, <2>10, <2>11, <2>12, <2>13, <2>14, <2>16, <2>17, <2>18, <2>19 DEF Next
<1>3. ASSUME made' = made
      PROVE  FollowInv'
  <2> SUFFICES ASSUME Undisturbed'
               PROVE  ~Started(made)' \/ StartQueued(work, made)' \/ Followed(work, made)'
    BY DEF FollowInv
  <2>1. Undisturbed
    BY <1>3, StaysUndisturbed
  <2>2. QED
    BY <1>2, <1>3, <2>1 DEF FollowInv
<1>4. made' = made \/ \E asDemo \in BOOLEAN : Create(asDemo)
  BY DEF Next, Tell, End, LetGo, Point, Win, Undo, Take, CheckIdle, Set, Read, Back,
     Close, Stop, TimePasses, Person, vars, Kept, matchVars
<1>5. QED
  BY <1>1, <1>3, <1>4

-----------------------------------------------------------------------------
(* The theorems.                                                           *)

LEMMA InitSwitcher == Init => SwitcherInv
<1> SUFFICES ASSUME Init PROVE SwitcherInv
  OBVIOUS
<1>1. TypeOK
  BY InitType
<1>2. worker = AtRest /\ work = <<>> /\ made = 0 /\ ending = {} /\ told = [i \in Ids |-> <<>>]
      /\ panel = [streams |-> "idle", by |-> "us"] /\ held = FALSE
  BY DEF Init
<1>3. WorkerFits
  BY <1>2 DEF WorkerFits, AtRest
<1>4. EndedInv
  <2>1. ToldFits(told, ended, made)
    BY <1>2 DEF ToldFits
  <2>2. QED
    BY <1>2, <2>1 DEF EndedInv, EndsAreEnded, AtRest
<1>5. WonInv
  BY <1>2 DEF WonInv, WonsAreOver, AtRest
<1>6. HomeInv
  BY <1>2 DEF HomeInv
<1>7. FollowInv
  BY <1>2 DEF FollowInv, Undisturbed
<1>8. QED
  BY <1>1, <1>3, <1>4, <1>5, <1>6, <1>7 DEF SwitcherInv

LEMMA NextSwitcher == SwitcherInv /\ [Next]_vars => SwitcherInv'
BY NextType, NextWorker, NextEnded, NextWon, NextHome, NextFollow DEF SwitcherInv

(* What the switcher knows of the panel, its jobs and the matches fits     *)
(* together in every state.                                                *)
THEOREM SwitcherFits == Spec => []SwitcherInv
<1>1. QED
  BY InitSwitcher, NextSwitcher, PTL DEF Spec

(* Every state of the switcher has the declared types; the queue is never  *)
(* longer than its capacity (streams.go).                                  *)
THEOREM SwitcherTypeOK == Spec => []TypeOK
<1>1. SwitcherInv => TypeOK
  BY DEF SwitcherInv
<1>2. QED
  BY <1>1, SwitcherFits, PTL

(* Once nothing is left to do, the panel is with the newest match as long  *)
(* as that runs, and after Close with nobody's scoreboard, for any number  *)
(* of matches and any length of the queue (acquire, reopened, Close).      *)
THEOREM SwitcherPanelIsWhereItBelongs == Spec => []PanelIsWhereItBelongs
<1>1. SwitcherInv => PanelIsWhereItBelongs
  <2> SUFFICES ASSUME SwitcherInv, failures = 0 PROVE
         /\ Settled /\ ~dropped /\ ~astray /\ panel.by = "us" /\ Running(made) => matchID = made
         /\ worker.pc = "gone" => ~held /\ ~OurScoreboard(panel)
    BY DEF PanelIsWhereItBelongs
  <2>1. TypeOK /\ WorkerFits /\ EndedInv /\ WonInv /\ HomeInv /\ FollowInv
    BY DEF SwitcherInv
  <2>2. worker.pc = "gone" => ~held /\ ~OurScoreboard(panel)
    BY <2>1 DEF WorkerFits, HomeInv, OurScoreboard
  <2>3. ASSUME Settled, ~dropped, ~astray, panel.by = "us", Running(made)
        PROVE  matchID = made
    <3>1. made >= 1 /\ made \in Ids /\ ~over[made] /\ ~ended[made]
      BY <2>1, <2>3, SwitcherAssumption DEF Running, TypeOK, Ids
    <3>2. ~stop /\ work = <<>> /\ worker.pc = "rest" /\ told[made] = <<>>
      BY <2>3, <3>1 DEF Settled, AtRest
    <3>3. Started(made) /\ ~StartQueued(work, made) /\ ~Pending("undo", made)
      BY <3>2 DEF Started, StartQueued, Pending, ToSet
    <3>4. Followed(work, made)
      BY <2>1, <2>3, <3>1, <3>2, <3>3 DEF FollowInv, Undisturbed
    <3>5. QED
      BY <2>3, <3>1, <3>2, <3>3, <3>4 DEF Followed
  <2>4. QED
    BY <2>2, <2>3
<1>2. QED
  BY <1>1, SwitcherFits, PTL

(* The panel is never taken from a match that runs by the end of another:  *)
(* whatever job hands it back, the match it had it for is ended or over,   *)
(* or the undo that takes it again is queued (Release, release).           *)
THEOREM SwitcherKeepsItWhileRunning == Spec => KeepsItWhileRunning
<1>1. ASSUME SwitcherInv, [Next]_vars,
             panel.by = "us", panel.streams = "match", panel'.streams = "idle", panel'.by = "us",
             Running(matchID), ~dropped
      PROVE  worker.why \in {"idle", "shutdown"} \/ Pending("undo", matchID)
  <2>1. TypeOK /\ WorkerFits /\ EndedInv /\ WonInv
    BY <1>1 DEF SwitcherInv
  <2>2. panel' # panel
    BY <1>1
  <2>3. Set \/ Back \/ Person
    BY <1>1, <2>2, CreateTells DEF Next, Tell, End, LetGo, Point, Win, Undo, Take, CheckIdle, Read,
       Close, Stop, TimePasses, vars
  <2>4. ~Set
    BY <1>1 DEF Set
  <2>5. ~Person
    BY <1>1 DEF Person
  <2>6. Back
    BY <2>3, <2>4, <2>5
  <2>7. worker.pc = "back" /\ worker.match = matchID /\ worker.why # "start"
    BY <2>1, <2>6 DEF Back, WorkerFits
  <2>8. ~over[matchID] /\ ~ended[matchID]
    BY <1>1 DEF Running
  <2>9. worker.why # "end"
    BY <2>1, <2>7, <2>8 DEF EndedInv
  <2>10. worker.why = "won" => Pending("undo", matchID)
    BY <1>1, <2>1, <2>7, <2>8 DEF WonInv
  <2>11. worker.why \in {"start", "end", "won", "idle", "shutdown"}
    BY <2>1 DEF TypeOK
  <2>12. QED
    BY <2>7, <2>9, <2>10, <2>11
<1>2. SwitcherInv /\ [Next]_vars =>
        [panel.by = "us" /\ panel.streams = "match" /\ panel'.streams = "idle"
           /\ panel'.by = "us" /\ Running(matchID) /\ ~dropped =>
           worker.why \in {"idle", "shutdown"} \/ Pending("undo", matchID)]_vars
  BY <1>1
<1>3. QED
  BY <1>2, SwitcherFits, PTL DEF Spec, KeepsItWhileRunning
=============================================================================
