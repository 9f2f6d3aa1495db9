--------------------------- MODULE ReporterProofs ---------------------------
(***************************************************************************)
(* Theorems about Reporter, for every set of matches, every number of      *)
(* wins, page sends and calls at once, with and without a grace period.    *)
(***************************************************************************)
EXTENDS Reporter, FiniteSetTheorems, TLAPS

(* The calls of send that are counted in inflight.                         *)
Counted == {c \in Callers : call[c].by \in {"now", "timer", "flush"}}

(* What one call of send may be, and what `sending` keeps apart: only the  *)
(* call that holds it has a request out, for a match not yet delivered.    *)
OneAtATime ==
  \A c \in Callers :
    /\ call[c].pc = "idle" <=> call[c].by = NoCaller
    /\ call[c].pc # "idle" => call[c].match \in Matches
    /\ call[c].pc \in {"withhold", "post"} => holder = c
    /\ call[c].pc = "post" => ~report[call[c].match].done

(* What is on the wire is a score its match was won with; nobody waits for *)
(* it any more only when an attempt has been given up.                     *)
WireInv ==
  \A c \in Callers :
    /\ call[c].wire =>
         /\ call[c].pc \in {"post", "idle"} /\ call[c].answer = "none"
         /\ call[c].match \in Matches /\ call[c].score \in won[call[c].match]
    /\ call[c].pc = "idle" /\ call[c].wire => unsure[call[c].match]
    /\ call[c].pc = "lock" => call[c].answer = "none"

(* An answer that says so means that the result is there.                  *)
AnswersAreTrue ==
  \A c \in Callers :
    call[c].pc = "post" /\ Arrived(c) => book[call[c].match] # <<>>

(* A result that is there is on record, or its call has yet to record it,  *)
(* or an attempt has been given up.                                        *)
BookIsAnswered ==
  \A m \in Matches : book[m] # <<>> =>
    \/ unsure[m] \/ report[m].done
    \/ \E c \in Callers : call[c].pc = "post" /\ call[c].match = m /\ call[c].answer = "accepted"

(* An entry in `waiting` is of the last win, the match is still over, and  *)
(* Flush has not begun.  The timer a won() is about to start is new.       *)
EntriesInv ==
  \A m \in Matches :
    /\ game[m].over => game[m].score \in won[m]
    /\ waiting[m] # 0 => waiting[m] = wins[m] /\ game[m].over /\ flush = "no"
    /\ m \in deciding => waiting[m] = 0 /\ wins[m] > 0 /\ game[m].over
    /\ \A n \in 1..MaxWins : <<m, n>> \in armed \cup fired =>
         n <= wins[m] /\ (m \in deciding => n < wins[m])

(* Finitely many are counted, and Flush has something to send only while   *)
(* it sends.                                                               *)
CountedInv ==
  /\ IsFiniteSet(armed) /\ IsFiniteSet(fired) /\ IsFiniteSet(toFlush) /\ IsFiniteSet(Counted)
  /\ toFlush # {} => flush = "sending"

(* A call of send that will look at m.                                     *)
Looks(c, m) == call[c].pc = "lock" /\ call[c].match = m

(* A win that waited waits, or Flush has it, or a call will look at it;    *)
(* once Flush has come back in time only the page's.  No handler is left   *)
(* when the server came down in time.                                      *)
OwedInv ==
  /\ \A m \in Matches :
       /\ owed[m] # "no" => game[m].over
       /\ alive /\ owed[m] = "waiting" =>
            /\ waiting[m] # 0 \/ m \in toFlush \/ \E c \in Callers : Looks(c, m)
            /\ flush = "done" /\ timely => \E c \in Callers : Looks(c, m) /\ call[c].by = "page"
  /\ alive /\ server = "down" /\ timely => ~Handling

-----------------------------------------------------------------------------
(* Types.                                                                  *)

CallType == [pc : {"idle", "lock", "withhold", "post"}, match : Matches \cup {NoCaller},
             by : {NoCaller, "now", "timer", "page", "flush"},
             score : Scores \cup {NoScore}, wire : BOOLEAN,
             answer : {"none", "accepted", "refused", "conflict"}]

NewCall(m, by) == [pc |-> "lock", match |-> m, by |-> by, score |-> NoScore,
                   wire |-> FALSE, answer |-> "none"]

LEMMA CallIsNew ==
  ASSUME NEW m, NEW by, Call(m, by)
  PROVE  \E c \in Callers : call[c] = Idle /\ call' = [call EXCEPT ![c] = NewCall(m, by)]
BY DEF Call, Idle, NewCall

LEMMA CallHasType ==
  ASSUME call \in [Callers -> CallType], NEW m \in Matches,
         NEW by \in {"now", "timer", "page", "flush"}, Call(m, by)
  PROVE  call' \in [Callers -> CallType]
<1>1. NewCall(m, by) \in CallType
  BY DEF NewCall, CallType
<1>2. QED
  BY <1>1, CallIsNew

(* The end of a call changes its own record only: nobody waits there any   *)
(* more, and a request on its way stays as it is.                          *)
LEMMA FinishEnds ==
  ASSUME call \in [Callers -> CallType], NEW c \in Callers, Finish(c)
  PROVE  /\ call' \in [Callers -> CallType] /\ holder' = NoCaller
         /\ \A d \in Callers : d # c => call'[d] = call[d]
         /\ call'[c].pc = "idle" /\ call'[c].by = NoCaller
         /\ call'[c].wire = call[c].wire
         /\ call[c].wire => /\ call'[c].match = call[c].match /\ call'[c].score = call[c].score
                            /\ call'[c].answer = call[c].answer
<1>1. Idle \in CallType /\ Idle.pc = "idle" /\ Idle.by = NoCaller /\ ~Idle.wire
  BY DEF Idle, CallType
<1>2. call[c] \in CallType
  OBVIOUS
<1>3. CASE call[c].wire
  <2> DEFINE e == [call[c] EXCEPT !.pc = "idle", !.by = NoCaller]
  <2>1. call' = [call EXCEPT ![c] = e]
    BY <1>3 DEF Finish
  <2>2. /\ e \in CallType /\ e.pc = "idle" /\ e.by = NoCaller /\ e.wire = call[c].wire
        /\ e.match = call[c].match /\ e.score = call[c].score /\ e.answer = call[c].answer
    BY <1>2 DEF CallType
  <2> HIDE DEF e
  <2>3. QED
    BY <1>3, <2>1, <2>2 DEF Finish
<1>4. CASE ~call[c].wire
  <2>1. call' = [call EXCEPT ![c] = Idle]
    BY <1>4 DEF Finish
  <2>2. QED
    BY <1>1, <1>2, <1>4, <2>1 DEF Finish, CallType
<1>5. QED
  BY <1>3, <1>4

LEMMA AnsweredEnds ==
  ASSUME call \in [Callers -> CallType], NEW c \in Callers,
         NEW a \in {"accepted", "refused", "conflict"}, Answered(c, a)
  PROVE  /\ call' \in [Callers -> CallType]
         /\ \A d \in Callers : d # c => call'[d] = call[d]
         /\ ~call'[c].wire
         /\ call[c].pc = "post" =>
              /\ call'[c].pc = "post" /\ call'[c].by = call[c].by /\ call'[c].answer = a
              /\ call'[c].match = call[c].match /\ call'[c].score = call[c].score
         /\ call[c].pc # "post" => call'[c] = Idle
<1>1. Idle \in CallType /\ ~Idle.wire
  BY DEF Idle, CallType
<1>2. call[c] \in CallType
  OBVIOUS
<1>3. CASE call[c].pc = "post"
  <2> DEFINE e == [call[c] EXCEPT !.wire = FALSE, !.answer = a]
  <2>1. call' = [call EXCEPT ![c] = e]
    BY <1>3 DEF Answered
  <2>2. /\ e \in CallType /\ e.pc = call[c].pc /\ e.by = call[c].by /\ ~e.wire
        /\ e.match = call[c].match /\ e.score = call[c].score /\ e.answer = a
    BY <1>2 DEF CallType
  <2> HIDE DEF e
  <2>3. QED
    BY <1>3, <2>1, <2>2
<1>4. CASE call[c].pc # "post"
  <2>1. call' = [call EXCEPT ![c] = Idle]
    BY <1>4 DEF Answered
  <2>2. QED
    BY <1>1, <1>2, <1>4, <2>1
<1>5. QED
  BY <1>3, <1>4

GameType == /\ game \in [Matches -> [over : BOOLEAN, score : Scores \cup {NoScore}]]
            /\ wins \in [Matches -> 0..MaxWins] /\ won \in [Matches -> SUBSET Scores]
TimerType == waiting \in [Matches -> 0..MaxWins] /\ armed \subseteq Timers /\ fired \subseteq Timers
ExitType == /\ flush \in {"no", "sending", "waiting", "done"} /\ toFlush \subseteq Matches
            /\ server \in {"up", "draining", "down"} /\ alive \in BOOLEAN /\ timely \in BOOLEAN
SendType == call \in [Callers -> CallType] /\ holder \in Callers \cup {NoCaller}
ReportType == report \in [Matches -> [done : BOOLEAN, sent : Scores \cup {NoScore},
                                      failed : BOOLEAN, due : BOOLEAN]]
BookType == book \in [Matches -> Seq(Scores)]
OtherType == /\ deciding \subseteq Matches /\ inflight \in Int /\ sends \in 0..MaxSends
             /\ unsure \in [Matches -> BOOLEAN] /\ owed \in [Matches -> {"no", "won", "waiting"}]

LEMMA Types ==
  TypeOK <=> /\ GameType /\ TimerType /\ ExitType /\ SendType /\ ReportType /\ BookType
             /\ OtherType
BY DEF TypeOK, GameType, TimerType, ExitType, SendType, ReportType, BookType, OtherType, CallType

LEMMA TypesNext ==
  ASSUME GameType', TimerType', ExitType', SendType', ReportType', BookType', OtherType'
  PROVE  TypeOK'
BY DEF TypeOK, GameType, TimerType, ExitType, SendType, ReportType, BookType, OtherType, CallType

LEMMA Stays ==
  /\ GameType /\ UNCHANGED gameVars => GameType'
  /\ TimerType /\ UNCHANGED timerVars => TimerType'
  /\ ExitType /\ UNCHANGED exitVars => ExitType'
  /\ SendType /\ UNCHANGED sendVars => SendType'
  /\ ReportType /\ UNCHANGED report => ReportType'
  /\ BookType /\ UNCHANGED book => BookType'
BY DEF GameType, TimerType, ExitType, SendType, ReportType, BookType,
       gameVars, timerVars, exitVars, sendVars

LEMMA WithdrawType ==
  ASSUME TimerType, NEW m \in Matches, Withdraw(m)
  PROVE  TimerType'
BY ReporterAssumption DEF TimerType, Withdraw, ArmedWithout

LEMMA StoppedIsOne ==
  ASSUME NEW m \in Matches
  PROVE  Stopped(m) \in {0, 1} /\ (Stopped(m) = 1 <=> EntryOf(m) # {} /\ EntryOf(m) \subseteq armed)
<1>1. \/ EntryOf(m) \cap armed = {} /\ ~(EntryOf(m) # {} /\ EntryOf(m) \subseteq armed)
      \/ EntryOf(m) \cap armed = {<<m, waiting[m]>>} /\ EntryOf(m) # {} /\ EntryOf(m) \subseteq armed
  BY DEF EntryOf
<1>2. QED
  BY <1>1, FS_EmptySet, FS_Singleton DEF Stopped

LEMMA WinType ==
  ASSUME TypeOK, NEW m \in Matches, NEW s \in Scores, Win(m, s)
  PROVE  TypeOK'
<1>1. GameType'
  <2>1. GameType /\ MaxWins \in Nat /\ wins[m] < MaxWins
    BY Types, ReporterAssumption DEF Win
  <2>2. wins' \in [Matches -> 0..MaxWins]
    BY <2>1 DEF Win, GameType
  <2>3. /\ game' \in [Matches -> [over : BOOLEAN, score : Scores \cup {NoScore}]]
        /\ won' \in [Matches -> SUBSET Scores]
    BY <2>1 DEF Win, GameType
  <2>4. QED
    BY <2>2, <2>3 DEF GameType
<1>2. OtherType'
  BY Types DEF Win, OtherType
<1>3. QED
  BY <1>1, <1>2, Types, Stays, TypesNext DEF Win

LEMMA ScheduleType ==
  ASSUME TypeOK, NEW m \in Matches, wins[m] > 0, Schedule(m)
  PROVE  TypeOK'
<1>1. wins[m] \in 1..MaxWins
  BY Types, ReporterAssumption DEF GameType
<1>2. CASE Grace /\ ~Closed
  <2>1. TimerType'
    BY <1>1, <1>2, Types DEF Schedule, TimerType, timerVars, ArmedWithout, Timers
  <2>2. ReportType'
    BY <1>2, Types DEF Schedule, ReportType
  <2>3. OtherType'
    BY <1>2, Types, StoppedIsOne DEF Schedule, OtherType
  <2>4. QED
    BY <1>2, <2>1, <2>2, <2>3, Types, Stays, TypesNext DEF Schedule
<1>3. CASE ~(Grace /\ ~Closed)
  <2>1. SendType'
    BY <1>3, Types, CallHasType DEF Schedule, SendType
  <2>2. OtherType'
    BY <1>3, Types DEF Schedule, OtherType
  <2>3. QED
    BY <1>3, <2>1, <2>2, Types, Stays, TypesNext DEF Schedule
<1>4. QED
  BY <1>2, <1>3

LEMMA UndoType ==
  ASSUME TypeOK, NEW m \in Matches, Undo(m)
  PROVE  TypeOK'
<1>1. GameType'
  BY Types DEF Undo, GameType
<1>2. TimerType'
  BY Types, WithdrawType DEF Undo
<1>3. ReportType'
  BY Types DEF Undo, ReportType
<1>4. OtherType'
  BY Types, StoppedIsOne DEF Undo, OtherType
<1>5. QED
  BY <1>1, <1>2, <1>3, <1>4, Types, Stays, TypesNext DEF Undo

LEMMA RunOutType ==
  ASSUME TypeOK, NEW m \in Matches, NEW n \in 1..MaxWins, RunOut(m, n)
  PROVE  TypeOK'
<1>1. TimerType'
  BY Types DEF RunOut, TimerType, Timers
<1>2. OtherType'
  BY Types DEF RunOut, OtherType
<1>3. QED
  BY <1>1, <1>2, Types, Stays, TypesNext DEF RunOut

LEMMA FireType ==
  ASSUME TypeOK, NEW m \in Matches, NEW n \in 1..MaxWins, Fire(m, n)
  PROVE  TypeOK'
<1>1. TimerType'
  BY Types, ReporterAssumption DEF Fire, TimerType
<1>2. SendType'
  BY Types, CallHasType DEF Fire, SendType
<1>3. OtherType'
  BY Types DEF Fire, OtherType
<1>4. QED
  BY <1>1, <1>2, <1>3, Types, Stays, TypesNext DEF Fire

LEMMA PageSendType ==
  ASSUME TypeOK, NEW m \in Matches, PageSend(m)
  PROVE  TypeOK'
<1>1. TimerType'
  BY Types, WithdrawType DEF PageSend
<1>2. SendType'
  BY Types, CallHasType DEF PageSend, SendType
<1>3. OtherType'
  BY Types, StoppedIsOne, ReporterAssumption DEF PageSend, OtherType
<1>4. QED
  BY <1>1, <1>2, <1>3, Types, Stays, TypesNext DEF PageSend

LEMMA FinishCounts ==
  ASSUME call \in [Callers -> CallType], inflight \in Int, NEW c \in Callers, Finish(c)
  PROVE  SendType' /\ inflight' \in Int
<1>1. SendType'
  BY FinishEnds DEF SendType
<1>2. inflight' \in {inflight, inflight - 1}
  BY DEF Finish
<1>3. QED
  BY <1>1, <1>2

LEMMA BeginType ==
  ASSUME TypeOK, NEW c \in Callers, call[c].match \in Matches, Begin(c)
  PROVE  TypeOK'
<1> DEFINE m == call[c].match
<1>1. CASE NothingToSend(m)
  <2>1. SendType' /\ inflight' \in Int
    BY <1>1, Types, FinishCounts DEF Begin, OtherType, SendType
  <2>2. OtherType'
    BY <1>1, <2>1, Types DEF Begin, OtherType
  <2>3. QED
    BY <2>1, <2>2, Types, Stays, TypesNext DEF Begin
<1>2. CASE ~NothingToSend(m) /\ Reopened(m)
  <2>1. SendType'
    BY <1>2, Types DEF Begin, SendType, CallType
  <2>2. OtherType'
    BY <1>2, Types DEF Begin, OtherType
  <2>3. QED
    BY <2>1, <2>2, Types, Stays, TypesNext DEF Begin
<1>3. CASE ~NothingToSend(m) /\ ~Reopened(m)
  <2>1. game[m].score \in Scores \cup {NoScore}
    BY Types DEF GameType
  <2>2. SendType'
    BY <1>3, <2>1, Types DEF Begin, SendType, CallType
  <2>3. OtherType'
    BY <1>3, Types DEF Begin, OtherType
  <2>4. QED
    BY <2>2, <2>3, Types, Stays, TypesNext DEF Begin
<1>4. QED
  BY <1>1, <1>2, <1>3

(* What a call that has `sending` does to the record.                      *)
LEMMA RecordEffect ==
  ASSUME TypeOK, NEW c \in Callers, call[c].match \in Matches,
         Withhold(c) \/ Record(c) \/ GiveUp(c)
  PROVE  /\ ReportType'
         /\ \A m \in Matches :
              /\ report[m].done => report'[m].done /\ report'[m].sent = report[m].sent
              /\ report'[m].done => report[m].done \/ (Record(c) /\ Arrived(c) /\ m = call[c].match)
              /\ Record(c) /\ Arrived(c) /\ m = call[c].match => report'[m].done
<1> DEFINE m == call[c].match
<1>1. ReportType /\ call[c] \in CallType
  BY Types DEF SendType
<1>2. call[c].score \in Scores \cup {NoScore}
  BY <1>1 DEF CallType
<1>3. CASE Withhold(c)
  BY <1>1, <1>3 DEF Withhold, ReportType, Record
<1>4. CASE Record(c) /\ Arrived(c)
  <2>1. Delivered(m, call[c].score)
    BY <1>4 DEF Record
  <2>2. QED
    BY <1>1, <1>2, <1>4, <2>1 DEF Delivered, ReportType
<1>5. CASE Failed(m) /\ ~(Record(c) /\ Arrived(c))
  BY <1>1, <1>5 DEF Failed, ReportType
<1>6. CASE GiveUp(c) /\ Record(c) /\ Arrived(c)
  BY <1>4, <1>6
<1>7. QED
  BY <1>3, <1>4, <1>5 DEF Record, GiveUp

LEMMA EndType ==
  ASSUME TypeOK, NEW c \in Callers, call[c].match \in Matches,
         Withhold(c) \/ Record(c) \/ GiveUp(c)
  PROVE  TypeOK'
<1>1. Finish(c) /\ UNCHANGED <<gameVars, deciding, timerVars, exitVars, book, sends, owed>>
  BY DEF Withhold, Record, GiveUp
<1>2. unsure' \in [Matches -> BOOLEAN]
  BY Types DEF Withhold, Record, GiveUp, OtherType
<1>3. SendType' /\ inflight' \in Int
  BY <1>1, Types, FinishCounts DEF OtherType, SendType
<1>4. OtherType'
  BY <1>1, <1>2, <1>3, Types DEF OtherType
<1>5. ReportType'
  BY RecordEffect
<1>6. QED
  BY <1>1, <1>3, <1>4, <1>5, Types, Stays, TypesNext

LEMMA RemoteType ==
  ASSUME TypeOK, WireInv, NEW c \in Callers, Accept(c) \/ Conflict(c) \/ Refuse(c) \/ Vanish(c)
  PROVE  TypeOK'
<1>1. UNCHANGED Rest
  BY DEF Accept, Conflict, Refuse, Vanish
<1>2. SendType'
  <2>1. call' \in [Callers -> CallType]
    <3>1. CASE Accept(c) \/ Conflict(c) \/ Refuse(c)
      BY <3>1, Types, AnsweredEnds DEF Accept, Conflict, Refuse, SendType
    <3>2. CASE Vanish(c)
      <4>1. Idle \in CallType
        BY DEF Idle, CallType
      <4>2. QED
        BY <3>2, <4>1, Types DEF Vanish, SendType
    <3>3. QED
      BY <3>1, <3>2
  <2>2. QED
    BY <1>1, <2>1, Types DEF Rest, SendType
<1>3. BookType'
  <2>1. CASE Accept(c)
    <3>1. call[c].match \in Matches /\ call[c].score \in Scores
      BY <2>1, Types DEF Accept, WireInv, GameType
    <3>2. book[call[c].match] \in Seq(Scores)
      BY <3>1, Types DEF BookType
    <3>3. Append(book[call[c].match], call[c].score) \in Seq(Scores)
      BY <3>1, <3>2
    <3>4. QED
      BY <2>1, <3>1, <3>3, Types DEF Accept, BookType
  <2>2. CASE Conflict(c) \/ Refuse(c) \/ Vanish(c)
    BY <2>2, Types DEF Conflict, Refuse, Vanish, BookType
  <2>3. QED
    BY <2>1, <2>2
<1>4. OtherType'
  BY <1>1, Types DEF Rest, OtherType
<1>5. QED
  BY <1>1, <1>2, <1>3, <1>4, Types, Stays, TypesNext DEF Rest

LEMMA FlushBeginType ==
  ASSUME TypeOK, IsFiniteSet(Recounted), FlushBegin
  PROVE  TypeOK'
<1>1. TimerType'
  BY Types, ReporterAssumption DEF FlushBegin, TimerType
<1>2. ExitType'
  BY Types DEF FlushBegin, ExitType, Taken
<1>3. Cardinality(Recounted) \in Nat
  BY FS_CardinalityType
<1>4. OtherType'
  BY <1>3, Types DEF FlushBegin, OtherType
<1>5. QED
  BY <1>1, <1>2, <1>4, Types, Stays, TypesNext DEF FlushBegin

LEMMA FlushNextType ==
  ASSUME TypeOK, NEW m \in Matches, FlushNext(m)
  PROVE  TypeOK'
<1>1. SendType'
  BY Types, CallHasType DEF FlushNext, SendType
<1>2. ExitType'
  BY Types DEF FlushNext, ExitType
<1>3. OtherType'
  BY Types DEF FlushNext, OtherType
<1>4. QED
  BY <1>1, <1>2, <1>3, Types, Stays, TypesNext DEF FlushNext

LEMMA DownType ==
  ASSUME TypeOK, FlushWait \/ FlushDone \/ ServerDown
  PROVE  TypeOK'
<1>1. UNCHANGED <<gameVars, deciding, timerVars, inflight, sendVars, report, book, sends,
                  unsure, owed>>
  BY DEF FlushWait, FlushDone, ServerDown
<1>2. ExitType'
  BY Types DEF FlushWait, FlushDone, ServerDown, ExitType
<1>3. OtherType'
  BY <1>1, Types DEF OtherType
<1>4. QED
  BY <1>1, <1>2, <1>3, Types, Stays, TypesNext

LEMMA ExitEnds ==
  ASSUME call \in [Callers -> CallType], Exit, NEW c \in Callers
  PROVE  /\ call'[c] \in CallType /\ call'[c].pc = "idle" /\ call'[c].by = NoCaller
         /\ call'[c].wire = call[c].wire
         /\ call[c].wire => /\ call'[c].match = call[c].match /\ call'[c].score = call[c].score
                            /\ call'[c].answer = call[c].answer
<1>1. Idle \in CallType /\ Idle.pc = "idle" /\ Idle.by = NoCaller /\ ~Idle.wire
  BY DEF Idle, CallType
<1>2. call[c] \in CallType
  OBVIOUS
<1>3. CASE call[c].wire
  BY <1>2, <1>3 DEF Exit, CallType
<1>4. CASE ~call[c].wire
  BY <1>1, <1>2, <1>4 DEF Exit, CallType
<1>5. QED
  BY <1>3, <1>4

LEMMA ExitHasType ==
  ASSUME TypeOK, Exit
  PROVE  TypeOK'
<1>1. SendType'
  <2>1. \A c \in Callers : call'[c] \in CallType
    BY Types, ExitEnds DEF SendType
  <2>2. call' = [c \in Callers |-> call'[c]]
    BY DEF Exit
  <2>3. QED
    BY <2>1, <2>2 DEF SendType, Exit
<1>2. TimerType'
  <2>1. armed' = {} /\ fired' = {} /\ waiting' = [m \in Matches |-> 0]
    BY DEF Exit
  <2>2. 0 \in 0..MaxWins
    BY ReporterAssumption
  <2>3. QED
    BY <2>1, <2>2 DEF TimerType
<1>3. ExitType'
  BY Types DEF Exit, ExitType
<1>4. OtherType'
  <2>1. unsure' \in [Matches -> BOOLEAN]
    BY Zenon DEF Exit
  <2>2. deciding' = {} /\ inflight' = 0 /\ UNCHANGED <<sends, owed>>
    BY DEF Exit
  <2>3. QED
    BY <2>1, <2>2, Types DEF OtherType
<1>5. QED
  BY <1>1, <1>2, <1>3, <1>4, Types, Stays, TypesNext DEF Exit

-----------------------------------------------------------------------------
(* Calls of send, the wire and the book.                                   *)

CallsInv == OneAtATime /\ WireInv /\ AnswersAreTrue /\ BookIsAnswered

(* What most steps do: they leave the calls, the book and what is recorded *)
(* as delivered alone, and a match may have been won with one score more.  *)
LEMMA CallsAlone ==
  ASSUME CallsInv, call' = call, holder' = holder, book' = book,
         \A m \in Matches : report'[m].done = report[m].done,
         \A m \in Matches : unsure'[m] = unsure[m],
         \A m \in Matches : won[m] \subseteq won'[m]
  PROVE  CallsInv'
<1>1. OneAtATime'
  BY DEF CallsInv, OneAtATime
<1>2. WireInv'
  BY DEF CallsInv, WireInv
<1>3. AnswersAreTrue'
  BY DEF CallsInv, AnswersAreTrue, Arrived
<1>4. BookIsAnswered'
  BY DEF CallsInv, BookIsAnswered
<1>5. QED
  BY <1>1, <1>2, <1>3, <1>4 DEF CallsInv

(* A call starts; it has to get `sending` first.                           *)
LEMMA CallsStart ==
  ASSUME CallsInv, NEW m \in Matches, NEW by \in {"now", "timer", "page", "flush"}, Call(m, by),
         SendType, UNCHANGED <<holder, book, unsure, won>>,
         \A k \in Matches : report'[k].done = report[k].done
  PROVE  CallsInv'
<1> PICK c \in Callers : call[c] = Idle /\ call' = [call EXCEPT ![c] = NewCall(m, by)]
  BY CallIsNew
<1>1. /\ call'[c].pc = "lock" /\ call'[c].by # NoCaller /\ call'[c].match = m /\ ~call'[c].wire
      /\ call'[c].answer = "none"
      /\ \A d \in Callers : d # c => call'[d] = call[d]
      /\ call[c].pc = "idle"
  BY DEF NewCall, SendType, NoCaller, Idle
<1>2. OneAtATime'
  BY <1>1 DEF CallsInv, OneAtATime
<1>3. WireInv'
  BY <1>1 DEF CallsInv, WireInv
<1>4. AnswersAreTrue'
  BY <1>1 DEF CallsInv, AnswersAreTrue, Arrived
<1>5. BookIsAnswered'
  BY <1>1 DEF CallsInv, BookIsAnswered
<1>6. QED
  BY <1>2, <1>3, <1>4, <1>5 DEF CallsInv

LEMMA BeginCalls ==
  ASSUME TypeOK, CallsInv, \A m \in Matches : game[m].over => game[m].score \in won[m],
         NEW c \in Callers, Begin(c)
  PROVE  CallsInv'
<1> DEFINE m == call[c].match
<1>1. /\ call \in [Callers -> CallType] /\ m \in Matches /\ call[c].pc = "lock"
      /\ call[c].by # NoCaller /\ ~call[c].wire
      /\ holder = NoCaller /\ NoCaller \notin Callers
      /\ UNCHANGED <<won, report, book, unsure>>
  BY Types, CallersAssumption DEF Begin, SendType, CallsInv, OneAtATime, WireInv, gameVars
<1>2. CASE NothingToSend(m)
  <2>1. /\ call'[c].pc = "idle" /\ call'[c].by = NoCaller /\ ~call'[c].wire
        /\ \A d \in Callers : d # c => call'[d] = call[d]
    BY <1>1, <1>2, FinishEnds DEF Begin
  <2>2. OneAtATime'
    BY <1>1, <2>1 DEF CallsInv, OneAtATime
  <2>3. WireInv'
    BY <1>1, <2>1 DEF CallsInv, WireInv
  <2>4. AnswersAreTrue'
    BY <1>1, <2>1 DEF CallsInv, AnswersAreTrue, Arrived
  <2>5. BookIsAnswered'
    BY <1>1, <2>1 DEF CallsInv, BookIsAnswered
  <2>6. QED
    BY <2>2, <2>3, <2>4, <2>5 DEF CallsInv
<1>3. CASE ~NothingToSend(m)
  <2>1. /\ call'[c].pc \in {"withhold", "post"} /\ call'[c].by # NoCaller /\ holder' = c
        /\ call'[c].match = m /\ call'[c].answer = call[c].answer
        /\ call'[c].wire => call'[c].pc = "post" /\ call'[c].score = game[m].score /\ game[m].over
        /\ \A d \in Callers : d # c => call'[d] = call[d]
    BY <1>1, <1>3 DEF Begin, CallType, Reopened
  <2>2. ~report[m].done /\ game[m].over => game[m].score \in won[m]
    BY <1>1, <1>3 DEF NothingToSend
  <2>3. \A d \in Callers : d # c => call[d].pc \notin {"withhold", "post"}
    BY <1>1 DEF CallsInv, OneAtATime
  <2>4. call[c].answer = "none"
    BY <1>1 DEF CallsInv, WireInv
  <2>5. OneAtATime'
    BY <1>1, <1>3, <2>1, <2>3 DEF CallsInv, OneAtATime, NothingToSend
  <2>6. WireInv'
    BY <1>1, <2>1, <2>2, <2>4 DEF CallsInv, WireInv
  <2>7. AnswersAreTrue'
    BY <1>1, <2>1, <2>3, <2>4 DEF CallsInv, AnswersAreTrue, Arrived
  <2>8. BookIsAnswered'
    BY <1>1, <2>1 DEF CallsInv, BookIsAnswered
  <2>9. QED
    BY <2>5, <2>6, <2>7, <2>8 DEF CallsInv
<1>4. QED
  BY <1>2, <1>3

LEMMA EndCalls ==
  ASSUME TypeOK, CallsInv, NEW c \in Callers, Withhold(c) \/ Record(c) \/ GiveUp(c)
  PROVE  CallsInv'
<1> DEFINE m == call[c].match
<1>1. /\ call \in [Callers -> CallType] /\ m \in Matches /\ call[c].pc \in {"withhold", "post"}
      /\ holder = c /\ unsure \in [Matches -> BOOLEAN]
      /\ Finish(c) /\ UNCHANGED <<won, book>>
      /\ call[c].pc = "post" => ~report[m].done
  BY Types DEF SendType, OtherType, CallsInv, OneAtATime, Withhold, Record, GiveUp, gameVars
<1>2. /\ call'[c].pc = "idle" /\ call'[c].by = NoCaller /\ call'[c].wire = call[c].wire
      /\ call[c].wire => /\ call'[c].match = m /\ call'[c].score = call[c].score
                         /\ call'[c].answer = call[c].answer
      /\ \A d \in Callers : d # c => call'[d] = call[d]
  BY <1>1, FinishEnds
<1>3. \A d \in Callers : d # c => call[d].pc \notin {"withhold", "post"}
  BY <1>1 DEF CallsInv, OneAtATime
<1>4. /\ \A k \in Matches : unsure[k] => unsure'[k]
      /\ GiveUp(c) => unsure'[m]
  BY <1>1 DEF Withhold, Record, GiveUp
<1>5. \A k \in Matches : report[k].done => report'[k].done
  BY <1>1, RecordEffect
<1>6. OneAtATime'
  BY <1>1, <1>2, <1>3 DEF CallsInv, OneAtATime
<1>7. WireInv'
  <2>1. call[c].wire => unsure'[m]
    <3>1. CASE Record(c) \/ Withhold(c)
      BY <3>1 DEF CallsInv, WireInv, Record, Withhold
    <3>2. QED
      BY <1>4, <3>1
  <2>2. QED
    BY <1>1, <1>2, <1>4, <2>1 DEF CallsInv, WireInv
<1>8. AnswersAreTrue'
  BY <1>1, <1>2 DEF CallsInv, AnswersAreTrue, Arrived
<1>9. BookIsAnswered'
  <2> SUFFICES ASSUME NEW k \in Matches, book[k] # <<>>, ~unsure[k], ~report[k].done
               PROVE  unsure'[k] \/ report'[k].done
    BY <1>1, <1>4, <1>5 DEF BookIsAnswered
  <2> PICK d \in Callers : call[d].pc = "post" /\ call[d].match = k /\ call[d].answer = "accepted"
    BY DEF CallsInv, BookIsAnswered
  <2>1. d = c /\ m = k /\ Arrived(c) /\ call[c].pc = "post"
    BY <1>3 DEF Arrived
  <2>2. CASE GiveUp(c)
    BY <1>4, <2>1, <2>2
  <2>3. CASE Record(c)
    BY <1>1, <2>1, <2>3, RecordEffect
  <2>4. QED
    BY <2>1, <2>2, <2>3 DEF Withhold
<1>10. QED
  BY <1>6, <1>7, <1>8, <1>9 DEF CallsInv

LEMMA AppendIsMore ==
  ASSUME NEW S, NEW s \in Seq(S), NEW e \in S
  PROVE  Append(s, e) # <<>>
<1>1. Len(s) \in Nat /\ Len(Append(s, e)) = Len(s) + 1 /\ Len(<<>>) = 0
  OBVIOUS
<1>2. QED
  BY <1>1

LEMMA RemoteCalls ==
  ASSUME TypeOK, CallsInv, NEW c \in Callers, Accept(c) \/ Conflict(c) \/ Refuse(c) \/ Vanish(c)
  PROVE  CallsInv'
<1> DEFINE m == call[c].match
<1>1. /\ call \in [Callers -> CallType] /\ m \in Matches /\ call[c].pc \in {"post", "idle"}
      /\ call[c].wire /\ call[c].score \in Scores
      /\ UNCHANGED <<won, holder, report, unsure>>
  BY Types DEF SendType, CallsInv, WireInv, GameType, Accept, Conflict, Refuse, Vanish, Rest,
               gameVars
<1>2. /\ ~call'[c].wire /\ call'[c].pc = call[c].pc /\ call'[c].by = call[c].by
      /\ call[c].pc = "post" => call'[c].match = m
      /\ \A d \in Callers : d # c => call'[d] = call[d]
  <2>1. call[c].pc = "idle" => call[c].by = NoCaller
    BY <1>1 DEF CallsInv, OneAtATime
  <2>2. Idle.pc = "idle" /\ Idle.by = NoCaller /\ ~Idle.wire
    BY DEF Idle
  <2>3. CASE Vanish(c)
    BY <1>1, <2>1, <2>2, <2>3 DEF Vanish
  <2>4. CASE Accept(c) \/ Conflict(c) \/ Refuse(c)
    BY <1>1, <2>1, <2>2, <2>4, AnsweredEnds DEF Accept, Conflict, Refuse
  <2>5. QED
    BY <2>3, <2>4
<1>3. \A k \in Matches : book[k] # <<>> => book'[k] # <<>>
  <2>1. CASE Accept(c)
    <3>1. book \in [Matches -> Seq(Scores)] /\ book[m] \in Seq(Scores)
      BY <1>1, Types DEF BookType
    <3>2. Append(book[m], call[c].score) # <<>>
      BY <1>1, <3>1, AppendIsMore
    <3>3. QED
      BY <2>1, <3>1, <3>2 DEF Accept
  <2>2. QED
    BY <2>1 DEF Conflict, Refuse, Vanish
<1>4. OneAtATime'
  BY <1>1, <1>2 DEF CallsInv, OneAtATime
<1>5. WireInv'
  BY <1>1, <1>2 DEF CallsInv, WireInv
<1>6. call[c].pc = "post" /\ Arrived(c)' => book'[m] # <<>>
  <2>1. CASE Accept(c)
    <3>1. book \in [Matches -> Seq(Scores)] /\ book[m] \in Seq(Scores)
      BY <1>1, Types DEF BookType
    <3>2. Append(book[m], call[c].score) # <<>>
      BY <1>1, <3>1, AppendIsMore
    <3>3. book' = [book EXCEPT ![m] = Append(book[m], call[c].score)]
      BY <2>1 DEF Accept
    <3>4. book'[m] # <<>>
      BY <1>1, <3>1, <3>2, <3>3
    <3>5. QED
      BY <3>4
  <2>2. CASE Conflict(c)
    BY <1>1, <1>3, <2>2 DEF Conflict
  <2>3. CASE Refuse(c)
    BY <1>1, <1>2, <2>3, AnsweredEnds DEF Refuse, Arrived
  <2>4. QED
    BY <1>1, <2>1, <2>2, <2>3 DEF Vanish
<1>7. AnswersAreTrue'
  <2> SUFFICES ASSUME NEW d \in Callers, call'[d].pc = "post", Arrived(d)'
               PROVE  book'[call'[d].match] # <<>>
    BY DEF AnswersAreTrue
  <2>1. CASE d = c
    BY <1>1, <1>2, <1>6, <2>1
  <2>2. CASE d # c
    <3>1. call'[d] = call[d]
      BY <1>2, <2>2
    <3>2. Arrived(d) /\ call[d].pc = "post" /\ call[d].match \in Matches
      BY <3>1 DEF Arrived, CallsInv, OneAtATime
    <3>3. book[call[d].match] # <<>>
      BY <3>2 DEF CallsInv, AnswersAreTrue
    <3>4. QED
      BY <1>3, <3>1, <3>2, <3>3
  <2>3. QED
    BY <2>1, <2>2
<1>8. BookIsAnswered'
  <2> SUFFICES ASSUME NEW k \in Matches, book'[k] # <<>>, ~unsure[k], ~report[k].done
               PROVE  \E d \in Callers : call'[d].pc = "post" /\ call'[d].match = k
                                         /\ call'[d].answer = "accepted"
    BY <1>1 DEF BookIsAnswered
  <2>1. CASE book[k] # <<>>
    <3> PICK d \in Callers : call[d].pc = "post" /\ call[d].match = k /\ call[d].answer = "accepted"
      BY <2>1 DEF CallsInv, BookIsAnswered
    <3>1. d # c
      BY <1>1 DEF CallsInv, WireInv
    <3>2. QED
      BY <1>2, <3>1
  <2>2. CASE book[k] = <<>>
    <3>1. Accept(c) /\ k = m
      BY <1>1, <2>2, Types DEF Accept, Conflict, Refuse, Vanish, BookType
    <3>2. call[c].pc = "post"
      BY <1>1, <3>1 DEF CallsInv, WireInv
    <3>3. call'[c].answer = "accepted"
      BY <1>1, <3>1, <3>2, AnsweredEnds DEF Accept
    <3>4. QED
      BY <1>2, <3>1, <3>2, <3>3
  <2>3. QED
    BY <2>1, <2>2
<1>9. QED
  BY <1>4, <1>5, <1>7, <1>8 DEF CallsInv

LEMMA ExitCalls ==
  ASSUME TypeOK, CallsInv, Exit
  PROVE  CallsInv'
<1>1. /\ call \in [Callers -> CallType] /\ UNCHANGED <<won, report, book>>
  BY Types DEF SendType, Exit, gameVars
<1>2. \A c \in Callers :
        /\ call'[c].pc = "idle" /\ call'[c].by = NoCaller /\ call'[c].wire = call[c].wire
        /\ call[c].wire => /\ call'[c].match = call[c].match /\ call'[c].score = call[c].score
                           /\ call'[c].answer = call[c].answer
  BY <1>1, ExitEnds
<1>3. \A k \in Matches :
        /\ unsure[k] => unsure'[k]
        /\ \A c \in Callers : call[c].pc = "post" /\ call[c].match = k => unsure'[k]
  BY DEF Exit
<1>4. OneAtATime'
  BY <1>2 DEF OneAtATime
<1>5. WireInv'
  BY <1>1, <1>2, <1>3 DEF CallsInv, WireInv
<1>6. AnswersAreTrue'
  BY <1>2 DEF AnswersAreTrue
<1>7. BookIsAnswered'
  BY <1>1, <1>3 DEF CallsInv, BookIsAnswered
<1>8. QED
  BY <1>4, <1>5, <1>6, <1>7 DEF CallsInv

-----------------------------------------------------------------------------
(* Timers.                                                                 *)

TimersInv == EntriesInv /\ TimersAccounted

(* Per match: what the two say of its timers, without EntryOf.             *)
LEMMA TimersOf ==
  ASSUME TimerType
  PROVE  TimersAccounted <=>
           /\ armed \cap fired = {}
           /\ \A m \in Matches, n \in 1..MaxWins : <<m, n>> \in armed => waiting[m] = n
           /\ \A m \in Matches : waiting[m] # 0 => <<m, waiting[m]>> \in armed \cup fired
<1>1. \A x \in armed : \E m \in Matches, n \in 1..MaxWins : x = <<m, n>>
  BY DEF TimerType, Timers
<1>2. \A m \in Matches, n \in 1..MaxWins :
        (\E k \in Matches : <<m, n>> \in EntryOf(k)) <=> waiting[m] = n
  <2> SUFFICES ASSUME NEW m \in Matches, NEW n \in 1..MaxWins
               PROVE  (\E k \in Matches : <<m, n>> \in EntryOf(k)) <=> waiting[m] = n
    OBVIOUS
  <2>1. n # 0
    BY ReporterAssumption
  <2>2. QED
    BY <2>1 DEF EntryOf
<1>3. (armed \subseteq UNION {EntryOf(k) : k \in Matches}) <=>
      \A m \in Matches, n \in 1..MaxWins : <<m, n>> \in armed => waiting[m] = n
  BY <1>1, <1>2
<1>4. (\A m \in Matches : EntryOf(m) \subseteq armed \cup fired) <=>
      \A m \in Matches : waiting[m] # 0 => <<m, waiting[m]>> \in armed \cup fired
  BY DEF EntryOf
<1>5. QED
  BY <1>3, <1>4 DEF TimersAccounted

TimersStand ==
  /\ armed \cap fired = {}
  /\ \A m \in Matches, n \in 1..MaxWins : <<m, n>> \in armed => waiting[m] = n
  /\ \A m \in Matches : waiting[m] # 0 => <<m, waiting[m]>> \in armed \cup fired

LEMMA TimersOfNext ==
  ASSUME TimerType', TimersStand'
  PROVE  TimersAccounted'
<1>1. \A x \in armed' : \E m \in Matches, n \in 1..MaxWins : x = <<m, n>>
  BY DEF TimerType, Timers
<1>2. \A m \in Matches, n \in 1..MaxWins : waiting'[m] = n => <<m, n>> \in EntryOf(m)'
  <2> SUFFICES ASSUME NEW m \in Matches, NEW n \in 1..MaxWins, waiting'[m] = n
               PROVE  <<m, n>> \in EntryOf(m)'
    OBVIOUS
  <2>1. n # 0
    BY ReporterAssumption
  <2>2. QED
    BY <2>1 DEF EntryOf
<1>3. (armed \subseteq UNION {EntryOf(k) : k \in Matches})'
  BY <1>1, <1>2 DEF TimersStand
<1>4. (\A m \in Matches : EntryOf(m) \subseteq armed \cup fired)'
  BY DEF EntryOf, TimersStand
<1>5. QED
  BY <1>3, <1>4 DEF TimersAccounted, TimersStand

(* What a withdrawn entry leaves behind.                                   *)
LEMMA ArmedLeft ==
  ASSUME TimersInv, TimerType, NEW m \in Matches
  PROVE  \A k \in Matches, n \in 1..MaxWins :
           <<k, n>> \in ArmedWithout(m) <=> <<k, n>> \in armed /\ k # m
<1> SUFFICES ASSUME NEW k \in Matches, NEW n \in 1..MaxWins
             PROVE  <<k, n>> \in ArmedWithout(m) <=> <<k, n>> \in armed /\ k # m
  OBVIOUS
<1>1. n # 0
  BY ReporterAssumption
<1>2. <<k, n>> \in armed => waiting[k] = n
  BY TimersOf DEF TimersInv
<1>3. QED
  BY <1>1, <1>2 DEF ArmedWithout, EntryOf

LEMMA TimersAlone ==
  ASSUME TimersInv, TimerType, UNCHANGED timerVars, UNCHANGED <<game, wins, won>>,
         deciding' \subseteq deciding, flush' = flush \/ flush # "no"
  PROVE  TimersInv'
<1>1. TimersStand' /\ TimerType'
  BY TimersOf, Stays DEF TimersInv, TimersStand, timerVars
<1>2. EntriesInv'
  BY DEF TimersInv, EntriesInv, timerVars
<1>3. QED
  BY <1>1, <1>2, TimersOfNext DEF TimersInv

LEMMA WinTimers ==
  ASSUME TypeOK, TimersInv, NEW m \in Matches, NEW s \in Scores, Win(m, s)
  PROVE  TimersInv'
<1>1. /\ GameType /\ TimerType /\ deciding \subseteq Matches
      /\ UNCHANGED timerVars /\ flush' = flush /\ ~game[m].over /\ m \notin deciding
      /\ deciding' \subseteq deciding \cup {m}
  BY Types DEF OtherType, Win, exitVars
<1>2. /\ game' = [game EXCEPT ![m] = [over |-> TRUE, score |-> s]]
      /\ wins' = [wins EXCEPT ![m] = @ + 1]
      /\ won' = [won EXCEPT ![m] = @ \cup {s}]
  BY DEF Win
<1>3. TimersStand' /\ TimerType'
  BY <1>1, TimersOf, Stays DEF TimersInv, TimersStand, timerVars
<1>4. \A k \in Matches : k # m => game'[k] = game[k] /\ wins'[k] = wins[k] /\ won'[k] = won[k]
  BY <1>1, <1>2 DEF GameType
<1>5. /\ game'[m].over /\ game'[m].score = s /\ s \in won'[m]
      /\ wins[m] \in Nat /\ wins'[m] = wins[m] + 1 /\ waiting[m] = 0
  BY <1>1, <1>2, ReporterAssumption DEF GameType, TimersInv, EntriesInv
<1>6. EntriesInv'
  <2> SUFFICES ASSUME NEW k \in Matches
               PROVE  /\ game'[k].over => game'[k].score \in won'[k]
                      /\ waiting[k] # 0 =>
                           waiting[k] = wins'[k] /\ game'[k].over /\ flush = "no"
                      /\ k \in deciding' => waiting[k] = 0 /\ wins'[k] > 0 /\ game'[k].over
                      /\ \A n \in 1..MaxWins : <<k, n>> \in armed \cup fired =>
                           n <= wins'[k] /\ (k \in deciding' => n < wins'[k])
    BY <1>1 DEF EntriesInv, timerVars
  <2>1. CASE k # m
    BY <1>1, <1>4, <2>1 DEF TimersInv, EntriesInv
  <2>2. CASE k = m
    <3>1. \A n \in 1..MaxWins : <<m, n>> \in armed \cup fired => n <= wins[m]
      BY DEF TimersInv, EntriesInv
    <3>2. \A n \in 1..MaxWins : n <= wins[m] => n <= wins'[m] /\ n < wins'[m]
      BY <1>5
    <3>3. QED
      BY <1>5, <2>2, <3>1, <3>2
  <2>3. QED
    BY <2>1, <2>2
<1>7. QED
  BY <1>3, <1>6, TimersOfNext DEF TimersInv

LEMMA ScheduleTimers ==
  ASSUME TypeOK, TimersInv, NEW m \in Matches, Schedule(m)
  PROVE  TimersInv'
<1>1. /\ GameType /\ TimerType /\ UNCHANGED <<gameVars, exitVars>>
      /\ m \in deciding /\ deciding' = deciding \ {m}
      /\ wins[m] \in 1..MaxWins /\ wins[m] # 0 /\ waiting[m] = 0 /\ game[m].over
  <2>1. wins[m] \in 0..MaxWins /\ wins[m] > 0 /\ waiting[m] = 0 /\ game[m].over
    BY Types DEF GameType, Schedule, TimersInv, EntriesInv
  <2>2. QED
    BY <2>1, Types, ReporterAssumption DEF Schedule
<1>2. CASE Grace /\ ~Closed
  <2>1. /\ waiting' = [waiting EXCEPT ![m] = wins[m]]
        /\ armed' = ArmedWithout(m) \cup {<<m, wins[m]>>} /\ fired' = fired
        /\ flush = "no"
    BY <1>2 DEF Schedule, Closed
  <2>2. /\ TimerType' /\ \A k \in Matches : k # m => waiting'[k] = waiting[k]
        /\ waiting'[m] = wins[m]
    BY <1>1, <2>1, ReporterAssumption DEF TimerType, Timers, ArmedWithout
  <2>3. \A k \in Matches, n \in 1..MaxWins :
          <<k, n>> \in armed' <=> (<<k, n>> \in armed /\ k # m) \/ (k = m /\ n = wins[m])
    BY <1>1, <2>1, ArmedLeft
  <2>4. \A n \in 1..MaxWins : <<m, n>> \in armed \cup fired => n <= wins[m] /\ n < wins[m]
    BY <1>1 DEF TimersInv, EntriesInv
  <2>5. TimersStand'
    <3>1. armed' \cap fired' = {}
      <4>1. <<m, wins[m]>> \notin fired
        BY <1>1, <2>4
      <4>2. QED
        BY <2>1, <4>1, TimersOf, <1>1 DEF TimersInv, ArmedWithout
    <3>2. \A k \in Matches, n \in 1..MaxWins : <<k, n>> \in armed' => waiting'[k] = n
      BY <1>1, <2>2, <2>3, TimersOf DEF TimersInv
    <3>3. \A k \in Matches : waiting'[k] # 0 => <<k, waiting'[k]>> \in armed' \cup fired'
      <4> SUFFICES ASSUME NEW k \in Matches, waiting'[k] # 0, k # m
                   PROVE  <<k, waiting'[k]>> \in armed' \cup fired'
        BY <2>1, <2>2
      <4>1. waiting[k] \in 1..MaxWins /\ waiting'[k] = waiting[k]
        BY <1>1, <2>2, ReporterAssumption DEF TimerType
      <4>2. <<k, waiting[k]>> \in armed \cup fired
        BY <1>1, <4>1, TimersOf, <2>2 DEF TimersInv
      <4>3. QED
        BY <2>1, <2>3, <4>1, <4>2
    <3>4. QED
      BY <3>1, <3>2, <3>3 DEF TimersStand
  <2>6. EntriesInv'
    <3> SUFFICES ASSUME NEW k \in Matches
                 PROVE  /\ game[k].over => game[k].score \in won[k]
                        /\ waiting'[k] # 0 =>
                             waiting'[k] = wins[k] /\ game[k].over /\ flush = "no"
                        /\ k \in deciding' => waiting'[k] = 0 /\ wins[k] > 0 /\ game[k].over
                        /\ \A n \in 1..MaxWins : <<k, n>> \in armed' \cup fired' =>
                             n <= wins[k] /\ (k \in deciding' => n < wins[k])
      BY <1>1 DEF EntriesInv, gameVars, exitVars
    <3>1. CASE k # m
      BY <1>1, <2>1, <2>2, <2>3, <3>1 DEF TimersInv, EntriesInv
    <3>2. CASE k = m
      <4>1. \A n \in 1..MaxWins : <<m, n>> \in armed' \cup fired' => n <= wins[m]
        BY <1>1, <2>1, <2>3, <2>4
      <4>2. game[m].over => game[m].score \in won[m]
        BY DEF TimersInv, EntriesInv
      <4>3. QED
        BY <1>1, <2>1, <2>2, <3>2, <4>1, <4>2
    <3>3. QED
      BY <3>1, <3>2
  <2>7. QED
    BY <2>2, <2>5, <2>6, TimersOfNext DEF TimersInv
<1>3. CASE ~(Grace /\ ~Closed)
  <2>1. UNCHANGED timerVars
    BY <1>3 DEF Schedule
  <2>2. QED
    BY <1>1, <2>1, TimersAlone DEF gameVars, exitVars
<1>4. QED
  BY <1>2, <1>3

LEMMA WithdrawTimers ==
  ASSUME TypeOK, TimersInv, NEW m \in Matches, Undo(m) \/ PageSend(m)
  PROVE  TimersInv'
<1>1. /\ GameType /\ TimerType /\ UNCHANGED <<deciding, wins, won, exitVars>>
      /\ Undo(m) => m \notin deciding
      /\ game' = game \/ (Undo(m) /\ game' = [game EXCEPT ![m] = [over |-> FALSE, score |-> NoScore]])
  BY Types DEF Undo, PageSend, gameVars
<1>2. /\ waiting' = [waiting EXCEPT ![m] = 0] /\ armed' = ArmedWithout(m) /\ fired' = fired
  BY DEF Undo, PageSend, Withdraw
<1>3. /\ TimerType' /\ waiting'[m] = 0 /\ \A k \in Matches : k # m => waiting'[k] = waiting[k]
  BY <1>1, <1>2, ReporterAssumption DEF TimerType, ArmedWithout
<1>4. \A k \in Matches, n \in 1..MaxWins : <<k, n>> \in armed' <=> <<k, n>> \in armed /\ k # m
  BY <1>1, <1>2, ArmedLeft
<1>5. TimersStand'
  <2>1. armed' \cap fired' = {}
    BY <1>1, <1>2, TimersOf DEF TimersInv, ArmedWithout
  <2>2. \A k \in Matches, n \in 1..MaxWins : <<k, n>> \in armed' => waiting'[k] = n
    BY <1>1, <1>3, <1>4, TimersOf DEF TimersInv
  <2>3. \A k \in Matches : waiting'[k] # 0 => <<k, waiting'[k]>> \in armed' \cup fired'
    <3> SUFFICES ASSUME NEW k \in Matches, waiting'[k] # 0
                 PROVE  <<k, waiting'[k]>> \in armed' \cup fired'
      OBVIOUS
    <3>1. k # m /\ waiting'[k] = waiting[k] /\ waiting[k] \in 1..MaxWins
      BY <1>1, <1>3, ReporterAssumption DEF TimerType
    <3>2. <<k, waiting[k]>> \in armed \cup fired
      BY <1>1, <3>1, TimersOf DEF TimersInv
    <3>3. QED
      BY <1>2, <1>4, <3>1, <3>2
  <2>4. QED
    BY <2>1, <2>2, <2>3 DEF TimersStand
<1>6. EntriesInv'
  <2> SUFFICES ASSUME NEW k \in Matches
               PROVE  /\ game'[k].over => game'[k].score \in won[k]
                      /\ waiting'[k] # 0 =>
                           waiting'[k] = wins[k] /\ game'[k].over /\ flush = "no"
                      /\ k \in deciding => waiting'[k] = 0 /\ wins[k] > 0 /\ game'[k].over
                      /\ \A n \in 1..MaxWins : <<k, n>> \in armed' \cup fired' =>
                           n <= wins[k] /\ (k \in deciding => n < wins[k])
    BY <1>1 DEF EntriesInv, exitVars
  <2>1. \A n \in 1..MaxWins : <<k, n>> \in armed' \cup fired' =>
          n <= wins[k] /\ (k \in deciding => n < wins[k])
    BY <1>2, <1>4 DEF TimersInv, EntriesInv
  <2>2. CASE k # m
    <3>1. game'[k] = game[k]
      BY <1>1, <2>2 DEF GameType
    <3>2. QED
      BY <1>3, <2>1, <2>2, <3>1 DEF TimersInv, EntriesInv
  <2>3. CASE k = m
    <3>1. game'[m] = game[m] \/ (~game'[m].over /\ m \notin deciding)
      BY <1>1 DEF GameType
    <3>2. QED
      BY <1>3, <2>1, <2>3, <3>1 DEF TimersInv, EntriesInv
  <2>4. QED
    BY <2>2, <2>3
<1>7. QED
  BY <1>3, <1>5, <1>6, TimersOfNext DEF TimersInv

LEMMA RunOutTimers ==
  ASSUME TypeOK, TimersInv, NEW m \in Matches, NEW n \in 1..MaxWins, RunOut(m, n)
  PROVE  TimersInv'
<1>1. /\ TimerType /\ TimersStand /\ UNCHANGED <<deciding, gameVars, waiting, exitVars>>
      /\ <<m, n>> \in armed /\ armed' = armed \ {<<m, n>>} /\ fired' = fired \cup {<<m, n>>}
  BY Types, TimersOf DEF RunOut, TimersInv, TimersStand
<1>2. armed' \cup fired' = armed \cup fired
  BY <1>1
<1>3. TimersStand' /\ TimerType'
  BY <1>1, <1>2, RunOutType, Types DEF TimersStand, TypeOK, TimerType
<1>4. EntriesInv'
  BY <1>1, <1>2 DEF TimersInv, EntriesInv, gameVars, exitVars
<1>5. QED
  BY <1>3, <1>4, TimersOfNext DEF TimersInv

LEMMA FireTimers ==
  ASSUME TypeOK, TimersInv, NEW m \in Matches, NEW n \in 1..MaxWins, Fire(m, n)
  PROVE  TimersInv'
<1>1. /\ TimerType /\ TimersStand /\ UNCHANGED <<deciding, gameVars, armed, exitVars>>
      /\ <<m, n>> \in fired /\ fired' = fired \ {<<m, n>>} /\ n # 0
  BY Types, TimersOf, ReporterAssumption DEF Fire, TimersInv, TimersStand
<1>2. \/ waiting[m] = n /\ waiting' = [waiting EXCEPT ![m] = 0]
      \/ waiting[m] # n /\ waiting' = waiting
  BY DEF Fire, Mine
<1>3. /\ TimerType' /\ \A k \in Matches : waiting'[k] \in {waiting[k], 0}
      /\ \A k \in Matches : k # m => waiting'[k] = waiting[k]
      /\ waiting'[m] # n
  BY <1>1, <1>2, ReporterAssumption DEF TimerType
<1>4. TimersStand'
  <2>1. \A k \in Matches, i \in 1..MaxWins : <<k, i>> \in armed' => waiting'[k] = i
    <3> SUFFICES ASSUME NEW k \in Matches, NEW i \in 1..MaxWins, <<k, i>> \in armed
                 PROVE  waiting'[k] = i
      BY <1>1
    <3>1. waiting[k] = i
      BY <1>1 DEF TimersStand
    <3>2. <<k, i>> # <<m, n>>
      BY <1>1 DEF TimersStand
    <3>3. QED
      BY <1>1, <1>2, <3>1, <3>2 DEF TimerType
  <2>2. \A k \in Matches : waiting'[k] # 0 => <<k, waiting'[k]>> \in armed' \cup fired'
    <3> SUFFICES ASSUME NEW k \in Matches, waiting'[k] # 0
                 PROVE  <<k, waiting'[k]>> \in armed' \cup fired'
      OBVIOUS
    <3>1. waiting'[k] = waiting[k] /\ <<k, waiting'[k]>> # <<m, n>>
      BY <1>3
    <3>2. QED
      BY <1>1, <3>1 DEF TimersStand
  <2>3. QED
    BY <1>1, <2>1, <2>2 DEF TimersStand
<1>5. EntriesInv'
  BY <1>1, <1>3 DEF TimersInv, EntriesInv, gameVars, exitVars
<1>6. QED
  BY <1>3, <1>4, <1>5, TimersOfNext DEF TimersInv

LEMMA NoEntryTimers ==
  ASSUME TypeOK, TimersInv, FlushBegin \/ Exit
  PROVE  TimersInv'
<1>1. /\ waiting' = [m \in Matches |-> 0] /\ armed' = {} /\ fired' \in {fired, {}}
      /\ UNCHANGED gameVars /\ deciding' \in {deciding, {}}
  BY DEF FlushBegin, Exit
<1>2. TimerType' /\ TimersStand'
  <2>1. TimerType /\ 0 \in 0..MaxWins
    BY Types, ReporterAssumption
  <2>2. QED
    BY <1>1, <2>1 DEF TimerType, TimersStand
<1>3. EntriesInv'
  BY <1>1 DEF TimersInv, EntriesInv, gameVars
<1>4. QED
  BY <1>2, <1>3, TimersOfNext DEF TimersInv

-----------------------------------------------------------------------------
(* The counter.                                                            *)

CountsInv == CountedInv /\ InflightExact

Sum == Cardinality(armed) + Cardinality(fired) + Cardinality(toFlush) + Cardinality(Counted)

LEMMA InflightIsSum == InflightExact <=> inflight = Sum
BY DEF InflightExact, Sum, Counted

LEMMA InflightIsSumNext ==
  ASSUME inflight' = Cardinality(armed') + Cardinality(fired') + Cardinality(toFlush')
                     + Cardinality(Counted')
  PROVE  InflightExact'
BY DEF InflightExact, Counted

(* A call counted more, a call counted less.                               *)
LEMMA CountedStart ==
  ASSUME SendType, NEW m, NEW by \in {"now", "timer", "page", "flush"}, Call(m, by),
         IsFiniteSet(Counted)
  PROVE  /\ IsFiniteSet(Counted')
         /\ Cardinality(Counted') = IF by = "page" THEN Cardinality(Counted)
                                    ELSE Cardinality(Counted) + 1
<1> PICK c \in Callers : call[c] = Idle /\ call' = [call EXCEPT ![c] = NewCall(m, by)]
  BY CallIsNew
<1>1. call'[c].by = by /\ \A d \in Callers : d # c => call'[d] = call[d]
  BY DEF SendType, NewCall
<1>2. c \notin Counted
  BY DEF Counted, Idle, NoCaller
<1>3. Counted' = IF by = "page" THEN Counted ELSE Counted \cup {c}
  BY <1>1, <1>2 DEF Counted
<1>4. QED
  BY <1>2, <1>3, FS_AddElement

LEMMA CountedEnd ==
  ASSUME SendType, NEW c \in Callers, call[c].by # NoCaller, Finish(c), IsFiniteSet(Counted)
  PROVE  /\ IsFiniteSet(Counted')
         /\ Cardinality(Counted') = IF call[c].by = "page" THEN Cardinality(Counted)
                                    ELSE Cardinality(Counted) - 1
<1>1. call'[c].by = NoCaller /\ \A d \in Callers : d # c => call'[d] = call[d]
  BY FinishEnds DEF SendType
<1>2. call[c].by = "page" \/ c \in Counted
  BY DEF SendType, CallType, Counted
<1>3. c \in Counted => call[c].by # "page"
  BY DEF Counted
<1>4. Counted' = Counted \ {c}
  BY <1>1 DEF Counted, NoCaller
<1>5. QED
  BY <1>2, <1>3, <1>4, FS_RemoveElement

LEMMA ArmedCount ==
  ASSUME IsFiniteSet(armed), NEW m \in Matches
  PROVE  /\ IsFiniteSet(ArmedWithout(m)) /\ Cardinality(ArmedWithout(m)) \in Nat
         /\ Cardinality(ArmedWithout(m)) = Cardinality(armed) - Stopped(m)
<1>1. CASE EntryOf(m) # {} /\ EntryOf(m) \subseteq armed
  <2>1. Stopped(m) = 1
    BY <1>1, StoppedIsOne
  <2>2. ArmedWithout(m) = armed \ {<<m, waiting[m]>>} /\ <<m, waiting[m]>> \in armed
    BY <1>1 DEF ArmedWithout, EntryOf
  <2>3. QED
    BY <2>1, <2>2, FS_RemoveElement, FS_CardinalityType
<1>2. CASE ~(EntryOf(m) # {} /\ EntryOf(m) \subseteq armed)
  <2>1. Stopped(m) = 0
    BY <1>2, StoppedIsOne
  <2>2. ArmedWithout(m) = armed
    BY <1>2 DEF ArmedWithout, EntryOf
  <2>3. QED
    BY <2>1, <2>2, FS_CardinalityType
<1>3. QED
  BY <1>1, <1>2

LEMMA CountsType ==
  ASSUME TypeOK, CountsInv
  PROVE  /\ IsFiniteSet(armed) /\ IsFiniteSet(fired) /\ IsFiniteSet(toFlush)
         /\ IsFiniteSet(Counted)
         /\ Cardinality(armed) \in Nat /\ Cardinality(fired) \in Nat
         /\ Cardinality(toFlush) \in Nat /\ Cardinality(Counted) \in Nat
         /\ inflight \in Int
         /\ inflight = Cardinality(armed) + Cardinality(fired) + Cardinality(toFlush)
                       + Cardinality(Counted)
BY Types, InflightIsSum, FS_CardinalityType DEF CountsInv, CountedInv, OtherType, Sum

LEMMA CountsAlone ==
  ASSUME TypeOK, CountsInv, UNCHANGED <<armed, fired, toFlush, inflight>>, Counted' = Counted,
         flush' = flush \/ toFlush = {}
  PROVE  CountsInv'
<1>1. CountedInv'
  BY DEF CountsInv, CountedInv
<1>2. InflightExact'
  BY CountsType, InflightIsSumNext
<1>3. QED
  BY <1>1, <1>2 DEF CountsInv

LEMMA ScheduleCounts ==
  ASSUME TypeOK, CountsInv, TimersInv, NEW m \in Matches, Schedule(m)
  PROVE  CountsInv'
<1>1. toFlush' = toFlush /\ flush' = flush /\ fired' = fired
  BY DEF Schedule, exitVars, timerVars
<1>2. CASE Grace /\ ~Closed
  <2>1. /\ armed' = ArmedWithout(m) \cup {<<m, wins[m]>>}
        /\ inflight' = inflight - Stopped(m) + 1 /\ call' = call
    BY <1>2 DEF Schedule, sendVars
  <2>2. <<m, wins[m]>> \notin armed
    <3>1. wins[m] \in 1..MaxWins
      BY Types, ReporterAssumption DEF Schedule, TimersInv, EntriesInv, GameType
    <3>2. QED
      BY <3>1 DEF Schedule, TimersInv, EntriesInv
  <2>3. /\ IsFiniteSet(armed') /\ Cardinality(ArmedWithout(m)) \in Nat
        /\ Cardinality(armed') = Cardinality(ArmedWithout(m)) + 1
        /\ Cardinality(ArmedWithout(m)) = Cardinality(armed) - Stopped(m)
    BY <2>1, <2>2, ArmedCount, CountsType, FS_AddElement DEF ArmedWithout
  <2>4. Counted' = Counted
    BY <2>1 DEF Counted
  <2>5. CountedInv'
    BY <1>1, <2>3, <2>4 DEF CountsInv, CountedInv
  <2>6. InflightExact'
    <3>1. Stopped(m) \in Int
      BY StoppedIsOne
    <3>2. QED
      BY <1>1, <2>1, <2>3, <2>4, <3>1, CountsType, InflightIsSumNext
  <2>7. QED
    BY <2>5, <2>6 DEF CountsInv
<1>3. CASE ~(Grace /\ ~Closed)
  <2>1. armed' = armed /\ Call(m, "now") /\ inflight' = inflight + 1
    BY <1>3 DEF Schedule, timerVars
  <2>2. IsFiniteSet(Counted') /\ Cardinality(Counted') = Cardinality(Counted) + 1
    BY <2>1, CountedStart, CountsType, Types
  <2>3. CountedInv'
    BY <1>1, <2>1, <2>2 DEF CountsInv, CountedInv
  <2>4. InflightExact'
    BY <1>1, <2>1, <2>2, CountsType, InflightIsSumNext
  <2>5. QED
    BY <2>3, <2>4 DEF CountsInv
<1>4. QED
  BY <1>2, <1>3

LEMMA WithdrawCounts ==
  ASSUME TypeOK, CountsInv, NEW m \in Matches, Undo(m) \/ PageSend(m)
  PROVE  CountsInv'
<1>1. /\ toFlush' = toFlush /\ flush' = flush /\ fired' = fired
      /\ armed' = ArmedWithout(m) /\ inflight' = inflight - Stopped(m)
  BY DEF Undo, PageSend, Withdraw, exitVars
<1>2. /\ IsFiniteSet(armed') /\ Cardinality(armed') \in Nat
      /\ Cardinality(armed') = Cardinality(armed) - Stopped(m)
  BY <1>1, ArmedCount, CountsType
<1>3. IsFiniteSet(Counted') /\ Cardinality(Counted') = Cardinality(Counted)
  <2>1. CASE Undo(m)
    BY <2>1, CountsType DEF Undo, Counted, sendVars
  <2>2. CASE PageSend(m)
    BY <2>2, CountedStart, CountsType, Types DEF PageSend
  <2>3. QED
    BY <2>1, <2>2
<1>4. CountedInv'
  BY <1>1, <1>2, <1>3 DEF CountsInv, CountedInv
<1>5. Stopped(m) \in Int
  BY StoppedIsOne
<1>6. InflightExact'
  BY <1>1, <1>2, <1>3, <1>5, CountsType, InflightIsSumNext
<1>7. QED
  BY <1>4, <1>6 DEF CountsInv

LEMMA RunOutCounts ==
  ASSUME TypeOK, CountsInv, TimersInv, NEW m \in Matches, NEW n \in 1..MaxWins, RunOut(m, n)
  PROVE  CountsInv'
<1>1. /\ UNCHANGED <<toFlush, flush, inflight, call>>
      /\ <<m, n>> \in armed /\ armed' = armed \ {<<m, n>>} /\ fired' = fired \cup {<<m, n>>}
  BY DEF RunOut, exitVars, sendVars
<1>2. <<m, n>> \notin fired
  BY <1>1 DEF TimersInv, TimersAccounted
<1>3. /\ IsFiniteSet(armed') /\ Cardinality(armed') = Cardinality(armed) - 1
      /\ IsFiniteSet(fired') /\ Cardinality(fired') = Cardinality(fired) + 1
  BY <1>1, <1>2, CountsType, FS_AddElement, FS_RemoveElement
<1>4. Counted' = Counted
  BY <1>1 DEF Counted
<1>5. CountedInv'
  BY <1>1, <1>3, <1>4 DEF CountsInv, CountedInv
<1>6. InflightExact'
  BY <1>1, <1>3, <1>4, CountsType, InflightIsSumNext
<1>7. QED
  BY <1>5, <1>6 DEF CountsInv

LEMMA FireCounts ==
  ASSUME TypeOK, CountsInv, NEW m \in Matches, NEW n \in 1..MaxWins, Fire(m, n)
  PROVE  CountsInv'
<1>1. /\ UNCHANGED <<toFlush, flush, armed>>
      /\ <<m, n>> \in fired /\ fired' = fired \ {<<m, n>>}
  BY DEF Fire, exitVars
<1>2. IsFiniteSet(fired') /\ Cardinality(fired') = Cardinality(fired) - 1
  BY <1>1, CountsType, FS_RemoveElement
<1>3. /\ IsFiniteSet(Counted')
      /\ \/ inflight' = inflight /\ Cardinality(Counted') = Cardinality(Counted) + 1
         \/ inflight' = inflight - 1 /\ Cardinality(Counted') = Cardinality(Counted)
  <2>1. CASE Mine(m, n)
    BY <2>1, CountedStart, CountsType, Types DEF Fire
  <2>2. CASE ~Mine(m, n)
    BY <2>2, CountsType DEF Fire, Counted
  <2>3. QED
    BY <2>1, <2>2
<1>4. CountedInv'
  BY <1>1, <1>2, <1>3 DEF CountsInv, CountedInv
<1>5. InflightExact'
  BY <1>1, <1>2, <1>3, CountsType, InflightIsSumNext
<1>6. QED
  BY <1>4, <1>5 DEF CountsInv

LEMMA EndCounts ==
  ASSUME TypeOK, CountsInv, OneAtATime, NEW c \in Callers,
         Begin(c) \/ Withhold(c) \/ Record(c) \/ GiveUp(c)
  PROVE  CountsInv'
<1>1. UNCHANGED <<toFlush, flush, armed, fired>> /\ call[c].by # NoCaller
  BY DEF Begin, Withhold, Record, GiveUp, OneAtATime, timerVars, exitVars
<1>2. CASE Finish(c)
  <2>1. /\ IsFiniteSet(Counted')
        /\ Cardinality(Counted') = IF call[c].by = "page" THEN Cardinality(Counted)
                                   ELSE Cardinality(Counted) - 1
    BY <1>1, <1>2, CountedEnd, CountsType, Types
  <2>2. inflight' = IF call[c].by = "page" THEN inflight ELSE inflight - 1
    BY <1>2 DEF Finish
  <2>3. CountedInv'
    BY <1>1, <2>1 DEF CountsInv, CountedInv
  <2>4. InflightExact'
    BY <1>1, <2>1, <2>2, CountsType, InflightIsSumNext
  <2>5. QED
    BY <2>3, <2>4 DEF CountsInv
<1>3. CASE Begin(c) /\ inflight' = inflight /\ \A d \in Callers : call'[d].by = call[d].by
  BY <1>1, <1>3, CountsAlone DEF Counted
<1>4. Begin(c) => Finish(c) \/ (inflight' = inflight /\ \A d \in Callers : call'[d].by = call[d].by)
  BY Types DEF Begin, SendType, CallType
<1>5. QED
  BY <1>2, <1>3, <1>4 DEF Withhold, Record, GiveUp

LEMMA RemoteKeepsCallers ==
  ASSUME TypeOK, CallsInv, NEW c \in Callers, Accept(c) \/ Conflict(c) \/ Refuse(c) \/ Vanish(c)
  PROVE  \A d \in Callers :
           /\ call'[d].by = call[d].by
           /\ call[d].pc = "lock" => call'[d] = call[d]
           /\ call'[d].pc = "lock" => call[d].pc = "lock"
<1>1. /\ call \in [Callers -> CallType] /\ call[c].pc \in {"post", "idle"}
      /\ call[c].pc = "idle" => call[c].by = NoCaller
  BY Types DEF SendType, CallsInv, WireInv, OneAtATime, Accept, Conflict, Refuse, Vanish
<1>2. Idle.by = NoCaller /\ Idle.pc = "idle"
  BY DEF Idle
<1>3. CASE Vanish(c)
  BY <1>1, <1>2, <1>3 DEF Vanish
<1>4. CASE Accept(c) \/ Conflict(c) \/ Refuse(c)
  BY <1>1, <1>2, <1>4, AnsweredEnds DEF Accept, Conflict, Refuse
<1>5. QED
  BY <1>3, <1>4

LEMMA RemoteCounts ==
  ASSUME TypeOK, CallsInv, CountsInv,
         NEW c \in Callers, Accept(c) \/ Conflict(c) \/ Refuse(c) \/ Vanish(c)
  PROVE  CountsInv'
<1>1. UNCHANGED <<armed, fired, toFlush, flush, inflight>>
  BY DEF Accept, Conflict, Refuse, Vanish, Rest, timerVars, exitVars
<1>2. Counted' = Counted
  BY RemoteKeepsCallers DEF Counted
<1>3. QED
  BY <1>1, <1>2, CountsAlone

(* Flush takes as many as wait: those whose timer is stopped, which were   *)
(* counted, and those whose timer has run out, which it counts again.      *)
LEMMA TakenCount ==
  ASSUME TypeOK, TimersInv, CountsInv
  PROVE  /\ IsFiniteSet(Taken) /\ IsFiniteSet(Recounted)
         /\ Cardinality(Recounted) \in Nat
         /\ Cardinality(Taken) = Cardinality(armed) + Cardinality(Recounted)
<1> DEFINE asleep == {m \in Matches : waiting[m] # 0 /\ <<m, waiting[m]>> \in armed}
           f == [x \in armed |-> x[1]]
           gone == {<<m, waiting[m]>> : m \in Recounted}
           g == [x \in gone |-> x[1]]
<1>1. TimerType /\ TimersStand
  BY Types, TimersOf DEF TimersInv, TimersStand
<1>2. \A x \in armed : x = <<x[1], waiting[x[1]]>> /\ x[1] \in asleep
  <2> SUFFICES ASSUME NEW x \in armed
               PROVE  x = <<x[1], waiting[x[1]]>> /\ x[1] \in asleep
    OBVIOUS
  <2> PICK m \in Matches, n \in 1..MaxWins : x = <<m, n>>
    BY <1>1 DEF TimerType, Timers
  <2>1. waiting[m] = n /\ n # 0
    BY <1>1, ReporterAssumption DEF TimersStand
  <2>2. QED
    BY <2>1
<1>3. f \in Bijection(armed, asleep)
  <2>1. f \in [armed -> asleep] /\ \A x \in armed : f[x] = x[1]
    BY <1>2
  <2>2. \A m \in asleep : <<m, waiting[m]>> \in armed /\ <<m, waiting[m]>>[1] = m
    OBVIOUS
  <2> HIDE DEF f, asleep
  <2>3. \A x, y \in armed : f[x] = f[y] => x = y
    BY <1>2, <2>1
  <2>4. \A m \in asleep : \E x \in armed : f[x] = m
    BY <2>1, <2>2
  <2>5. QED
    BY <2>1, <2>3, <2>4 DEF Bijection, Injection, Surjection, IsInjective
<1>4. IsFiniteSet(asleep) /\ Cardinality(asleep) = Cardinality(armed)
  BY <1>3, CountsType, FS_Bijection DEF ExistsBijection
<1>5. Recounted = {m \in Matches : waiting[m] # 0 /\ <<m, waiting[m]>> \in fired}
  BY DEF Recounted, EntryOf
<1>6. gone \subseteq fired
  BY <1>5
<1>7. g \in Bijection(gone, Recounted)
  <2>1. \A x \in gone : x[1] \in Recounted /\ x = <<x[1], waiting[x[1]]>>
    OBVIOUS
  <2>2. g \in [gone -> Recounted] /\ \A x \in gone : g[x] = x[1]
    BY <2>1
  <2>3. \A m \in Recounted : <<m, waiting[m]>> \in gone /\ <<m, waiting[m]>>[1] = m
    OBVIOUS
  <2> HIDE DEF g, gone
  <2>4. \A x, y \in gone : g[x] = g[y] => x = y
    BY <2>1, <2>2
  <2>5. \A m \in Recounted : \E x \in gone : g[x] = m
    BY <2>2, <2>3
  <2>6. QED
    BY <2>2, <2>4, <2>5 DEF Bijection, Injection, Surjection, IsInjective
<1>8. IsFiniteSet(Recounted)
  BY <1>6, <1>7, CountsType, FS_Subset, FS_Bijection DEF ExistsBijection
<1>9. Taken = asleep \cup Recounted /\ asleep \cap Recounted = {}
  BY <1>1, <1>5 DEF Taken, TimersStand
<1> HIDE DEF asleep, f, gone, g
<1>10. Cardinality(asleep \cap Recounted) = 0
  BY <1>9, FS_EmptySet
<1>11. /\ IsFiniteSet(asleep \cup Recounted)
       /\ Cardinality(asleep \cup Recounted) =
            Cardinality(asleep) + Cardinality(Recounted) - Cardinality(asleep \cap Recounted)
  BY <1>4, <1>8, FS_Union
<1>12. Cardinality(asleep) \in Nat /\ Cardinality(Recounted) \in Nat
  BY <1>4, <1>8, FS_CardinalityType
<1>13. QED
  BY <1>4, <1>8, <1>9, <1>10, <1>11, <1>12

LEMMA FlushBeginCounts ==
  ASSUME TypeOK, TimersInv, CountsInv, FlushBegin
  PROVE  CountsInv'
<1>1. /\ armed' = {} /\ fired' = fired /\ toFlush' = Taken /\ flush' = "sending"
      /\ inflight' = inflight + Cardinality(Recounted) /\ toFlush = {}
  BY DEF FlushBegin, CountsInv, CountedInv
<1>2. Counted' = Counted
  BY DEF FlushBegin, Counted, sendVars
<1>3. IsFiniteSet({}) /\ Cardinality({}) = 0
  BY FS_EmptySet
<1>4. CountedInv'
  BY <1>1, <1>2, <1>3, TakenCount DEF CountsInv, CountedInv
<1>5. InflightExact'
  BY <1>1, <1>2, <1>3, TakenCount, CountsType, InflightIsSumNext
<1>6. QED
  BY <1>4, <1>5 DEF CountsInv

LEMMA FlushNextCounts ==
  ASSUME TypeOK, CountsInv, NEW m \in Matches, FlushNext(m)
  PROVE  CountsInv'
<1>1. /\ UNCHANGED <<armed, fired, flush, inflight>> /\ m \in toFlush /\ toFlush' = toFlush \ {m}
      /\ flush = "sending"
  BY DEF FlushNext, timerVars
<1>2. IsFiniteSet(toFlush') /\ Cardinality(toFlush') = Cardinality(toFlush) - 1
  BY <1>1, CountsType, FS_RemoveElement
<1>3. IsFiniteSet(Counted') /\ Cardinality(Counted') = Cardinality(Counted) + 1
  BY CountedStart, CountsType, Types DEF FlushNext
<1>4. CountedInv'
  BY <1>1, <1>2, <1>3 DEF CountsInv, CountedInv
<1>5. InflightExact'
  BY <1>1, <1>2, <1>3, CountsType, InflightIsSumNext
<1>6. QED
  BY <1>4, <1>5 DEF CountsInv

LEMMA QuietCounts ==
  ASSUME TypeOK, CountsInv,
         FlushWait \/ FlushDone \/ ServerDown \/ \E m \in Matches, s \in Scores : Win(m, s)
  PROVE  CountsInv'
<1>1. /\ UNCHANGED <<armed, fired, toFlush, inflight, call>>
      /\ flush' = flush \/ (flush \in {"sending", "waiting"} /\ (toFlush = {} \/ flush # "sending"))
  BY DEF FlushWait, FlushDone, ServerDown, Win, timerVars, exitVars, sendVars
<1>2. flush # "sending" => toFlush = {}
  BY DEF CountsInv, CountedInv
<1>3. QED
  BY <1>1, <1>2, CountsAlone DEF Counted

LEMMA ExitCounts ==
  ASSUME TypeOK, CountsInv, Exit
  PROVE  CountsInv'
<1>1. armed' = {} /\ fired' = {} /\ toFlush' = {} /\ inflight' = 0
  BY DEF Exit
<1>2. Counted' = {}
  BY Types, ExitEnds DEF Counted, SendType, NoCaller
<1>3. IsFiniteSet({}) /\ Cardinality({}) = 0
  BY FS_EmptySet
<1>4. CountedInv'
  BY <1>1, <1>2, <1>3 DEF CountedInv
<1>5. InflightExact'
  BY <1>1, <1>2, <1>3, InflightIsSumNext
<1>6. QED
  BY <1>4, <1>5 DEF CountsInv

-----------------------------------------------------------------------------
(* What a shutdown may not lose.                                           *)

LooksNext(c, m) == call'[c].pc = "lock" /\ call'[c].match = m

(* A step that looks at no win that waits, and lets go of none.            *)
Keeps(m) ==
  /\ waiting[m] # 0 =>
       waiting'[m] # 0 \/ m \in toFlush' \/ \E c \in Callers : LooksNext(c, m)
  /\ m \in toFlush => m \in toFlush' \/ \E c \in Callers : LooksNext(c, m)
  /\ \A c \in Callers : Looks(c, m) => LooksNext(c, m) /\ call'[c].by = call[c].by

LEMMA OwedStep ==
  ASSUME OwedInv, alive' = alive,
         flush' = "done" /\ timely' => flush = "done" /\ timely,
         server' = "down" /\ timely' => server = "down" /\ timely,
         server' = "down" /\ Handling' => Handling,
         \A m \in Matches : owed'[m] # "no" =>
           owed'[m] = owed[m] /\ (game[m].over => game'[m].over),
         \A m \in Matches : owed'[m] = "waiting" => Keeps(m)
  PROVE  OwedInv'
<1>1. (\A m \in Matches : owed[m] # "no" => game[m].over)'
  BY DEF OwedInv
<1>2. ASSUME NEW m \in Matches, alive, owed'[m] = "waiting"
      PROVE  /\ \/ waiting'[m] # 0 \/ m \in toFlush'
                \/ \E c \in Callers : LooksNext(c, m)
             /\ flush' = "done" /\ timely' =>
                  \E c \in Callers : LooksNext(c, m) /\ call'[c].by = "page"
  <2>1. owed[m] = "waiting" /\ Keeps(m)
    BY <1>2
  <2>2. /\ waiting[m] # 0 \/ m \in toFlush \/ \E c \in Callers : Looks(c, m)
        /\ flush = "done" /\ timely => \E c \in Callers : Looks(c, m) /\ call[c].by = "page"
    BY <1>2, <2>1 DEF OwedInv
  <2>3. QED
    BY <2>1, <2>2 DEF Keeps
<1>3. (alive /\ server = "down" /\ timely => ~Handling)'
  BY DEF OwedInv
<1>4. QED
  BY <1>1, <1>2, <1>3 DEF OwedInv, Looks, LooksNext

LEMMA StartKeeps ==
  ASSUME SendType, NEW m, NEW by \in {"now", "timer", "page", "flush"}, Call(m, by)
  PROVE  /\ \A d \in Callers, k \in Matches :
              Looks(d, k) => LooksNext(d, k) /\ call'[d].by = call[d].by
         /\ \E c \in Callers : LooksNext(c, m)
         /\ by # "page" => \A d \in Callers : call'[d].by = "page" => call[d].by = "page"
<1> PICK c \in Callers : call[c] = Idle /\ call' = [call EXCEPT ![c] = NewCall(m, by)]
  BY CallIsNew
<1>1. /\ call'[c].by = by /\ call'[c].pc = "lock" /\ call'[c].match = m
      /\ \A d \in Callers : d # c => call'[d] = call[d]
      /\ call[c].pc = "idle"
  BY DEF SendType, NewCall, Idle
<1>2. QED
  BY <1>1 DEF Looks, LooksNext

LEMMA WinOwed ==
  ASSUME TypeOK, OwedInv, TimersInv, NEW m \in Matches, NEW s \in Scores, Win(m, s)
  PROVE  OwedInv'
<1>1. /\ UNCHANGED <<waiting, toFlush, flush, timely, server, alive, call>> /\ server # "down"
      /\ game' = [game EXCEPT ![m] = [over |-> TRUE, score |-> s]]
      /\ owed' = owed \/ owed' = [owed EXCEPT ![m] = "won"]
  BY DEF Win, timerVars, exitVars, sendVars
<1>2. \A k \in Matches : owed'[k] = owed[k] \/ (k = m /\ owed'[k] = "won")
  BY <1>1, Types DEF OtherType
<1>3. game'[m].over /\ \A k \in Matches : k # m => game'[k] = game[k]
  BY <1>1, Types DEF GameType
<1>4. (\A k \in Matches : owed[k] # "no" => game[k].over)'
  BY <1>2, <1>3 DEF OwedInv
<1>5. \A k \in Matches : owed'[k] = "waiting" => owed[k] = "waiting"
  BY <1>2
<1>6. (\A k \in Matches : alive /\ owed[k] = "waiting" =>
         /\ waiting[k] # 0 \/ k \in toFlush \/ \E c \in Callers : Looks(c, k)
         /\ flush = "done" /\ timely => \E c \in Callers : Looks(c, k) /\ call[c].by = "page")'
  BY <1>1, <1>5 DEF OwedInv, Looks
<1>7. QED
  BY <1>1, <1>4, <1>6 DEF OwedInv

LEMMA ScheduleOwed ==
  ASSUME TypeOK, OwedInv, TimersInv, NEW m \in Matches, Schedule(m)
  PROVE  OwedInv'
<1>1. /\ UNCHANGED <<toFlush, flush, timely, server, alive, game>>
      /\ deciding' = deciding \ {m} /\ m \in deciding /\ game[m].over
      /\ wins[m] \in 1..MaxWins /\ wins[m] # 0
  <2>1. wins[m] \in 0..MaxWins /\ wins[m] > 0 /\ game[m].over
    BY Types DEF GameType, Schedule, TimersInv, EntriesInv
  <2>2. wins[m] \in 1..MaxWins /\ wins[m] # 0
    BY <2>1, ReporterAssumption
  <2>3. QED
    BY <2>1, <2>2 DEF Schedule, exitVars, gameVars
<1>2. CASE Grace /\ ~Closed
  <2>1. /\ waiting' = [waiting EXCEPT ![m] = wins[m]] /\ owed' = [owed EXCEPT ![m] = "waiting"]
        /\ call' = call /\ flush = "no"
    BY <1>2 DEF Schedule, Closed, sendVars
  <2>2. /\ waiting'[m] # 0
        /\ \A k \in Matches : k # m => waiting'[k] = waiting[k] /\ owed'[k] = owed[k]
    BY <1>1, <2>1, Types DEF TimerType, OtherType
  <2>3. (\A k \in Matches : owed[k] # "no" => game[k].over)'
    BY <1>1, <2>2 DEF OwedInv
  <2>4. \A k \in Matches : alive /\ owed'[k] = "waiting" =>
          waiting'[k] # 0 \/ k \in toFlush \/ \E c \in Callers : Looks(c, k)
    BY <2>2 DEF OwedInv
  <2>5. Handling' => Handling
    BY <1>1, <2>1 DEF Handling
  <2>6. QED
    BY <1>1, <2>1, <2>3, <2>4, <2>5 DEF OwedInv, Looks
<1>3. CASE ~(Grace /\ ~Closed)
  <2>1. Call(m, "now") /\ UNCHANGED <<waiting, owed>>
    BY <1>3 DEF Schedule, timerVars
  <2>2. \A k \in Matches : Keeps(k)
    BY <1>1, <2>1, StartKeeps, Types DEF Keeps
  <2>3. Handling' => Handling
    BY <1>1, <2>1, StartKeeps, Types DEF Handling
  <2>4. QED
    BY <1>1, <2>1, <2>2, <2>3, OwedStep
<1>4. QED
  BY <1>2, <1>3

LEMMA UndoOwed ==
  ASSUME TypeOK, OwedInv, NEW m \in Matches, Undo(m)
  PROVE  OwedInv'
<1>1. /\ UNCHANGED <<toFlush, flush, timely, server, alive, call, deciding>>
      /\ game' = [game EXCEPT ![m] = [over |-> FALSE, score |-> NoScore]]
      /\ owed' = [owed EXCEPT ![m] = "no"] /\ waiting' = [waiting EXCEPT ![m] = 0]
  BY DEF Undo, Withdraw, exitVars, sendVars
<1>2. /\ owed'[m] = "no"
      /\ \A k \in Matches : k # m => /\ owed'[k] = owed[k] /\ waiting'[k] = waiting[k]
                                     /\ game'[k] = game[k]
  BY <1>1, Types DEF OtherType, TimerType, GameType
<1>3. \A k \in Matches : owed'[k] = "waiting" => Keeps(k)
  BY <1>1, <1>2 DEF Keeps, Looks, LooksNext
<1>4. Handling' => Handling
  BY <1>1 DEF Handling
<1>5. \A k \in Matches : owed'[k] # "no" => owed'[k] = owed[k] /\ (game[k].over => game'[k].over)
  BY <1>2
<1>6. QED
  BY <1>1, <1>3, <1>4, <1>5, OwedStep

LEMMA TimerOwed ==
  ASSUME TypeOK, OwedInv, NEW m \in Matches, NEW n \in 1..MaxWins, RunOut(m, n) \/ Fire(m, n)
  PROVE  OwedInv'
<1>1. UNCHANGED <<toFlush, flush, timely, server, alive, game, owed, deciding>>
  BY DEF RunOut, Fire, exitVars, gameVars
<1>2. CASE UNCHANGED <<waiting, call>>
  <2>1. \A k \in Matches : Keeps(k)
    BY <1>1, <1>2 DEF Keeps, Looks, LooksNext
  <2>2. Handling' => Handling
    BY <1>1, <1>2 DEF Handling
  <2>3. QED
    BY <1>1, <2>1, <2>2, OwedStep
<1>3. CASE waiting' = [waiting EXCEPT ![m] = 0] /\ Call(m, "timer")
  <2>1. \A k \in Matches : k # m => waiting'[k] = waiting[k]
    BY <1>3, Types DEF TimerType
  <2>2. \A k \in Matches : Keeps(k)
    BY <1>1, <1>3, <2>1, StartKeeps, Types DEF Keeps
  <2>3. Handling' => Handling
    BY <1>1, <1>3, StartKeeps, Types DEF Handling
  <2>4. QED
    BY <1>1, <2>2, <2>3, OwedStep
<1>4. QED
  BY <1>2, <1>3 DEF RunOut, Fire, sendVars

LEMMA PageSendOwed ==
  ASSUME TypeOK, OwedInv, NEW m \in Matches, PageSend(m)
  PROVE  OwedInv'
<1>1. /\ UNCHANGED <<toFlush, flush, timely, server, alive, game, owed>> /\ server # "down"
      /\ waiting' = [waiting EXCEPT ![m] = 0] /\ Call(m, "page")
  BY DEF PageSend, Withdraw, exitVars, gameVars
<1>2. \A k \in Matches : k # m => waiting'[k] = waiting[k]
  BY <1>1, Types DEF TimerType
<1>3. \A k \in Matches : Keeps(k)
  BY <1>1, <1>2, StartKeeps, Types DEF Keeps
<1>4. QED
  BY <1>1, <1>3, OwedStep

LEMMA FlushNextOwed ==
  ASSUME TypeOK, OwedInv, NEW m \in Matches, FlushNext(m)
  PROVE  OwedInv'
<1>1. /\ UNCHANGED <<flush, timely, server, alive, game, owed, waiting, deciding>>
      /\ toFlush' = toFlush \ {m} /\ Call(m, "flush")
  BY DEF FlushNext, timerVars, gameVars
<1>2. \A k \in Matches : Keeps(k)
  BY <1>1, StartKeeps, Types DEF Keeps
<1>3. Handling' => Handling
  BY <1>1, StartKeeps, Types DEF Handling
<1>4. QED
  BY <1>1, <1>2, <1>3, OwedStep

LEMMA BeginOwed ==
  ASSUME TypeOK, OwedInv, CallsInv, NEW c \in Callers, Begin(c)
  PROVE  OwedInv'
<1> DEFINE m == call[c].match
<1>1. /\ UNCHANGED <<toFlush, flush, timely, server, alive, game, waiting, deciding>>
      /\ call \in [Callers -> CallType] /\ m \in Matches
      /\ owed \in [Matches -> {"no", "won", "waiting"}]
  BY Types DEF Begin, timerVars, exitVars, gameVars, SendType, OtherType, CallsInv, OneAtATime
<1>2. \A d \in Callers : d # c => call'[d] = call[d]
  BY <1>1, FinishEnds DEF Begin
<1>3. call'[c].by = "page" => call[c].by = "page"
  BY <1>1, FinishEnds DEF Begin, NoCaller, CallType
<1>4. \A k \in Matches : owed'[k] # "no" => owed'[k] = owed[k]
  BY <1>1 DEF Begin
<1>5. owed'[m] = "no"
  <2>1. CASE ~NothingToSend(m) /\ Reopened(m)
    BY <1>1, <2>1 DEF Begin, Reopened, OwedInv
  <2>2. CASE NothingToSend(m) \/ ~Reopened(m)
    BY <1>1, <2>2 DEF Begin
  <2>3. QED
    BY <2>1, <2>2
<1>6. \A k \in Matches : owed'[k] = "waiting" => Keeps(k)
  <2> SUFFICES ASSUME NEW k \in Matches, k # m PROVE Keeps(k)
    BY <1>5
  <2>1. \A d \in Callers : Looks(d, k) => d # c
    BY DEF Looks
  <2>2. QED
    BY <1>1, <1>2, <2>1 DEF Keeps, Looks, LooksNext
<1>7. Handling' => Handling
  BY <1>1, <1>2, <1>3 DEF Handling
<1>8. QED
  BY <1>1, <1>4, <1>6, <1>7, OwedStep

LEMMA EndOwed ==
  ASSUME TypeOK, OwedInv, NEW c \in Callers, Withhold(c) \/ Record(c) \/ GiveUp(c)
  PROVE  OwedInv'
<1>1. /\ UNCHANGED <<toFlush, flush, timely, server, alive, game, waiting, deciding, owed>>
      /\ call \in [Callers -> CallType] /\ call[c].pc \in {"withhold", "post"} /\ Finish(c)
  BY Types DEF Withhold, Record, GiveUp, timerVars, exitVars, gameVars, SendType
<1>2. call'[c].by = NoCaller /\ \A d \in Callers : d # c => call'[d] = call[d]
  BY <1>1, FinishEnds
<1>3. \A k \in Matches : Keeps(k)
  BY <1>1, <1>2 DEF Keeps, Looks, LooksNext
<1>4. Handling' => Handling
  BY <1>1, <1>2 DEF Handling, NoCaller
<1>5. QED
  BY <1>1, <1>3, <1>4, OwedStep

LEMMA RemoteOwed ==
  ASSUME TypeOK, OwedInv, CallsInv,
         NEW c \in Callers, Accept(c) \/ Conflict(c) \/ Refuse(c) \/ Vanish(c)
  PROVE  OwedInv'
<1>1. UNCHANGED <<toFlush, flush, timely, server, alive, game, waiting, deciding, owed>>
  BY DEF Accept, Conflict, Refuse, Vanish, Rest, timerVars, exitVars, gameVars
<1>2. \A k \in Matches : Keeps(k)
  BY <1>1, RemoteKeepsCallers DEF Keeps, Looks, LooksNext
<1>3. Handling' => Handling
  BY <1>1, RemoteKeepsCallers DEF Handling
<1>4. QED
  BY <1>1, <1>2, <1>3, OwedStep

LEMMA FlushBeginOwed ==
  ASSUME OwedInv, CountsInv, FlushBegin
  PROVE  OwedInv'
<1>1. /\ UNCHANGED <<timely, alive, game, owed, call>>
      /\ flush' = "sending" /\ server' = "draining" /\ toFlush' = Taken /\ flush = "no"
  BY DEF FlushBegin, gameVars, sendVars
<1>2. \A k \in Matches : owed[k] = "waiting" /\ alive =>
        k \in Taken \/ k \in toFlush \/ \E c \in Callers : Looks(c, k)
  BY DEF OwedInv, Taken
<1>3. (\A m \in Matches : owed[m] # "no" => game[m].over)'
  BY <1>1 DEF OwedInv
<1>4. (\A k \in Matches : alive /\ owed[k] = "waiting" =>
         /\ waiting[k] # 0 \/ k \in toFlush \/ \E c \in Callers : Looks(c, k)
         /\ flush = "done" /\ timely => \E c \in Callers : Looks(c, k) /\ call[c].by = "page")'
  <2> SUFFICES ASSUME NEW k \in Matches, alive, owed[k] = "waiting"
               PROVE  k \in Taken \/ \E c \in Callers : LooksNext(c, k)
    BY <1>1 DEF Looks, LooksNext
  <2>1. k \notin toFlush
    BY <1>1 DEF CountsInv, CountedInv
  <2>2. QED
    BY <1>1, <1>2, <2>1 DEF Looks, LooksNext
<1>5. QED
  BY <1>1, <1>3, <1>4 DEF OwedInv

LEMMA DownOwed ==
  ASSUME OwedInv, FlushWait \/ ServerDown
  PROVE  OwedInv'
<1>1. /\ UNCHANGED <<toFlush, alive, game, waiting, deciding, owed, call>>
      /\ timely' => timely
      /\ flush' = flush \/ flush' = "waiting"
      /\ server' = server \/ (server' = "down" /\ (timely' => ~Handling))
  <2>1. CASE FlushWait
    BY <2>1 DEF FlushWait, timerVars, gameVars, sendVars
  <2>2. CASE ServerDown
    <3>1. timely' => timely /\ ~Handling
      BY <2>2 DEF ServerDown
    <3>2. QED
      BY <2>2, <3>1 DEF ServerDown, timerVars, gameVars, sendVars
  <2>3. QED
    BY <2>1, <2>2
<1>2. Handling' <=> Handling
  BY <1>1 DEF Handling
<1>3. QED
  BY <1>1, <1>2 DEF OwedInv, Looks

(* Flush came back in time: nothing it counts is left, so only a call of   *)
(* the page's can still be about to look at a win that waited.             *)
LEMMA FlushDoneOwed ==
  ASSUME TypeOK, OwedInv, CallsInv, TimersInv, CountsInv, FlushDone
  PROVE  OwedInv'
<1>1. /\ UNCHANGED <<toFlush, server, alive, game, waiting, deciding, owed, call>>
      /\ flush = "waiting" /\ flush' = "done"
      /\ timely' => timely /\ inflight = 0
  BY DEF FlushDone, timerVars, gameVars, sendVars
<1>2. inflight = 0 => toFlush = {} /\ Counted = {}
  BY CountsType, FS_EmptySet
<1>3. \A k \in Matches : waiting[k] = 0
  BY <1>1 DEF TimersInv, EntriesInv
<1>4. \A c \in Callers, k \in Matches : Looks(c, k) /\ c \notin Counted => call[c].by = "page"
  BY Types DEF Looks, SendType, CallType, Counted, CallsInv, OneAtATime
<1>5. Handling' <=> Handling
  BY <1>1 DEF Handling
<1>6. QED
  BY <1>1, <1>2, <1>3, <1>4, <1>5 DEF OwedInv, Looks

LEMMA ExitOwed ==
  ASSUME OwedInv, Exit, alive
  PROVE  OwedInv' /\ ShutdownLosesNothing'
<1>1. /\ UNCHANGED <<timely, game, owed>> /\ flush = "done" /\ server = "down" /\ ~alive'
  BY DEF Exit, gameVars
<1>2. timely => \A m \in Matches : owed[m] # "waiting"
  BY <1>1 DEF OwedInv, Handling
<1>3. QED
  BY <1>1, <1>2 DEF OwedInv, ShutdownLosesNothing

-----------------------------------------------------------------------------
(* Every step.                                                             *)

Inv == TypeOK /\ CallsInv /\ TimersInv /\ CountsInv /\ OwedInv /\ ShutdownLosesNothing

LEMMA InitInv == Init => Inv
<1> SUFFICES ASSUME Init PROVE Inv
  OBVIOUS
<1>1. Idle \in CallType /\ Idle.pc = "idle" /\ Idle.by = NoCaller /\ ~Idle.wire
  BY DEF Idle, CallType
<1>2. 0 \in 0..MaxWins /\ 0 \in 0..MaxSends
  BY ReporterAssumption
<1>3. TypeOK
  <2>1. GameType /\ TimerType
    BY <1>2 DEF Init, GameType, TimerType
  <2>2. ExitType /\ SendType
    BY <1>1 DEF Init, ExitType, SendType
  <2>3. ReportType /\ BookType
    BY DEF Init, ReportType, BookType
  <2>4. OtherType
    BY <1>2 DEF Init, OtherType
  <2>5. QED
    BY <2>1, <2>2, <2>3, <2>4, Types
<1>4. CallsInv
  <2>1. \A c \in Callers : call[c] = Idle
    BY DEF Init
  <2>2. \A m \in Matches : book[m] = <<>>
    BY DEF Init
  <2>3. QED
    BY <1>1, <2>1, <2>2 DEF CallsInv, OneAtATime, WireInv, AnswersAreTrue, BookIsAnswered
<1>5. TimersInv
  <2>1. TimersStand
    BY DEF Init, TimersStand
  <2>2. EntriesInv
    BY DEF Init, EntriesInv
  <2>3. QED
    BY <1>3, <2>1, <2>2, Types, TimersOf DEF TimersStand, TimersInv
<1>6. CountsInv
  <2>1. IsFiniteSet({}) /\ Cardinality({}) = 0
    BY FS_EmptySet
  <2>2. armed = {} /\ fired = {} /\ toFlush = {} /\ inflight = 0
    BY DEF Init
  <2>3. Counted = {}
    BY <1>1 DEF Init, Counted, NoCaller
  <2>4. QED
    BY <2>1, <2>2, <2>3, InflightIsSum DEF CountsInv, CountedInv, Sum
<1>7. OwedInv /\ ShutdownLosesNothing
  BY DEF Init, OwedInv, ShutdownLosesNothing
<1>8. QED
  BY <1>3, <1>4, <1>5, <1>6, <1>7 DEF Inv

LEMMA StillAlive ==
  ASSUME alive, alive' = alive
  PROVE  ShutdownLosesNothing'
BY DEF ShutdownLosesNothing

LEMMA MatchStep ==
  ASSUME Inv, alive, NEW m \in Matches,
         \/ \E s \in Scores : Win(m, s)
         \/ Schedule(m) \/ Undo(m)
         \/ \E n \in 1..MaxWins : RunOut(m, n) \/ Fire(m, n)
         \/ PageSend(m) \/ FlushNext(m)
  PROVE  Inv'
<1>1. /\ TypeOK /\ CallsInv /\ TimersInv /\ CountsInv /\ OwedInv /\ SendType /\ ReportType
      /\ m \in deciding => wins[m] > 0
  BY Types DEF Inv, TimersInv, EntriesInv
<1>2. ShutdownLosesNothing'
  BY StillAlive DEF Win, Schedule, Undo, RunOut, Fire, PageSend, FlushNext, exitVars
<1>3. \A k \in Matches : report'[k].done = report[k].done
  <2>1. ASSUME NEW e \in BOOLEAN, report' = [report EXCEPT ![m].due = e]
        PROVE  \A k \in Matches : report'[k].done = report[k].done
    BY <1>1, <2>1 DEF ReportType
  <2>2. report' = report \/ \E e \in BOOLEAN : report' = [report EXCEPT ![m].due = e]
    BY DEF Win, Schedule, Undo, RunOut, Fire, PageSend, FlushNext
  <2>3. QED
    BY <2>1, <2>2
<1>4. ASSUME NEW s \in Scores, Win(m, s)
      PROVE  Inv'
  <2>1. CallsInv'
    <3>1. \A k \in Matches : won[k] \subseteq won'[k]
      BY <1>1, <1>4, Types DEF Win, GameType
    <3>2. QED
      BY <1>1, <1>3, <1>4, <3>1, CallsAlone DEF Win, sendVars
  <2>2. QED
    BY <1>1, <1>2, <1>4, <2>1, WinType, WinTimers, QuietCounts, WinOwed DEF Inv
<1>5. CASE Schedule(m)
  <2>1. CallsInv'
    <3>1. CASE Grace /\ ~Closed
      BY <1>1, <1>3, <1>5, <3>1, CallsAlone DEF Schedule, sendVars, gameVars
    <3>2. CASE ~(Grace /\ ~Closed)
      BY <1>1, <1>3, <1>5, <3>2, CallsStart DEF Schedule, gameVars
    <3>3. QED
      BY <3>1, <3>2
  <2>2. wins[m] > 0
    BY <1>1, <1>5 DEF Schedule
  <2>3. QED
    BY <1>1, <1>2, <1>5, <2>1, <2>2, ScheduleType, ScheduleTimers, ScheduleCounts, ScheduleOwed
       DEF Inv
<1>6. CASE Undo(m)
  <2>1. CallsInv'
    BY <1>1, <1>3, <1>6, CallsAlone DEF Undo, sendVars
  <2>2. QED
    BY <1>1, <1>2, <1>6, <2>1, UndoType, WithdrawTimers, WithdrawCounts, UndoOwed DEF Inv
<1>7. ASSUME NEW n \in 1..MaxWins, RunOut(m, n)
      PROVE  Inv'
  <2>1. CallsInv'
    BY <1>1, <1>3, <1>7, CallsAlone DEF RunOut, sendVars, gameVars
  <2>2. QED
    BY <1>1, <1>2, <1>7, <2>1, RunOutType, RunOutTimers, RunOutCounts, TimerOwed DEF Inv
<1>8. ASSUME NEW n \in 1..MaxWins, Fire(m, n)
      PROVE  Inv'
  <2>1. CallsInv'
    <3>1. CASE Mine(m, n)
      BY <1>1, <1>3, <1>8, <3>1, CallsStart DEF Fire, gameVars
    <3>2. CASE ~Mine(m, n)
      BY <1>1, <1>3, <1>8, <3>2, CallsAlone DEF Fire, gameVars
    <3>3. QED
      BY <3>1, <3>2
  <2>2. QED
    BY <1>1, <1>2, <1>8, <2>1, FireType, FireTimers, FireCounts, TimerOwed DEF Inv
<1>9. CASE PageSend(m)
  <2>1. CallsInv'
    BY <1>1, <1>3, <1>9, CallsStart DEF PageSend, gameVars
  <2>2. QED
    BY <1>1, <1>2, <1>9, <2>1, PageSendType, WithdrawTimers, WithdrawCounts, PageSendOwed DEF Inv
<1>10. CASE FlushNext(m)
  <2>1. CallsInv'
    BY <1>1, <1>3, <1>10, CallsStart DEF FlushNext, gameVars
  <2>2. TimersInv'
    BY <1>1, <1>10, Types, TimersAlone DEF FlushNext, gameVars
  <2>3. QED
    BY <1>1, <1>2, <1>10, <2>1, <2>2, FlushNextType, FlushNextCounts, FlushNextOwed DEF Inv
<1>11. QED
  BY <1>4, <1>5, <1>6, <1>7, <1>8, <1>9, <1>10

LEMMA CallStep ==
  ASSUME Inv, alive, NEW c \in Callers, Begin(c) \/ Withhold(c) \/ Record(c) \/ GiveUp(c)
  PROVE  Inv'
<1>1. /\ TypeOK /\ CallsInv /\ TimersInv /\ CountsInv /\ OwedInv /\ OneAtATime /\ TimerType
      /\ \A m \in Matches : game[m].over => game[m].score \in won[m]
      /\ call[c].match \in Matches
  <2>1. call[c].pc # "idle"
    BY DEF Begin, Withhold, Record, GiveUp
  <2>2. QED
    BY <2>1, Types DEF Inv, TimersInv, EntriesInv, CallsInv, OneAtATime
<1>2. ShutdownLosesNothing'
  BY StillAlive DEF Begin, Withhold, Record, GiveUp, exitVars
<1>3. TimersInv'
  BY <1>1, TimersAlone DEF Begin, Withhold, Record, GiveUp, gameVars, exitVars
<1>4. CountsInv'
  BY <1>1, EndCounts
<1>5. TypeOK' /\ CallsInv' /\ OwedInv'
  BY <1>1, BeginType, EndType, BeginCalls, EndCalls, BeginOwed, EndOwed
<1>6. QED
  BY <1>2, <1>3, <1>4, <1>5 DEF Inv

LEMMA RemoteStep ==
  ASSUME Inv, NEW c \in Callers, Accept(c) \/ Conflict(c) \/ Refuse(c) \/ Vanish(c)
  PROVE  Inv'
<1>1. TypeOK /\ CallsInv /\ TimersInv /\ CountsInv /\ OwedInv /\ WireInv /\ TimerType
  BY Types DEF Inv, CallsInv
<1>2. UNCHANGED Rest
  BY DEF Accept, Conflict, Refuse, Vanish
<1>3. ShutdownLosesNothing'
  BY <1>2 DEF Inv, ShutdownLosesNothing, Rest, exitVars
<1>4. TimersInv'
  BY <1>1, <1>2, TimersAlone DEF Rest, gameVars, exitVars
<1>5. QED
  BY <1>1, <1>3, <1>4, RemoteType, RemoteCalls, RemoteCounts, RemoteOwed DEF Inv

LEMMA ShutdownStep ==
  ASSUME Inv, alive, FlushBegin \/ FlushWait \/ FlushDone \/ ServerDown \/ Exit
  PROVE  Inv'
<1>1. TypeOK /\ CallsInv /\ TimersInv /\ CountsInv /\ OwedInv /\ TimerType
  BY Types DEF Inv
<1>2. CASE Exit
  BY <1>1, <1>2, ExitHasType, ExitCalls, NoEntryTimers, ExitCounts, ExitOwed DEF Inv
<1>3. CASE FlushBegin \/ FlushWait \/ FlushDone \/ ServerDown
  <2>1. ShutdownLosesNothing'
    BY <1>3, StillAlive DEF FlushBegin, FlushWait, FlushDone, ServerDown
  <2>2. CallsInv'
    BY <1>1, <1>3, CallsAlone DEF FlushBegin, FlushWait, FlushDone, ServerDown, gameVars, sendVars
  <2>3. CASE FlushBegin
    BY <1>1, <2>1, <2>2, <2>3, TakenCount, FlushBeginType, NoEntryTimers, FlushBeginCounts,
       FlushBeginOwed DEF Inv
  <2>4. CASE FlushWait \/ FlushDone \/ ServerDown
    <3>1. TimersInv'
      BY <1>1, <2>4, TimersAlone DEF FlushWait, FlushDone, ServerDown, gameVars
    <3>2. TypeOK' /\ CountsInv'
      BY <1>1, <2>4, DownType, QuietCounts
    <3>3. OwedInv'
      BY <1>1, <2>4, DownOwed, FlushDoneOwed
    <3>4. QED
      BY <2>1, <2>2, <3>1, <3>2, <3>3 DEF Inv
  <2>5. QED
    BY <1>3, <2>3, <2>4
<1>4. QED
  BY <1>2, <1>3

LEMMA StutterStep ==
  ASSUME Inv, UNCHANGED vars
  PROVE  Inv'
<1>1. UNCHANGED <<gameVars, deciding, timerVars, inflight, exitVars, sendVars, report, book,
                  sends, unsure, owed>>
  BY DEF vars
<1>2. TypeOK /\ CallsInv /\ TimersInv /\ CountsInv /\ OwedInv /\ TimerType
  BY Types DEF Inv
<1>3. TypeOK'
  BY <1>1, <1>2 DEF TypeOK, gameVars, timerVars, exitVars, sendVars
<1>4. CallsInv'
  BY <1>1, <1>2, CallsAlone DEF gameVars, sendVars
<1>5. TimersInv'
  BY <1>1, <1>2, TimersAlone DEF gameVars, exitVars
<1>6. CountsInv'
  BY <1>1, <1>2, CountsAlone DEF timerVars, exitVars, sendVars, Counted
<1>7. OwedInv' /\ ShutdownLosesNothing'
  BY <1>1, <1>2 DEF Inv, OwedInv, ShutdownLosesNothing, Handling, Looks, gameVars, timerVars,
                    exitVars, sendVars
<1>8. QED
  BY <1>3, <1>4, <1>5, <1>6, <1>7 DEF Inv

LEMMA NextInv == Inv /\ [Next]_vars => Inv'
<1>1. ASSUME Inv, alive /\ Process PROVE Inv'
  BY <1>1, MatchStep, CallStep, ShutdownStep DEF Process
<1>2. ASSUME Inv, Remote PROVE Inv'
  BY <1>2, RemoteStep DEF Remote
<1>3. QED
  BY <1>1, <1>2, StutterStep DEF Next

LEMMA SpecInv == Spec => []Inv
BY InitInv, NextInv, PTL DEF Spec

-----------------------------------------------------------------------------
(* Theorems.                                                               *)

(* Calls, timers, records and the book stay within their types.            *)
THEOREM ReporterTypeOK == Spec => []TypeOK
<1>1. Inv => TypeOK
  BY DEF Inv
<1>2. QED
  BY <1>1, SpecInv, PTL

(* No timer is ever forgotten: each that can still run out is the timer of *)
(* an entry in `waiting`, and every entry has one (withdrawLocked, fire).  *)
THEOREM ReporterTimersAccounted == Spec => []TimersAccounted
<1>1. Inv => TimersAccounted
  BY DEF Inv, TimersInv
<1>2. QED
  BY <1>1, SpecInv, PTL

(* The WaitGroup counts exactly what is waiting or under way, so it never  *)
(* goes negative and does not keep Flush waiting for nothing (inflight).   *)
THEOREM ReporterInflightExact == Spec => [](InflightExact /\ inflight >= 0)
<1>1. Inv => InflightExact /\ inflight >= 0
  BY CountsType DEF Inv, CountsInv
<1>2. QED
  BY <1>1, SpecInv, PTL

(* A shutdown in time loses no result that was only waiting (Flush).       *)
THEOREM ReporterShutdownLosesNothing == Spec => []ShutdownLosesNothing
<1>1. Inv => ShutdownLosesNothing
  BY DEF Inv
<1>2. QED
  BY <1>1, SpecInv, PTL

(* A result is sent by a timer only after the grace period of the last win *)
(* (fire, "Compared by pointer").                                          *)
THEOREM ReporterGraceIsFull == Spec => GraceIsFull
<1> DEFINE A == \A c \in Callers : call'[c].by = "timer" /\ call[c].by # "timer" =>
                  <<call'[c].match, wins[call'[c].match]>> \in fired
<1>1. ASSUME Inv, [Next]_vars PROVE A
  <2>1. TypeOK /\ CallsInv /\ TimersInv /\ call \in [Callers -> CallType]
    BY <1>1, Types DEF Inv, SendType
  <2> SUFFICES ASSUME NEW c \in Callers, call'[c].by = "timer", call[c].by # "timer"
               PROVE  <<call'[c].match, wins[call'[c].match]>> \in fired
    OBVIOUS
  <2>2. ASSUME NEW m \in Matches, NEW n \in 1..MaxWins, Fire(m, n)
        PROVE  <<call'[c].match, wins[call'[c].match]>> \in fired
    <3>1. Mine(m, n) /\ Call(m, "timer") /\ <<m, n>> \in fired
      BY <2>2 DEF Fire
    <3> PICK d \in Callers : call[d] = Idle /\ call' = [call EXCEPT ![d] = NewCall(m, "timer")]
      BY <3>1, CallIsNew
    <3>2. d = c /\ call'[c].match = m
      BY <2>1 DEF NewCall
    <3>3. wins[m] = n
      BY <2>1, <3>1, ReporterAssumption DEF Mine, TimersInv, EntriesInv
    <3>4. QED
      BY <3>1, <3>2, <3>3
  <2>3. ASSUME NEW m \in Matches, NEW by \in {"now", "page", "flush"}, Call(m, by)
        PROVE  FALSE
    <3> PICK d \in Callers : call[d] = Idle /\ call' = [call EXCEPT ![d] = NewCall(m, by)]
      BY <2>3, CallIsNew
    <3>1. QED
      BY <2>1 DEF NewCall
  <2>4. CASE call' = call
    BY <2>4
  <2>5. ASSUME NEW d \in Callers, Begin(d) \/ Withhold(d) \/ Record(d) \/ GiveUp(d)
        PROVE  FALSE
    BY <2>1, <2>5, FinishEnds DEF Begin, Withhold, Record, GiveUp, CallType, NoCaller
  <2>6. ASSUME NEW d \in Callers, Accept(d) \/ Conflict(d) \/ Refuse(d) \/ Vanish(d)
        PROVE  FALSE
    BY <2>1, <2>6, RemoteKeepsCallers
  <2>7. CASE Exit
    BY <2>1, <2>7, ExitEnds DEF NoCaller
  <2>8. CASE UNCHANGED vars
    BY <2>4, <2>8 DEF vars, sendVars
  <2>9. QED
    BY <1>1, <2>2, <2>3, <2>4, <2>5, <2>6, <2>7, <2>8
       DEF Next, Process, Remote, Win, Schedule, Undo, RunOut, PageSend, FlushNext,
           FlushBegin, FlushWait, FlushDone, ServerDown, sendVars
<1>2. QED
  BY <1>1, SpecInv, PTL DEF Spec, GraceIsFull

(* What a step does to what is on record as delivered.                     *)
LEMMA DoneStep ==
  ASSUME Inv, [Next]_vars, NEW m \in Matches
  PROVE  /\ report[m].done => report'[m].done /\ report'[m].sent = report[m].sent
         /\ report'[m].done =>
              \/ report[m].done
              \/ \E c \in Callers : Record(c) /\ Arrived(c) /\ m = call[c].match
<1>1. TypeOK /\ ReportType /\ OneAtATime
  BY Types DEF Inv, CallsInv
<1>2. CASE report' = report
  BY <1>2
<1>3. ASSUME NEW k \in Matches, NEW e \in BOOLEAN, report' = [report EXCEPT ![k].due = e]
      PROVE  report'[m].done = report[m].done /\ report'[m].sent = report[m].sent
  BY <1>1, <1>3 DEF ReportType
<1>4. ASSUME NEW c \in Callers, Withhold(c) \/ Record(c) \/ GiveUp(c)
      PROVE  /\ report[m].done => report'[m].done /\ report'[m].sent = report[m].sent
             /\ report'[m].done =>
                  report[m].done \/ (Record(c) /\ Arrived(c) /\ m = call[c].match)
  <2>1. call[c].match \in Matches
    BY <1>1, <1>4 DEF Withhold, Record, GiveUp, OneAtATime
  <2>2. QED
    BY <1>1, <1>4, <2>1, RecordEffect
<1>5. ASSUME NEW k \in Matches, Schedule(k) \/ Undo(k)
      PROVE  report' = report \/ \E e \in BOOLEAN : report' = [report EXCEPT ![k].due = e]
  BY <1>5 DEF Schedule, Undo
<1>6. CASE Remote
  BY <1>2, <1>6 DEF Remote, Accept, Conflict, Refuse, Vanish, Rest
<1>7. CASE UNCHANGED vars
  BY <1>2, <1>7 DEF vars
<1>8. CASE Process
  BY <1>2, <1>3, <1>4, <1>5, <1>8
     DEF Process, Win, RunOut, Fire, PageSend, FlushNext, Begin, FlushBegin, FlushWait,
         FlushDone, ServerDown, Exit
<1>9. QED
  BY <1>6, <1>7, <1>8 DEF Next

(* The first success stands: what is recorded as delivered stays so, with  *)
(* the sets it was sent with, and no further request leaves (Reported,     *)
(* send).                                                                  *)
THEOREM ReporterFirstSuccessStands == Spec => FirstSuccessStands
<1> DEFINE A == \A m \in Matches : report[m].done =>
                  /\ report'[m].done /\ report'[m].sent = report[m].sent
                  /\ \A c \in Callers : call'[c].pc = "post" /\ call'[c].match = m =>
                                       call[c].pc = "post"
<1>1. ASSUME Inv, [Next]_vars PROVE A
  <2>1. TypeOK /\ CallsInv /\ call \in [Callers -> CallType]
    BY <1>1, Types DEF Inv, SendType
  <2> SUFFICES ASSUME NEW m \in Matches, report[m].done,
                      NEW c \in Callers, call'[c].pc = "post", call'[c].match = m
               PROVE  call[c].pc = "post"
    BY <1>1, DoneStep
  <2>2. ASSUME NEW k, NEW by \in {"now", "timer", "page", "flush"}, Call(k, by)
        PROVE  call[c].pc = "post"
    <3> PICK d \in Callers : call[d] = Idle /\ call' = [call EXCEPT ![d] = NewCall(k, by)]
      BY <2>2, CallIsNew
    <3>1. QED
      BY <2>1 DEF NewCall
  <2>3. CASE call' = call
    BY <2>3
  <2>4. ASSUME NEW d \in Callers, Begin(d)
        PROVE  call[c].pc = "post"
    <3>1. CASE NothingToSend(call[d].match)
      BY <2>1, <2>4, <3>1, FinishEnds DEF Begin
    <3>2. CASE ~NothingToSend(call[d].match)
      <4>1. /\ call'[d].match = call[d].match
            /\ \A b \in Callers : b # d => call'[b] = call[b]
        BY <2>1, <2>4, <3>2 DEF Begin, CallType
      <4>2. c # d
        BY <3>2, <4>1 DEF NothingToSend
      <4>3. QED
        BY <4>1, <4>2
    <3>3. QED
      BY <3>1, <3>2
  <2>5. ASSUME NEW d \in Callers, Withhold(d) \/ Record(d) \/ GiveUp(d)
        PROVE  call[c].pc = "post"
    BY <2>1, <2>5, FinishEnds DEF Withhold, Record, GiveUp
  <2>6. ASSUME NEW d \in Callers, Accept(d) \/ Conflict(d) \/ Refuse(d) \/ Vanish(d)
        PROVE  call[c].pc = "post"
    <3>1. Idle.pc = "idle"
      BY DEF Idle
    <3>2. CASE Vanish(d)
      BY <2>1, <3>1, <3>2 DEF Vanish
    <3>3. CASE Accept(d) \/ Conflict(d) \/ Refuse(d)
      BY <2>1, <3>1, <3>3, AnsweredEnds DEF Accept, Conflict, Refuse
    <3>4. QED
      BY <2>6, <3>2, <3>3
  <2>7. CASE Exit
    BY <2>1, <2>7, ExitEnds
  <2>8. CASE UNCHANGED vars
    BY <2>3, <2>8 DEF vars, sendVars
  <2>9. QED
    BY <1>1, <2>2, <2>3, <2>4, <2>5, <2>6, <2>7, <2>8
       DEF Next, Process, Remote, Win, Schedule, Undo, RunOut, Fire, PageSend, FlushNext,
           FlushBegin, FlushWait, FlushDone, ServerDown, sendVars
<1>2. QED
  BY <1>1, SpecInv, PTL DEF Spec, FirstSuccessStands

-----------------------------------------------------------------------------
(* Reporter implements ResultBook.                                         *)

Done == [m \in Matches |-> report[m].done]

LEMMA InitBook == Init => Book!Init
BY DEF Init, Book!Init

LEMMA BookStutters ==
  ASSUME UNCHANGED <<won, book, unsure>>, \A m \in Matches : report'[m].done = report[m].done
  PROVE  UNCHANGED Book!vars
BY DEF Book!vars

LEMMA WinIsWin ==
  ASSUME Inv, NEW m \in Matches, NEW s \in Scores, Win(m, s)
  PROVE  Book!Next
<1>1. Book!Win(m, s)
  BY DEF Win, Book!Win
<1>2. QED
  BY <1>1 DEF Book!Next

(* What Schmetterpause accepts is the first result, or one of an operator  *)
(* after an attempt was given up.                                          *)
LEMMA AcceptIsEnter ==
  ASSUME Inv, NEW c \in Callers, Accept(c)
  PROVE  Book!Next
<1> DEFINE m == call[c].match
           s == call[c].score
<1>1. /\ m \in Matches /\ m \in Wanted /\ s \in won[m] /\ s \in Scores
      /\ call[c].answer = "none" /\ call[c].pc \in {"post", "idle"}
      /\ m \in CheckedIn => book[m] = <<>>
      /\ UNCHANGED <<won, report, unsure>>
  BY Types DEF Inv, CallsInv, WireInv, Accept, GameType, Rest, gameVars
<1>2. book[m] = <<>> \/ (unsure[m] /\ m \notin CheckedIn)
  <2> SUFFICES ASSUME book[m] # <<>> PROVE unsure[m]
    BY <1>1
  <2>1. CASE call[c].pc = "idle"
    BY <2>1 DEF Inv, CallsInv, WireInv, Accept
  <2>2. CASE call[c].pc = "post"
    <3>1. \A d \in Callers : call[d].pc = "post" => d = c
      BY <2>2 DEF Inv, CallsInv, OneAtATime
    <3>2. ~report[m].done
      BY <2>2 DEF Inv, CallsInv, OneAtATime
    <3>3. QED
      BY <1>1, <3>1, <3>2 DEF Inv, CallsInv, BookIsAnswered
  <2>3. QED
    BY <1>1, <2>1, <2>2
<1>3. book' = [book EXCEPT ![m] = Append(@, s)]
  BY DEF Accept
<1>4. Book!Enter(m, s)
  BY <1>1, <1>2, <1>3 DEF Book!Enter
<1>5. QED
  BY <1>1, <1>4 DEF Book!Next

LEMMA LearnIsNext ==
  ASSUME NEW m \in Matches, Book!Learn(m)
  PROVE  Book!Next
BY DEF Book!Next

LEMMA RecordIsLearn ==
  ASSUME Inv, NEW c \in Callers, Record(c)
  PROVE  Book!Next \/ UNCHANGED Book!vars
<1> PICK m \in Matches : m = call[c].match
  BY DEF Inv, CallsInv, OneAtATime, Record
<1>1. TypeOK /\ ReportType /\ UNCHANGED <<won, book, unsure>>
  BY Types DEF Inv, Record, gameVars
<1>2. CASE Arrived(c)
  <2>1. book[m] # <<>>
    BY <1>2 DEF Inv, CallsInv, AnswersAreTrue, Record
  <2>2. report'[m].done /\ \A k \in Matches : k # m => report'[k].done = report[k].done
    BY <1>1, <1>2 DEF Record, Delivered, ReportType
  <2>3. Done' = [Done EXCEPT ![m] = TRUE]
    BY <1>1, <2>2, RecordEffect DEF Done, ReportType
  <2>4. Book!Learn(m)
    BY <1>1, <2>1, <2>3 DEF Book!Learn, Done
  <2>5. QED
    BY <1>1, <2>4, LearnIsNext
<1>3. CASE ~Arrived(c)
  <2>1. \A k \in Matches : report'[k].done = report[k].done
    BY <1>1, <1>3, RecordEffect DEF ReportType
  <2>2. QED
    BY <1>1, <2>1, BookStutters
<1>4. QED
  BY <1>2, <1>3

LEMMA GiveUpIsLose ==
  ASSUME Inv, NEW c \in Callers, GiveUp(c)
  PROVE  Book!Next
<1> DEFINE m == call[c].match
<1>1. /\ m \in Matches /\ TypeOK /\ ReportType /\ UNCHANGED <<won, book>>
      /\ unsure' = [unsure EXCEPT ![m] = TRUE]
  BY Types DEF Inv, CallsInv, OneAtATime, GiveUp, gameVars
<1>2. \A k \in Matches : report'[k].done = report[k].done
  BY <1>1 DEF GiveUp, Failed, ReportType
<1>3. Book!Lose(m)
  BY <1>1, <1>2 DEF Book!Lose
<1>4. QED
  BY <1>1, <1>3 DEF Book!Next

(* Only one call has a request out, so the process that exits leaves at    *)
(* most one attempt it does not know the end of.                           *)
LEMMA ExitIsLose ==
  ASSUME Inv, Exit
  PROVE  Book!Next \/ UNCHANGED Book!vars
<1>1. /\ UNCHANGED <<won, book, report>> /\ unsure \in [Matches -> BOOLEAN]
      /\ unsure' = [m \in Matches |->
                      unsure[m] \/ \E c \in Callers : call[c].pc = "post" /\ call[c].match = m]
  BY Types DEF Inv, Exit, gameVars, OtherType
<1>2. CASE \A c \in Callers : call[c].pc # "post"
  <2>1. unsure' = unsure
    BY <1>1, <1>2
  <2>2. QED
    BY <1>1, <2>1, BookStutters
<1>3. ASSUME NEW c \in Callers, call[c].pc = "post"
      PROVE  Book!Next
  <2> DEFINE m == call[c].match
  <2>1. m \in Matches /\ \A d \in Callers : call[d].pc = "post" => d = c
    BY <1>3 DEF Inv, CallsInv, OneAtATime
  <2>2. \A k \in Matches :
          (unsure[k] \/ \E d \in Callers : call[d].pc = "post" /\ call[d].match = k)
            <=> (IF k = m THEN TRUE ELSE unsure[k])
    BY <1>3, <2>1
  <2>3. unsure' = [unsure EXCEPT ![m] = TRUE]
    BY <1>1, <2>1, <2>2
  <2>4. Book!Lose(m)
    BY <1>1, <2>3 DEF Book!Lose
  <2>5. QED
    BY <2>1, <2>4 DEF Book!Next
<1>4. QED
  BY <1>2, <1>3

LEMMA BookStep == Inv /\ [Next]_vars => [Book!Next]_(Book!vars)
<1> SUFFICES ASSUME Inv, [Next]_vars PROVE Book!Next \/ UNCHANGED Book!vars
  OBVIOUS
<1>1. CASE UNCHANGED <<won, book, unsure, report>>
  BY <1>1, BookStutters
<1>2. ASSUME NEW k \in Matches, Schedule(k) \/ Undo(k)
      PROVE  UNCHANGED Book!vars
  <2>1. /\ UNCHANGED <<won, book, unsure>>
        /\ report' = report \/ \E e \in BOOLEAN : report' = [report EXCEPT ![k].due = e]
    BY <1>2 DEF Schedule, Undo, gameVars
  <2>2. \A m \in Matches : report'[m].done = report[m].done
    BY <2>1, Types DEF Inv, ReportType
  <2>3. QED
    BY <2>1, <2>2, BookStutters
<1>3. ASSUME NEW c \in Callers, Withhold(c)
      PROVE  UNCHANGED Book!vars
  <2>1. \A m \in Matches : report'[m].done = report[m].done
    BY <1>3, Types DEF Inv, Withhold, ReportType
  <2>2. QED
    BY <1>3, <2>1, BookStutters DEF Withhold, gameVars
<1>4. CASE Remote
  BY <1>1, <1>4, AcceptIsEnter DEF Remote, Conflict, Refuse, Vanish, Rest, gameVars
<1>5. CASE Process
  BY <1>1, <1>2, <1>3, <1>5, WinIsWin, RecordIsLearn, GiveUpIsLose, ExitIsLose
     DEF Process, RunOut, Fire, PageSend, FlushNext, Begin, FlushBegin, FlushWait, FlushDone,
         ServerDown, gameVars
<1>6. CASE UNCHANGED vars
  BY <1>1, <1>6 DEF vars, gameVars
<1>7. QED
  BY <1>4, <1>5, <1>6 DEF Next

(* The hand-over keeps the promises of ResultBook: what is entered is a    *)
(* score the match was won with, a checked-in match is entered once, and   *)
(* what is on record as delivered is there.                                *)
THEOREM ReporterImplementsResultBook == Spec => ImplementsResultBook
BY InitBook, BookStep, SpecInv, PTL DEF Spec, ImplementsResultBook, Book!Spec
=============================================================================
