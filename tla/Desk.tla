-------------------------------- MODULE Desk --------------------------------
(***************************************************************************)
(* internal/checkin, with its doors in internal/api: players claim the     *)
(* halves of the table, and the second half claimed starts the match.      *)
(*                                                                         *)
(* A tap is one fob at the hub, or one phone check-in Schmetterpause       *)
(* claims with; it is sent any number of times, in any order, by requests  *)
(* that run side by side.  The desk's lock is let go of while              *)
(* Schmetterpause answers, and held while the match is created; the        *)
(* registry's is another lock, so the page creates matches in between.     *)
(* Time passes in quiet periods of a minute, while the lock is free.       *)
(***************************************************************************)
EXTENDS Integers, Sequences, FiniteSets, SequencesExt

CONSTANTS
  Players, Sources, Half,
  Requests,     \* requests under way at once
  Timeout,      \* how long a lone claim holds its half
  RestartMax,   \* scorer.DefaultRestartMaxEventID
  MaxSources,   \* maxSources
  MaxPhone,     \* maxPhoneClaims
  NoClaim, NoSource, NoOne,
  MaxTaps, MaxAttempts, MaxMatches   \* bounds: taps, attempts, matches

ASSUME DeskAssumption ==
  /\ Cardinality(Half) = 2
  /\ Timeout \in Nat \ {0} /\ MaxSources \in Nat \ {0} /\ MaxPhone \in Nat \ {0}
  /\ RestartMax \in Nat /\ MaxTaps \in Nat /\ MaxAttempts \in Nat /\ MaxMatches \in Nat
  /\ NoSource \notin Sources /\ NoOne \notin Requests

VARIABLES
  claims,     \* per half: who holds it, with which check-in, for how long
  sources,    \* per source: high, the attempt for it, quiet for a minute
  phone,      \* phone claims remembered, oldest first
  attempts,   \* how many attempts have begun
  open,       \* the attempts that have no answer yet
  holder,     \* the request that holds the lock while it creates a match
  request,    \* per request: what it is doing
  tap,        \* the taps there have been
  checkins,   \* check-ins recorded at Schmetterpause
  matches,    \* real matches: state and handover
  page,       \* a match created on the page, its claims not yet dropped
  (* History, not in the code. *)
  recorded,   \* taps whose record has not been outlived or forgotten
  lost,       \* phone check-ins whose record made room for others
  twice       \* taps taken again while they were recorded

deskVars == <<claims, sources, phone, attempts, open, holder>>
tableVars == <<matches, page>>
history == <<recorded, lost, twice>>
vars == <<deskVars, tableVars, tap, request, checkins, history>>

OtherHalf(h) == CHOOSE g \in Half : g # h
Ages == 0..Timeout

Claim == [player : Players, checkin : Nat, age : Ages, armed : BOOLEAN]
Source == [high : Nat, last : 1..MaxAttempts, quiet : BOOLEAN]
ASSUME SourceAssumption == NoSource \notin Source

Tap == [via : {"fob", "phone"}, source : Sources \cup {NoSource}, event : Nat,
        half : Half, player : Players, checkin : Nat]
Match == [state : {"running", "won", "ended", "again"}, handover : [Half -> [player : Players, checkin : Nat] \cup {NoClaim}]]
Idle == [pc |-> "idle", tap |-> 0, attempt |-> 0, checkin |-> 0]

TypeOK ==
  /\ claims \in [Half -> Claim \cup {NoClaim}]
  /\ sources \in [Sources -> Source \cup {NoSource}]
  /\ Cardinality({s \in Sources : sources[s] # NoSource}) <= MaxSources
  /\ phone \in Seq([tap : 1..MaxTaps, attempt : 1..MaxAttempts]) /\ Len(phone) <= MaxPhone
  /\ attempts \in 0..MaxAttempts /\ open \subseteq 1..attempts
  /\ holder \in Requests \cup {NoOne}
  /\ request \in [Requests -> [pc : {"idle", "ask", "settle", "start", "wait"},
                               tap : 0..MaxTaps, attempt : 0..MaxAttempts, checkin : Nat]]
  /\ tap \in Seq(Tap) /\ checkins \in Nat
  /\ matches \in Seq(Match) /\ page \in BOOLEAN
  /\ recorded \subseteq DOMAIN tap /\ lost \subseteq DOMAIN tap /\ twice \subseteq DOMAIN tap

Init ==
  /\ claims = [h \in Half |-> NoClaim]
  /\ sources = [s \in Sources |-> NoSource]
  /\ phone = <<>> /\ attempts = 0 /\ open = {} /\ holder = NoOne
  /\ request = [r \in Requests |-> Idle]
  /\ tap = <<>> /\ checkins = 0
  /\ matches = <<>> /\ page = FALSE
  /\ recorded = {} /\ lost = {} /\ twice = {}

-----------------------------------------------------------------------------
(* The table and the players.                                              *)

Occupied == \E m \in DOMAIN matches : matches[m].state \in {"running", "again"}

(* The hub's counter goes up, or starts again when the hub lost power.     *)
NextEvents(s) ==
  LET mine == {t \in DOMAIN tap : tap[t].source = s}
  IN  {1} \cup {tap[t].event + 1 : t \in {u \in mine : \A t \in mine : t <= u}}

(* What is sent: a new tap, or one again.                                  *)
TapFob(s, h, p) ==
  /\ Len(tap) < MaxTaps /\ UNCHANGED checkins
  /\ \E e \in NextEvents(s) :
       tap' = Append(tap, [via |-> "fob", source |-> s, event |-> e, half |-> h, player |-> p,
                           checkin |-> 0])

TapPhone(h, p) ==
  /\ Len(tap) < MaxTaps /\ checkins' = checkins + 1
  /\ tap' = Append(tap, [via |-> "phone", source |-> NoSource, event |-> 0, half |-> h,
                         player |-> p, checkin |-> checkins'])

(* A match is won, ended by hand, or reopened by an undo.                  *)
Play(m) ==
  /\ m \in DOMAIN matches
  /\ \/ /\ matches[m].state \in {"running", "again"}
        /\ \E s \in {"won", "ended"} : matches' = [matches EXCEPT ![m].state = s]
     \/ /\ matches[m].state = "won"
        /\ matches' = [matches EXCEPT ![m].state = "again"]
  /\ UNCHANGED <<deskVars, tap, page, request, checkins, history>>

-----------------------------------------------------------------------------
(* Under the desk's lock.                                                  *)

Expired(cs) == [h \in Half |-> IF cs[h] # NoClaim /\ cs[h].age >= Timeout THEN NoClaim ELSE cs[h]]

(* Halves come by the same player again, by the player of the other half,  *)
(* by another player, or free.                                             *)
Outcomes(cs, h, p) ==
  CASE cs[h] # NoClaim /\ cs[h].player = p -> "unchanged"
    [] cs[OtherHalf(h)] # NoClaim /\ cs[OtherHalf(h)].player = p -> "moved"
    [] cs[h] # NoClaim -> "replaced"
    [] OTHER -> "claimed"

Claimed(cs, h, c) ==
  [cs EXCEPT ![h] = c,
             ![OtherHalf(h)] = IF Outcomes(cs, h, c.player) = "moved" THEN NoClaim ELSE @]

(* Every claim arms a sweep of its own; one that finds nothing due when it  *)
(* fires does nothing, so only the sweep of a claim still held is kept.     *)
Armed(cs, h, p) == TRUE

Both(cs) == \A h \in Half : cs[h] # NoClaim

Restarted(s, id) == id <= RestartMax /\ sources[s].quiet

IsNew_Equal(s, id) == sources[s] # NoSource => (id >= sources[s].high \/ Restarted(s, id))
IsNew(s, id) == sources[s] # NoSource => (id > sources[s].high \/ Restarted(s, id))

(* Room for a source that is not known: any quiet one goes before one that *)
(* was heard from within the minute.                                       *)
Forgettable(s) ==
  LET known == {x \in Sources : sources[x] # NoSource} IN
  IF s \in known \/ Cardinality(known) < MaxSources THEN {NoSource}
  ELSE LET silent == {x \in known : sources[x].quiet}
       IN  IF silent # {} THEN silent ELSE known

Begun(s, id, forgotten, attempt) ==
  [x \in Sources |-> IF x = s THEN [high |-> id, last |-> attempt, quiet |-> FALSE]
                     ELSE IF x = forgotten THEN NoSource ELSE sources[x]]

Remembered(t, attempt) ==
  Append(IF Len(phone) >= MaxPhone THEN Tail(phone) ELSE phone, [tap |-> t, attempt |-> attempt])

Recall(t) == {i \in DOMAIN phone : phone[i].tap = t}

(* The attempt has its answer: refused, unknown, claimed, started...       *)
Finish(r, cs) ==
  /\ claims' = cs
  /\ open' = open \ {request[r].attempt}
  /\ request' = [request EXCEPT ![r] = Idle]

(* A new attempt: refused while a real match runs, or on to the calls to   *)
(* Schmetterpause, without the lock.                                       *)
Attempt(r, t, pc) ==
  /\ attempts < MaxAttempts
  /\ attempts' = attempts + 1
  /\ twice' = twice \cup (recorded \cap {t})
  /\ IF Occupied
     THEN UNCHANGED <<open, request>>
     ELSE /\ open' = open \cup {attempts'}
          /\ request' = [request EXCEPT ![r] = [pc |-> pc, tap |-> t, attempt |-> attempts',
                                                checkin |-> tap'[t].checkin]]

WaitFor(r, t, attempt) ==
  /\ request' = [request EXCEPT ![r] = [pc |-> "wait", tap |-> t, attempt |-> attempt, checkin |-> 0]]
  /\ UNCHANGED <<attempts, open, twice>>

(* CheckIn, up to the calls.  The event_id again waits for its attempt, an *)
(* older one is a duplicate.                                               *)
CheckIn(r, t) ==
  /\ request[r] = Idle /\ holder = NoOne
  /\ tap'[t].via = "fob"
  /\ claims' = Expired(claims)
  /\ LET s == tap'[t].source
         id == tap'[t].event
     IN  \/ /\ IsNew(s, id)
            /\ \E f \in Forgettable(s) :
                 /\ sources' = Begun(s, id, f, attempts + 1)
                 /\ recorded' = {u \in recorded : tap[u].source # f \/ tap[u].via # "fob"} \cup {t}
            /\ Attempt(r, t, "ask")
         \/ /\ ~IsNew(s, id)
            /\ sources' = [sources EXCEPT ![s].quiet = FALSE]
            /\ IF id = sources[s].high THEN WaitFor(r, t, sources[s].last)
               ELSE UNCHANGED <<request, attempts, open, twice>>
            /\ UNCHANGED recorded
  /\ UNCHANGED <<phone, holder, tableVars, lost>>

(* ClaimByPhone, up to the call for the name.                              *)
ClaimByPhone(r, t) ==
  /\ request[r] = Idle /\ holder = NoOne
  /\ tap'[t].via = "phone"
  /\ claims' = Expired(claims)
  /\ \/ \E i \in Recall(t) : WaitFor(r, t, phone[i].attempt) /\ UNCHANGED <<phone, recorded, lost>>
     \/ /\ Recall(t) = {}
        /\ phone' = Remembered(t, attempts + 1)
        /\ LET forgotten == {u \in recorded : tap[u].via = "phone" /\ Recall(u)' = {}}
           IN  recorded' = (recorded \ forgotten) \cup {t} /\ lost' = lost \cup forgotten
        /\ Attempt(r, t, "settle")
  /\ UNCHANGED <<sources, holder, tableVars>>

(* Schmetterpause knows the fob and records a check-in.                    *)
ResolveFob(r) ==
  /\ request[r].pc = "ask"
  /\ checkins' = checkins + 1
  /\ request' = [request EXCEPT ![r].pc = "settle", ![r].checkin = checkins']
  /\ UNCHANGED <<deskVars, tap, tableVars, history>>

(* It does not know the fob, or does not answer.                           *)
Unresolved(r) ==
  /\ request[r].pc = "ask" /\ holder = NoOne
  /\ Finish(r, Expired(claims))
  /\ UNCHANGED <<sources, phone, attempts, holder, tap, tableVars, checkins, history>>

(* settle: the table is asked again, the half is claimed against the       *)
(* claims as they are by then, and with both the match is created.         *)
Settle(r) ==
  /\ request[r].pc = "settle" /\ holder = NoOne
  /\ LET t == tap[request[r].tap]
         free == Expired(claims)
         held == Claimed(free, t.half,
                         [player |-> t.player, checkin |-> request[r].checkin, age |-> 0,
                          armed |-> Armed(free, t.half, t.player)])
     IN  IF Occupied
         THEN Finish(r, free) /\ UNCHANGED holder
         ELSE IF Both(held)
         THEN /\ claims' = held /\ holder' = r
              /\ request' = [request EXCEPT ![r].pc = "start"]
              /\ UNCHANGED open
         ELSE Finish(r, held) /\ UNCHANGED holder
  /\ UNCHANGED <<sources, phone, attempts, tap, tableVars, checkins, history>>

Released_NotAtAll == claims
Released == [h \in Half |-> NoClaim]

Handover == [h \in Half |-> [player |-> claims[h].player, checkin |-> claims[h].checkin]]

(* The match is created and the claims end with it.                        *)
StartMatch(r) ==
  /\ holder = r /\ Len(matches) < MaxMatches
  /\ matches' = Append(matches, [state |-> "running", handover |-> Handover])
  /\ Finish(r, Released) /\ holder' = NoOne
  /\ UNCHANGED <<sources, phone, attempts, tap, page, checkins, history>>

(* It cannot be created: the claims stay.                                  *)
StartFails(r) ==
  /\ holder = r
  /\ Finish(r, claims) /\ holder' = NoOne
  /\ UNCHANGED <<sources, phone, attempts, tap, tableVars, checkins, history>>

(* A repeat has the first attempt's answer, or its sender has gone.        *)
Repeated(r) ==
  /\ request[r].pc = "wait" /\ request[r].attempt \notin open
  /\ request' = [request EXCEPT ![r] = Idle]
  /\ UNCHANGED <<deskVars, tap, tableVars, checkins, history>>

GiveUp(r) ==
  /\ request[r].pc = "wait"
  /\ request' = [request EXCEPT ![r] = Idle]
  /\ UNCHANGED <<deskVars, tap, tableVars, checkins, history>>

-----------------------------------------------------------------------------
(* start: a match is created on the page, then the desk is told.           *)

Create ==
  /\ ~page /\ Len(matches) < MaxMatches
  /\ matches' = Append(matches, [state |-> "running", handover |-> [h \in Half |-> NoClaim]])
  /\ page' = TRUE
  /\ UNCHANGED <<deskVars, tap, request, checkins, history>>

Dropped_NotAtAll == claims
Dropped == [h \in Half |-> NoClaim]

Drop ==
  /\ page /\ holder = NoOne
  /\ claims' = Dropped /\ page' = FALSE
  /\ UNCHANGED <<sources, phone, attempts, open, holder, tap, matches, request, checkins, history>>

(* A sweep that is due.                                                    *)
Sweep ==
  /\ holder = NoOne
  /\ \E h \in Half : claims[h] # NoClaim /\ claims[h].armed /\ claims[h].age >= Timeout
  /\ claims' = Expired(claims)
  /\ UNCHANGED <<sources, phone, attempts, open, holder, tap, tableVars, request, checkins, history>>

Older(a) == IF a < Timeout THEN a + 1 ELSE a

(* A minute passes.  A fob's tap is not promised to be known after it: a    *)
(* low event_id is then read as a restart, and what follows it as new.     *)
TimePasses ==
  /\ holder = NoOne
  /\ claims' = [h \in Half |-> IF claims[h] = NoClaim THEN NoClaim
                               ELSE [claims[h] EXCEPT !.age = Older(@)]]
  /\ sources' = [s \in Sources |-> IF sources[s] = NoSource THEN NoSource
                                   ELSE [sources[s] EXCEPT !.quiet = TRUE]]
  /\ recorded' = {t \in recorded : tap[t].via = "phone"}
  /\ UNCHANGED <<phone, attempts, open, holder, tap, tableVars, request, checkins, lost,
                 twice>>

Send(r) ==
  \/ /\ \/ \E s \in Sources, h \in Half, p \in Players : TapFob(s, h, p)
        \/ \E h \in Half, p \in Players : TapPhone(h, p)
     /\ CheckIn(r, Len(tap')) \/ ClaimByPhone(r, Len(tap'))
  \/ /\ UNCHANGED <<tap, checkins>>
     /\ \E t \in DOMAIN tap : CheckIn(r, t) \/ ClaimByPhone(r, t)

Next ==
  \/ \E r \in Requests : \/ Send(r) \/ ResolveFob(r) \/ Unresolved(r) \/ Settle(r)
                         \/ StartMatch(r) \/ StartFails(r) \/ Repeated(r) \/ GiveUp(r)
  \/ \E m \in DOMAIN matches : Play(m)
  \/ Create \/ Drop \/ Sweep \/ TimePasses

(* Schmetterpause's client gives up after five seconds, timers fire, and   *)
(* a lock that is let go of is handed on.                                  *)
Fairness ==
  /\ \A r \in Requests : /\ WF_vars(ResolveFob(r) \/ Unresolved(r))
                         /\ WF_vars(Settle(r))
                         /\ WF_vars(StartMatch(r) \/ StartFails(r))
                         /\ WF_vars(Repeated(r))
  /\ WF_vars(Drop) /\ WF_vars(Sweep) /\ WF_vars(TimePasses)

Spec == Init /\ [][Next]_vars
FairSpec == Spec /\ Fairness

-----------------------------------------------------------------------------
(* Properties.                                                             *)

Forgotten(id) == \E t \in lost : tap[t].checkin = id

(* A check-in is for one match: it is handed over once, and no claim keeps *)
(* it afterwards, so no second result can be reported against it; unless   *)
(* it came by phone and maxPhoneClaims others made the desk forget it      *)
(* (settle, rememberPhone, ADR-0010).                                      *)
CheckinUsedOnce ==
  \A m \in DOMAIN matches, h \in Half :
    LET c == matches[m].handover[h] IN
    c # NoClaim /\ ~Forgotten(c.checkin) =>
      /\ \A n \in DOMAIN matches, g \in Half :
           matches[n].handover[g] # NoClaim /\ <<n, g>> # <<m, h>>
             => matches[n].handover[g].checkin # c.checkin
      /\ \A g \in Half : claims[g] # NoClaim => claims[g].checkin # c.checkin

(* A tap sent again, also while it is still being resolved, is resolved    *)
(* once; only one whose record a quiet minute or too many others took away *)
(* may be resolved again (begin, rememberPhone).                           *)
TapTakenOnce == twice = {}

Unheld == \A h \in Half : claims[h] = NoClaim
TableWasFree == (~page /\ \E m \in DOMAIN matches : matches[m].state = "running") => Unheld

(* Every claim there is afterwards was there before, and no younger.       *)
NothingClaimed ==
  \A h \in Half : claims'[h] # NoClaim =>
    /\ claims[h] # NoClaim
    /\ claims'[h].player = claims[h].player /\ claims'[h].checkin = claims[h].checkin
    /\ claims'[h].age >= claims[h].age

(* A match that starts takes the claims with it, whoever created it and    *)
(* whatever was being resolved; only the page's Drop may still be on its   *)
(* way (#114).  Until it is won or ended nobody holds a half who could     *)
(* pair after it.  A half may be claimed while it is won, and an undo then *)
(* reopens it: that claim stays, until it expires or is dropped, but while *)
(* any real match runs, a reopened one too, no half is claimed, taken over *)
(* or held anew (begin, settle).                                           *)
RunningMatchHasTheTable ==
  [][TableWasFree' /\ (Occupied /\ Occupied' => NothingClaimed)]_vars

(* ADR-0010: "The same player at the same half again changes nothing but   *)
(* the check-in it keeps, which is the newer one".                         *)
NewerCheckinKept ==
  [][\A h \in Half :
       claims[h] # NoClaim /\ claims'[h] # NoClaim /\ claims[h].player = claims'[h].player
         => claims[h].checkin <= claims'[h].checkin]_vars
=============================================================================
