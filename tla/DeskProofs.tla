----------------------------- MODULE DeskProofs -----------------------------
(***************************************************************************)
(* Theorems about Desk, for every number of taps, attempts, requests and   *)
(* matches, and for every bound on what the desk remembers.                *)
(***************************************************************************)
EXTENDS Desk, FiniteSetTheorems, SequenceTheorems, TLAPS

Known == {s \in Sources : sources[s] # NoSource}

(* What a request is at work on, and that both halves are held while one   *)
(* of them creates the match.                                              *)
AtWork ==
  /\ \A r \in Requests : request[r].pc \in {"ask", "settle", "start"} =>
       request[r].tap \in DOMAIN tap /\ request[r].attempt \in 1..attempts
  /\ \A r \in Requests : request[r].pc = "start" <=> holder = r
  /\ holder # NoOne => Both(claims)

DeskTypeInv ==
  /\ TypeOK /\ AtWork
  /\ IsFiniteSet(Known) /\ Len(tap) <= MaxTaps
  /\ \A t \in DOMAIN tap : tap[t].via = "fob" => tap[t].source \in Sources

(* What is recorded is recognised: a fob's tap is no newer than what its   *)
(* source was last heard with, within the minute; a phone's is in the list *)
(* or was pushed out of it.                                                *)
RecordedIsKnown ==
  /\ \A t \in recorded : tap[t].via = "fob" =>
       LET s == tap[t].source
       IN  sources[s] # NoSource /\ ~sources[s].quiet /\ tap[t].event <= sources[s].high
  /\ \A t \in recorded : tap[t].via = "phone" => Recall(t) # {}
  /\ \A i \in DOMAIN phone : phone[i].tap \in DOMAIN tap
  /\ \A t \in DOMAIN tap : tap[t].via = "phone" => t \in recorded \/ t \in lost
  /\ twice = {}

(* Where a check-in may be: brought by a request, with a half that is      *)
(* held, or handed over to a match.                                        *)
Brings(r, id) == request[r].pc = "settle" /\ request[r].checkin = id
Holds(h, id) == claims[h] # NoClaim /\ claims[h].checkin = id
Handed(m, h, id) == matches[m].handover[h] # NoClaim /\ matches[m].handover[h].checkin = id

Nowhere(id) ==
  /\ \A r \in Requests : ~Brings(r, id)
  /\ \A h \in Half : ~Holds(h, id)
  /\ \A m \in DOMAIN matches, h \in Half : ~Handed(m, h, id)

(* It is in one place only.                                                *)
OnePlace(id) ==
  /\ \A r, q \in Requests : Brings(r, id) /\ Brings(q, id) => r = q
  /\ \A g, h \in Half : Holds(g, id) /\ Holds(h, id) => g = h
  /\ \A m, n \in DOMAIN matches, g, h \in Half :
       Handed(m, g, id) /\ Handed(n, h, id) => m = n /\ g = h
  /\ \A r \in Requests, h \in Half : ~(Brings(r, id) /\ Holds(h, id))
  /\ \A r \in Requests, m \in DOMAIN matches, h \in Half : ~(Brings(r, id) /\ Handed(m, h, id))
  /\ \A g \in Half, m \in DOMAIN matches, h \in Half : ~(Holds(g, id) /\ Handed(m, h, id))

CheckinsCounted == \A t \in DOMAIN tap : tap[t].checkin <= checkins

OneUse ==
  /\ \A id \in Nat : id > checkins => Nowhere(id)
  /\ \A id \in Nat : Forgotten(id) \/ OnePlace(id)

-----------------------------------------------------------------------------
(* What the operators make of claims and requests.                         *)

Claims == [Half -> Claim \cup {NoClaim}]
Asking == [pc : {"idle", "ask", "settle", "start", "wait"}, tap : 0..MaxTaps,
           attempt : 0..MaxAttempts, checkin : Nat]

LEMMA ExpiredClaims ==
  ASSUME NEW cs \in Claims
  PROVE  Expired(cs) \in Claims /\ \A h \in Half : Expired(cs)[h] \in {cs[h], NoClaim}
BY DEF Expired, Claims

LEMMA OtherHalfIsOther ==
  ASSUME NEW h \in Half
  PROVE  OtherHalf(h) \in Half /\ OtherHalf(h) # h
<1>1. \E g \in Half : g # h
  <2> SUFFICES ASSUME Half = {h} PROVE FALSE
    OBVIOUS
  <2>1. Cardinality({h}) = 1
    BY FS_Singleton
  <2>2. QED
    BY <2>1, DeskAssumption
<1>2. QED
  BY <1>1 DEF OtherHalf

LEMMA ClaimedClaims ==
  ASSUME NEW cs \in Claims, NEW h \in Half, NEW c \in Claim
  PROVE  /\ Claimed(cs, h, c) \in Claims
         /\ Claimed(cs, h, c)[h] \in {c, NoClaim}
         /\ \A g \in Half : g # h => Claimed(cs, h, c)[g] \in {cs[g], NoClaim}
<1> DEFINE away == Outcomes(cs, h, c.player) = "moved"
           o == OtherHalf(h)
<1>1. Claimed(cs, h, c) = [cs EXCEPT ![h] = c, ![o] = IF away THEN NoClaim ELSE @]
  BY DEF Claimed
<1>0. o # h
  BY OtherHalfIsOther
<1> HIDE DEF away, o
<1>2. CASE away
  <2>1. Claimed(cs, h, c) = [cs EXCEPT ![h] = c, ![o] = NoClaim]
    BY <1>1, <1>2
  <2>2. QED
    BY <2>1 DEF Claims
<1>3. CASE ~away
  <2>1. Claimed(cs, h, c) = [cs EXCEPT ![h] = c, ![o] = @]
    BY <1>1, <1>3
  <2>2. QED
    BY <1>0, <2>1 DEF Claims
<1>4. QED
  BY <1>2, <1>3

LEMMA IdleAsking == Idle \in Asking
BY DeskAssumption DEF Idle, Asking

LEMMA FreeClaims == [h \in Half |-> NoClaim] \in Claims
BY DEF Claims

(* What a request sends is a tap there is, or a new one.                   *)
NewTap(t) ==
  /\ t = Len(tap) + 1 /\ t \notin DOMAIN tap /\ DOMAIN tap' = DOMAIN tap \cup {t}
  /\ \/ tap'[t].via = "fob" /\ tap'[t].source \in Sources /\ tap'[t].checkin = 0
          /\ checkins' = checkins
     \/ tap'[t].via = "phone" /\ checkins' = checkins + 1 /\ tap'[t].checkin = checkins + 1

SentTap(t) ==
  /\ t \in DOMAIN tap' /\ t \in 1..MaxTaps
  /\ tap' \in Seq(Tap) /\ Len(tap') <= MaxTaps /\ checkins' \in Nat
  /\ DOMAIN tap \subseteq DOMAIN tap' /\ \A u \in DOMAIN tap : tap'[u] = tap[u]
  /\ (t \in DOMAIN tap /\ tap' = tap /\ checkins' = checkins) \/ NewTap(t)

LEMMA NewTapIsSent ==
  ASSUME TypeOK, Len(tap) < MaxTaps, NEW x \in Tap, tap' = Append(tap, x),
         \/ x.via = "fob" /\ x.source \in Sources /\ x.checkin = 0 /\ checkins' = checkins
         \/ x.via = "phone" /\ checkins' = checkins + 1 /\ x.checkin = checkins + 1
  PROVE  SentTap(Len(tap'))
<1>1. /\ tap \in Seq(Tap) /\ checkins \in Nat /\ Len(tap) \in Nat
      /\ DOMAIN tap = 1..Len(tap)
  BY DEF TypeOK
<1>2. /\ tap' \in Seq(Tap) /\ Len(tap') = Len(tap) + 1
      /\ \A u \in 1..Len(tap) : tap'[u] = tap[u]
      /\ tap'[Len(tap) + 1] = x
  BY <1>1, AppendProperties
<1>3. DOMAIN tap' = 1..(Len(tap) + 1)
  BY <1>2, LenProperties
<1>4. /\ Len(tap') \in 1..MaxTaps /\ Len(tap') \in DOMAIN tap' /\ Len(tap') \notin DOMAIN tap
      /\ DOMAIN tap' = DOMAIN tap \cup {Len(tap')} /\ Len(tap') <= MaxTaps
  BY <1>1, <1>2, <1>3, DeskAssumption
<1>5. checkins' \in Nat
  BY <1>1
<1>6. NewTap(Len(tap'))
  BY <1>2, <1>4 DEF NewTap
<1>7. QED
  BY <1>1, <1>2, <1>4, <1>5, <1>6 DEF SentTap

LEMMA SendCases ==
  ASSUME DeskTypeInv, NEW r \in Requests, Send(r)
  PROVE  \E t \in DOMAIN tap' : SentTap(t) /\ (CheckIn(r, t) \/ ClaimByPhone(r, t))
<1>0. TypeOK /\ Len(tap) <= MaxTaps /\ checkins \in Nat
  BY DEF DeskTypeInv, TypeOK
<1>1. ASSUME NEW s \in Sources, NEW h \in Half, NEW p \in Players, TapFob(s, h, p)
      PROVE  SentTap(Len(tap'))
  <2>1. PICK e \in NextEvents(s) :
          tap' = Append(tap, [via |-> "fob", source |-> s, event |-> e, half |-> h,
                              player |-> p, checkin |-> 0])
    BY <1>1 DEF TapFob
  <2>2. e \in Nat
    <3>1. \A t \in DOMAIN tap : tap[t].event \in Nat
      <4>1. tap \in Seq(Tap) /\ DOMAIN tap = 1..Len(tap)
        BY <1>0, LenProperties DEF TypeOK
      <4>2. \A t \in DOMAIN tap : tap[t] \in Tap
        BY <4>1, ElementOfSeq
      <4>3. QED
        BY <4>2 DEF Tap
    <3>2. QED
      BY <3>1 DEF NextEvents
  <2> DEFINE x == [via |-> "fob", source |-> s, event |-> e, half |-> h,
                   player |-> p, checkin |-> 0]
  <2>3. x \in Tap /\ x.via = "fob" /\ x.source \in Sources /\ x.checkin = 0
    BY <2>2 DEF Tap
  <2> HIDE DEF x
  <2>4. QED
    BY <1>0, <1>1, <2>1, <2>3, NewTapIsSent DEF TapFob, x
<1>2. ASSUME NEW h \in Half, NEW p \in Players, TapPhone(h, p)
      PROVE  SentTap(Len(tap'))
  <2> DEFINE x == [via |-> "phone", source |-> NoSource, event |-> 0, half |-> h,
                   player |-> p, checkin |-> checkins']
  <2>1. checkins' = checkins + 1 /\ checkins' \in Nat
    BY <1>0, <1>2 DEF TapPhone
  <2>2. x \in Tap /\ x.via = "phone" /\ x.checkin = checkins + 1
    BY <2>1 DEF Tap
  <2> HIDE DEF x
  <2>3. QED
    BY <1>0, <1>2, <2>1, <2>2, NewTapIsSent DEF TapPhone, x
<1>3. ASSUME NEW t \in DOMAIN tap, UNCHANGED <<tap, checkins>>
      PROVE  SentTap(t)
  BY <1>0, <1>3, DeskAssumption DEF SentTap, TypeOK
<1>4. QED
  BY <1>1, <1>2, <1>3 DEF Send, SentTap

-----------------------------------------------------------------------------
(* Types.                                                                  *)

LEMMA KnownShrinks ==
  ASSUME DeskTypeInv, NEW T, T \subseteq Known
  PROVE  IsFiniteSet(T) /\ Cardinality(T) <= MaxSources
<1>1. Cardinality(Known) <= MaxSources /\ IsFiniteSet(Known)
  BY DEF DeskTypeInv, TypeOK, Known
<1>2. IsFiniteSet(T) /\ Cardinality(T) <= Cardinality(Known)
  BY <1>1, FS_Subset
<1>3. Cardinality(T) \in Nat /\ Cardinality(Known) \in Nat
  BY <1>1, <1>2, FS_CardinalityType
<1>4. QED
  BY <1>1, <1>2, <1>3, DeskAssumption

(* What most actions leave alone.                                          *)
LEMMA SourcesStay ==
  ASSUME DeskTypeInv, UNCHANGED <<sources, phone, attempts, tap>>
  PROVE  /\ sources' \in [Sources -> Source \cup {NoSource}]
         /\ Cardinality({s \in Sources : sources'[s] # NoSource}) <= MaxSources
         /\ phone' \in Seq([tap : 1..MaxTaps, attempt : 1..MaxAttempts])
         /\ Len(phone') <= MaxPhone /\ attempts' \in 0..MaxAttempts /\ tap' \in Seq(Tap)
         /\ IsFiniteSet(Known') /\ Len(tap') <= MaxTaps
         /\ \A t \in DOMAIN tap' : tap'[t].via = "fob" => tap'[t].source \in Sources
BY DEF DeskTypeInv, TypeOK, Known

(* A request that begins, goes on or is done.                              *)
LEMMA AskingStep ==
  ASSUME DeskTypeInv, NEW r \in Requests, NEW x \in Asking,
         request' = [request EXCEPT ![r] = x],
         DOMAIN tap \subseteq DOMAIN tap', attempts' \in Nat, attempts <= attempts',
         x.pc \in {"ask", "settle", "start"} =>
           x.tap \in DOMAIN tap' /\ x.attempt \in 1..attempts',
         x.pc = "start" <=> holder' = r,
         holder' \in {r, NoOne}, holder \in {r, NoOne},
         holder' # NoOne => Both(claims')
  PROVE  request' \in [Requests -> Asking] /\ AtWork' /\ holder' \in Requests \cup {NoOne}
<1>1. /\ request \in [Requests -> Asking] /\ AtWork /\ attempts \in Nat
  BY DeskAssumption DEF DeskTypeInv, TypeOK, Asking
<1>2. /\ request' \in [Requests -> Asking] /\ request'[r] = x
      /\ \A q \in Requests : q # r => request'[q] = request[q]
  BY <1>1
<1>3. ASSUME NEW q \in Requests, request'[q].pc \in {"ask", "settle", "start"}
      PROVE  request'[q].tap \in DOMAIN tap' /\ request'[q].attempt \in 1..attempts'
  <2>1. CASE q = r
    BY <1>2, <1>3, <2>1
  <2>2. CASE q # r
    <3>1. request'[q] = request[q] /\ request[q].tap \in DOMAIN tap
          /\ request[q].attempt \in 1..attempts
      BY <1>1, <1>2, <1>3, <2>2 DEF AtWork
    <3>2. QED
      BY <1>1, <3>1
  <2>3. QED
    BY <2>1, <2>2
<1>4. ASSUME NEW q \in Requests
      PROVE  request'[q].pc = "start" <=> holder' = q
  <2>1. CASE q = r
    BY <1>2, <2>1
  <2>2. CASE q # r
    <3>1. holder # q /\ holder' # q
      BY <2>2, DeskAssumption
    <3>2. QED
      BY <1>1, <1>2, <2>2, <3>1 DEF AtWork
  <2>3. QED
    BY <2>1, <2>2
<1>5. QED
  BY <1>2, <1>3, <1>4 DEF AtWork

LEMMA FinishType ==
  ASSUME DeskTypeInv, NEW r \in Requests, NEW cs \in Claims, Finish(r, cs),
         UNCHANGED <<attempts, tap>>, holder \in {r, NoOne}, holder' = NoOne
  PROVE  /\ claims' \in Claims /\ open' \subseteq 1..attempts
         /\ request' \in [Requests -> Asking] /\ AtWork' /\ holder' = NoOne
<1>1. open \subseteq 1..attempts /\ attempts \in Nat
  BY DeskAssumption DEF DeskTypeInv, TypeOK
<1>2. /\ claims' = cs /\ open' = open \ {request[r].attempt}
      /\ request' = [request EXCEPT ![r] = Idle]
  BY DEF Finish
<1>3. Idle.pc = "idle" /\ r # NoOne
  BY DeskAssumption DEF Idle
<1> HIDE DEF Idle
<1>4. Idle \in Asking
  BY IdleAsking
<1>5. /\ DOMAIN tap \subseteq DOMAIN tap' /\ attempts' \in Nat /\ attempts <= attempts'
      /\ Idle.pc \notin {"ask", "settle", "start"} /\ (Idle.pc = "start" <=> holder' = r)
  BY <1>1, <1>3
<1>6. request' \in [Requests -> Asking] /\ AtWork'
  BY <1>2, <1>4, <1>5, AskingStep
<1>7. QED
  BY <1>1, <1>2, <1>6

LEMMA ResolveFobType ==
  ASSUME DeskTypeInv, NEW r \in Requests, ResolveFob(r)
  PROVE  DeskTypeInv'
<1> DEFINE x == [request[r] EXCEPT !.pc = "settle", !.checkin = checkins']
<1>0. /\ request \in [Requests -> Asking] /\ request[r] \in Asking /\ request[r].pc = "ask"
      /\ checkins' \in Nat /\ UNCHANGED <<deskVars, tap, tableVars, history>>
  BY DEF ResolveFob, DeskTypeInv, TypeOK, Asking
<1>1. request' = [request EXCEPT ![r] = x]
  BY <1>0 DEF ResolveFob
<1>2. /\ x \in Asking /\ x.pc = "settle" /\ x.tap = request[r].tap
      /\ x.attempt = request[r].attempt
  BY <1>0 DEF Asking
<1>3. /\ request[r].tap \in DOMAIN tap /\ request[r].attempt \in 1..attempts
      /\ holder # r /\ attempts \in Nat
  BY <1>0, DeskAssumption DEF DeskTypeInv, AtWork, TypeOK
<1> HIDE DEF x
<1>4. request' \in [Requests -> Asking] /\ AtWork'
  <2>1. \A q \in Requests : q # r => request'[q] = request[q]
    BY <1>0, <1>1
  <2>2. request'[r] = x /\ request' \in [Requests -> Asking]
    BY <1>0, <1>1, <1>2
  <2>3. QED
    BY <1>0, <1>2, <1>3, <2>1, <2>2 DEF AtWork, DeskTypeInv, deskVars, Both
<1>5. QED
  BY <1>0, <1>4, SourcesStay
     DEF DeskTypeInv, TypeOK, Asking, deskVars, tableVars, history

LEMMA MatchesType ==
  ASSUME matches \in Seq(Match), NEW m \in DOMAIN matches,
         NEW x \in {"running", "won", "ended", "again"},
         matches' = [matches EXCEPT ![m].state = x]
  PROVE  /\ matches' \in Seq(Match) /\ DOMAIN matches' = DOMAIN matches
         /\ \A n \in DOMAIN matches : matches'[n].handover = matches[n].handover
         /\ \A n \in DOMAIN matches : n # m => matches'[n] = matches[n]
         /\ matches'[m].state = x
<1> DEFINE y == [matches[m] EXCEPT !.state = x]
<1>1. matches' = [matches EXCEPT ![m] = y]
  OBVIOUS
<1>2. /\ Len(matches) \in Nat /\ DOMAIN matches = 1..Len(matches) /\ matches[m] \in Match
      /\ \A n \in DOMAIN matches : matches[n] \in Match
  BY LenProperties, ElementOfSeq
<1>3. y \in Match /\ y.handover = matches[m].handover /\ y.state = x
  BY <1>2 DEF Match
<1> HIDE DEF y
<1>4. matches' \in Seq(Match) /\ Len(matches') = Len(matches)
  BY <1>1, <1>2, <1>3, ExceptSeq
<1>5. DOMAIN matches' = DOMAIN matches
  BY <1>2, <1>4, LenProperties
<1>6. matches'[m] = y /\ \A n \in DOMAIN matches : n # m => matches'[n] = matches[n]
  BY <1>1
<1>7. QED
  BY <1>3, <1>4, <1>5, <1>6

LEMMA PlayType ==
  ASSUME DeskTypeInv, NEW m \in DOMAIN matches, Play(m)
  PROVE  DeskTypeInv'
<1>1. \E x \in {"running", "won", "ended", "again"} :
        matches' = [matches EXCEPT ![m].state = x]
  BY DEF Play
<1>2. matches' \in Seq(Match)
  BY <1>1, MatchesType DEF DeskTypeInv, TypeOK
<1>3. UNCHANGED <<deskVars, tap, page, request, checkins, history>>
  BY DEF Play
<1>4. QED
  BY <1>2, <1>3, SourcesStay DEF DeskTypeInv, TypeOK, AtWork, Both, deskVars, history

LEMMA UnresolvedType ==
  ASSUME DeskTypeInv, NEW r \in Requests, Unresolved(r)
  PROVE  DeskTypeInv'
<1>1. claims \in Claims
  BY DEF DeskTypeInv, TypeOK, Claims
<1>2. Expired(claims) \in Claims
  BY <1>1, ExpiredClaims
<1>3. /\ claims' \in Claims /\ open' \subseteq 1..attempts
      /\ request' \in [Requests -> Asking] /\ AtWork'
  BY <1>2, FinishType DEF Unresolved
<1>4. QED
  BY <1>3, SourcesStay
     DEF Unresolved, DeskTypeInv, TypeOK, Claims, Asking, tableVars, history

(* What settle makes of the claims.                                        *)
Brought(r) ==
  LET t == tap[request[r].tap]
      free == Expired(claims)
  IN  [player |-> t.player, checkin |-> request[r].checkin, age |-> 0,
       armed |-> Armed(free, t.half, t.player)]
SettledClaims(r) == Claimed(Expired(claims), tap[request[r].tap].half, Brought(r))

LEMMA SettledType ==
  ASSUME DeskTypeInv, NEW r \in Requests, request[r].pc = "settle"
  PROVE  /\ Expired(claims) \in Claims /\ SettledClaims(r) \in Claims
         /\ \A h \in Half : Expired(claims)[h] \in {claims[h], NoClaim}
         /\ tap[request[r].tap].half \in Half /\ Brought(r).checkin = request[r].checkin
         /\ SettledClaims(r)[tap[request[r].tap].half] \in {Brought(r), NoClaim}
         /\ \A g \in Half : g # tap[request[r].tap].half =>
              SettledClaims(r)[g] \in {claims[g], NoClaim}
<1>1. /\ claims \in Claims /\ request[r] \in Asking /\ request[r].tap \in DOMAIN tap
      /\ tap \in Seq(Tap)
  BY DEF DeskTypeInv, TypeOK, Claims, Asking, AtWork
<1>2. tap[request[r].tap] \in Tap
  BY <1>1, ElementOfSeq, LenProperties
<1>3. Brought(r) \in Claim /\ tap[request[r].tap].half \in Half
      /\ Brought(r).checkin = request[r].checkin
  BY <1>1, <1>2, DeskAssumption DEF Brought, Tap, Claim, Ages, Armed, Asking
<1>4. Expired(claims) \in Claims /\ \A h \in Half : Expired(claims)[h] \in {claims[h], NoClaim}
  BY <1>1, ExpiredClaims
<1>5. QED
  BY <1>3, <1>4, ClaimedClaims DEF SettledClaims

LEMMA SettleCases ==
  ASSUME NEW r \in Requests, Settle(r)
  PROVE  /\ request[r].pc = "settle" /\ holder = NoOne
         /\ UNCHANGED <<sources, phone, attempts, tap, tableVars, checkins, history>>
         /\ \/ Occupied /\ Finish(r, Expired(claims)) /\ holder' = holder
            \/ /\ ~Occupied /\ Both(SettledClaims(r))
               /\ claims' = SettledClaims(r) /\ holder' = r /\ open' = open
               /\ request' = [request EXCEPT ![r].pc = "start"]
            \/ ~Occupied /\ Finish(r, SettledClaims(r)) /\ holder' = holder
BY DEF Settle, SettledClaims, Brought

LEMMA SettleType ==
  ASSUME DeskTypeInv, NEW r \in Requests, Settle(r)
  PROVE  DeskTypeInv'
<1>1. /\ request[r].pc = "settle" /\ holder = NoOne
      /\ UNCHANGED <<sources, phone, attempts, tap, tableVars, checkins, history>>
  BY SettleCases
<1>2. Expired(claims) \in Claims /\ SettledClaims(r) \in Claims
  BY <1>1, SettledType
<1>3. /\ claims' \in Claims /\ open' \subseteq 1..attempts
      /\ request' \in [Requests -> Asking] /\ AtWork' /\ holder' \in Requests \cup {NoOne}
  <2>1. CASE Finish(r, Expired(claims)) /\ holder' = holder
    BY <1>1, <1>2, <2>1, FinishType
  <2>2. CASE Finish(r, SettledClaims(r)) /\ holder' = holder
    BY <1>1, <1>2, <2>2, FinishType
  <2>3. CASE /\ Both(SettledClaims(r)) /\ claims' = SettledClaims(r)
             /\ holder' = r /\ open' = open
             /\ request' = [request EXCEPT ![r].pc = "start"]
    <3> DEFINE x == [request[r] EXCEPT !.pc = "start"]
    <3>1. /\ request[r] \in Asking /\ request[r].tap \in DOMAIN tap
          /\ request[r].attempt \in 1..attempts /\ attempts \in Nat /\ open \subseteq 1..attempts
      BY <1>1, DeskAssumption DEF DeskTypeInv, TypeOK, Asking, AtWork
    <3>2. /\ x \in Asking /\ x.pc = "start" /\ x.tap = request[r].tap
          /\ x.attempt = request[r].attempt
      BY <3>1 DEF Asking
    <3>3. request' = [request EXCEPT ![r] = x]
      BY <2>3
    <3> HIDE DEF x
    <3>4. Both(claims')
      BY <2>3
    <3>5. /\ DOMAIN tap \subseteq DOMAIN tap' /\ attempts' \in Nat /\ attempts <= attempts'
          /\ x.pc \in {"ask", "settle", "start"} =>
               x.tap \in DOMAIN tap' /\ x.attempt \in 1..attempts'
          /\ x.pc = "start" <=> holder' = r
          /\ holder' \in {r, NoOne} /\ holder \in {r, NoOne}
          /\ holder' # NoOne => Both(claims')
      BY <1>1, <2>3, <3>1, <3>2, <3>4
    <3>6. request' \in [Requests -> Asking] /\ AtWork'
      BY <3>2, <3>3, <3>5, AskingStep
    <3>7. QED
      BY <1>2, <2>3, <3>1, <3>6
  <2>4. QED
    BY <2>1, <2>2, <2>3, SettleCases
<1>4. QED
  BY <1>1, <1>3, SourcesStay DEF DeskTypeInv, TypeOK, Claims, Asking, tableVars, history

LEMMA HandoverType ==
  ASSUME DeskTypeInv, holder # NoOne
  PROVE  /\ \A h \in Half : claims[h] \in Claim
         /\ [state |-> "running", handover |-> Handover] \in Match
<1>1. \A h \in Half : claims[h] \in Claim
  BY DEF DeskTypeInv, AtWork, Both, TypeOK
<1>2. Handover \in [Half -> [player : Players, checkin : Nat] \cup {NoClaim}]
  BY <1>1 DEF Handover, Claim
<1>3. QED
  BY <1>1, <1>2 DEF Match

LEMMA StartMatchType ==
  ASSUME DeskTypeInv, NEW r \in Requests, StartMatch(r)
  PROVE  DeskTypeInv'
<1>1. /\ holder = r /\ r # NoOne /\ holder' = NoOne /\ Finish(r, Released)
      /\ matches' = Append(matches, [state |-> "running", handover |-> Handover])
      /\ UNCHANGED <<sources, phone, attempts, tap, page, checkins, history>>
  BY DeskAssumption DEF StartMatch
<1>2. Released \in Claims
  BY FreeClaims DEF Released
<1>3. /\ claims' \in Claims /\ open' \subseteq 1..attempts
      /\ request' \in [Requests -> Asking] /\ AtWork'
  BY <1>1, <1>2, FinishType
<1>4. matches' \in Seq(Match)
  BY <1>1, HandoverType, AppendProperties DEF DeskTypeInv, TypeOK
<1>5. QED
  BY <1>1, <1>3, <1>4, SourcesStay DEF DeskTypeInv, TypeOK, Claims, Asking, history

LEMMA StartFailsType ==
  ASSUME DeskTypeInv, NEW r \in Requests, StartFails(r)
  PROVE  DeskTypeInv'
<1>1. claims \in Claims
  BY DEF DeskTypeInv, TypeOK, Claims
<1>2. /\ claims' \in Claims /\ open' \subseteq 1..attempts
      /\ request' \in [Requests -> Asking] /\ AtWork'
  BY <1>1, FinishType DEF StartFails
<1>3. QED
  BY <1>2, SourcesStay
     DEF StartFails, DeskTypeInv, TypeOK, Claims, Asking, tableVars, history

LEMMA WaitsNoMoreType ==
  ASSUME DeskTypeInv, NEW r \in Requests, Repeated(r) \/ GiveUp(r)
  PROVE  DeskTypeInv'
<1>1. /\ request' = [request EXCEPT ![r] = Idle] /\ request[r].pc = "wait"
      /\ UNCHANGED <<deskVars, tap, tableVars, checkins, history>>
  BY DEF Repeated, GiveUp
<1>2. request' \in [Requests -> Asking] /\ AtWork'
  <2>1. /\ request'[r] = Idle /\ request' \in [Requests -> Asking] /\ holder # r
        /\ \A q \in Requests : q # r => request'[q] = request[q]
    BY <1>1, IdleAsking DEF DeskTypeInv, TypeOK, Asking, AtWork
  <2>2. Idle.pc = "idle"
    BY DEF Idle
  <2>3. QED
    BY <1>1, <2>1, <2>2 DEF DeskTypeInv, AtWork, Both, deskVars
<1>3. QED
  BY <1>1, <1>2, SourcesStay
     DEF DeskTypeInv, TypeOK, Asking, deskVars, tableVars, history

LEMMA PageType ==
  ASSUME DeskTypeInv, Create \/ Drop
  PROVE  DeskTypeInv'
<1>1. CASE Create
  <2>1. [state |-> "running", handover |-> [h \in Half |-> NoClaim]] \in Match
    BY DEF Match
  <2>2. matches' \in Seq(Match)
    BY <1>1, <2>1, AppendProperties DEF Create, DeskTypeInv, TypeOK
  <2>3. QED
    BY <1>1, <2>2, SourcesStay
       DEF Create, DeskTypeInv, TypeOK, AtWork, Both, deskVars, history
<1>2. CASE Drop
  <2>1. claims' \in Claims
    BY <1>2, FreeClaims DEF Drop, Dropped
  <2>2. QED
    BY <1>2, <2>1, SourcesStay DEF Drop, DeskTypeInv, TypeOK, Claims, AtWork, history
<1>3. QED
  BY <1>1, <1>2

LEMMA SweepType ==
  ASSUME DeskTypeInv, Sweep
  PROVE  DeskTypeInv'
<1>1. claims' \in Claims
  BY ExpiredClaims DEF Sweep, DeskTypeInv, TypeOK, Claims
<1>2. QED
  BY <1>1, SourcesStay DEF Sweep, DeskTypeInv, TypeOK, Claims, AtWork, tableVars, history

LEMMA OlderClaims ==
  ASSUME DeskTypeInv, TimePasses
  PROVE  /\ claims' \in Claims
         /\ \A h \in Half : claims'[h] # NoClaim =>
              /\ claims[h] # NoClaim /\ claims'[h].checkin = claims[h].checkin
              /\ claims'[h].player = claims[h].player /\ claims'[h].age >= claims[h].age
<1>1. \A h \in Half : claims[h] \in Claim \cup {NoClaim}
  BY DEF DeskTypeInv, TypeOK
<1>2. \A a \in Ages : Older(a) \in Ages /\ Older(a) >= a
  BY DeskAssumption DEF Older, Ages
<1>3. \A c \in Claim : /\ [c EXCEPT !.age = Older(@)] \in Claim
                       /\ [c EXCEPT !.age = Older(@)].checkin = c.checkin
                       /\ [c EXCEPT !.age = Older(@)].player = c.player
                       /\ [c EXCEPT !.age = Older(@)].age >= c.age
  BY <1>2 DEF Claim
<1>4. \A h \in Half : claims'[h] = IF claims[h] = NoClaim THEN NoClaim
                                   ELSE [claims[h] EXCEPT !.age = Older(@)]
  BY DEF TimePasses
<1>5. claims' \in Claims
  <2>1. \A h \in Half : claims'[h] \in Claim \cup {NoClaim}
    BY <1>1, <1>3, <1>4
  <2>2. claims' = [h \in Half |-> claims'[h]]
    BY DEF TimePasses
  <2>3. QED
    BY <2>1, <2>2 DEF Claims
<1>6. QED
  BY <1>1, <1>3, <1>4, <1>5

LEMMA QuietSources ==
  ASSUME DeskTypeInv, TimePasses
  PROVE  sources' \in [Sources -> Source \cup {NoSource}] /\ Known' \subseteq Known
<1>1. \A s \in Sources : sources[s] \in Source \cup {NoSource}
  BY DEF DeskTypeInv, TypeOK
<1>2. \A x \in Source : [x EXCEPT !.quiet = TRUE] \in Source
  BY DEF Source
<1>3. \A s \in Sources : sources'[s] = IF sources[s] = NoSource THEN NoSource
                                       ELSE [sources[s] EXCEPT !.quiet = TRUE]
  BY DEF TimePasses
<1>4. \A s \in Sources : sources'[s] \in Source \cup {NoSource}
                         /\ (sources'[s] # NoSource => sources[s] # NoSource)
  BY <1>1, <1>2, <1>3
<1>5. sources' = [s \in Sources |-> sources'[s]]
  BY DEF TimePasses
<1>6. QED
  BY <1>4, <1>5 DEF Known

LEMMA TimePassesType ==
  ASSUME DeskTypeInv, TimePasses
  PROVE  DeskTypeInv'
<1>1. claims' \in Claims
  BY OlderClaims
<1>2. /\ sources' \in [Sources -> Source \cup {NoSource}]
      /\ IsFiniteSet(Known') /\ Cardinality(Known') <= MaxSources
  BY QuietSources, KnownShrinks
<1>3. recorded' \subseteq DOMAIN tap
  BY DEF TimePasses, DeskTypeInv, TypeOK
<1>4. AtWork'
  BY DEF TimePasses, DeskTypeInv, AtWork
<1>5. QED
  BY <1>1, <1>2, <1>3, <1>4 DEF TimePasses, DeskTypeInv, TypeOK, Known, Claims, tableVars

(* An attempt or a wait begins.                                            *)
LEMMA AttemptType ==
  ASSUME DeskTypeInv, NEW r \in Requests, NEW t, SentTap(t), NEW pc \in {"ask", "settle"},
         Attempt(r, t, pc), request[r] = Idle, holder = NoOne, holder' = NoOne
  PROVE  /\ attempts' \in 0..MaxAttempts /\ attempts' = attempts + 1
         /\ open' \subseteq 1..attempts' /\ request' \in [Requests -> Asking] /\ AtWork'
         /\ twice' \subseteq DOMAIN tap'
<1>1. /\ attempts \in Nat /\ attempts' = attempts + 1 /\ attempts' \in 0..MaxAttempts
      /\ open \subseteq 1..attempts /\ attempts' \in 1..attempts'
      /\ request \in [Requests -> Asking]
  BY DeskAssumption DEF Attempt, DeskTypeInv, TypeOK, Asking
<1>2. tap'[t].checkin \in Nat /\ t \in 0..MaxTaps /\ t \in DOMAIN tap'
  <2>1. tap'[t] \in Tap
    BY ElementOfSeq, LenProperties DEF SentTap
  <2>2. QED
    BY <2>1, DeskAssumption DEF SentTap, Tap
<1>3. open' \subseteq 1..attempts'
  <2>1. open' = open \/ open' = open \cup {attempts'}
    BY DEF Attempt
  <2>2. 1..attempts \subseteq 1..attempts'
    BY <1>1
  <2>3. QED
    BY <1>1, <2>1, <2>2
<1>4. twice' \subseteq DOMAIN tap'
  BY DEF Attempt, SentTap, DeskTypeInv, TypeOK
<1>5. request' \in [Requests -> Asking] /\ AtWork'
  <2>1. CASE request' = request
    BY <1>1, <2>1 DEF SentTap, DeskTypeInv, AtWork
  <2>2. CASE request' # request
    <3> DEFINE x == [pc |-> pc, tap |-> t, attempt |-> attempts', checkin |-> tap'[t].checkin]
    <3>1. request' = [request EXCEPT ![r] = x]
      BY <2>2 DEF Attempt
    <3>2. x \in Asking /\ x.pc = pc /\ x.tap = t /\ x.attempt = attempts'
      BY <1>1, <1>2 DEF Asking
    <3> HIDE DEF x
    <3>3. /\ DOMAIN tap \subseteq DOMAIN tap' /\ attempts' \in Nat /\ attempts <= attempts'
          /\ x.pc \in {"ask", "settle", "start"} =>
               x.tap \in DOMAIN tap' /\ x.attempt \in 1..attempts'
          /\ x.pc = "start" <=> holder' = r
      BY <1>1, <1>2, <3>2, DeskAssumption DEF SentTap
    <3>4. QED
      BY <3>1, <3>2, <3>3, AskingStep
  <2>3. QED
    BY <2>1, <2>2
<1>6. QED
  BY <1>1, <1>3, <1>4, <1>5

LEMMA WaitForType ==
  ASSUME DeskTypeInv, NEW r \in Requests, NEW t, SentTap(t), NEW a \in 0..MaxAttempts,
         WaitFor(r, t, a), request[r] = Idle, holder = NoOne, holder' = NoOne
  PROVE  /\ attempts' = attempts /\ open' \subseteq 1..attempts'
         /\ request' \in [Requests -> Asking] /\ AtWork'
         /\ twice' \subseteq DOMAIN tap'
<1> DEFINE x == [pc |-> "wait", tap |-> t, attempt |-> a, checkin |-> 0]
<1>1. /\ request' = [request EXCEPT ![r] = x] /\ UNCHANGED <<attempts, open, twice>>
      /\ attempts \in Nat
  BY DeskAssumption DEF WaitFor, DeskTypeInv, TypeOK
<1>2. x \in Asking /\ x.pc = "wait"
  BY DeskAssumption DEF SentTap, Asking
<1> HIDE DEF x
<1>3. /\ DOMAIN tap \subseteq DOMAIN tap' /\ attempts' \in Nat /\ attempts <= attempts'
      /\ x.pc \notin {"ask", "settle", "start"} /\ (x.pc = "start" <=> holder' = r)
  BY <1>1, <1>2, DeskAssumption DEF SentTap
<1>4. request' \in [Requests -> Asking] /\ AtWork'
  BY <1>1, <1>2, <1>3, AskingStep
<1>5. QED
  BY <1>1, <1>4 DEF SentTap, DeskTypeInv, TypeOK

(* Room is made for a source before it is remembered.                      *)
LEMMA BegunType ==
  ASSUME DeskTypeInv, NEW s \in Sources, NEW id \in Nat, NEW f \in Forgettable(s),
         NEW a \in 1..MaxAttempts, sources' = Begun(s, id, f, a)
  PROVE  /\ sources' \in [Sources -> Source \cup {NoSource}]
         /\ IsFiniteSet(Known') /\ Cardinality(Known') <= MaxSources
<1> DEFINE known == {x \in Sources : sources'[x] # NoSource}
<1>1. [high |-> id, last |-> a, quiet |-> FALSE] \in Source
  BY DEF Source
<1>2. sources' \in [Sources -> Source \cup {NoSource}]
  BY <1>1 DEF Begun, DeskTypeInv, TypeOK
<1>3. known \subseteq (Known \ {f}) \cup {s}
  BY DEF Begun, Known
<1> HIDE DEF known
<1>4. IsFiniteSet(Known) /\ Cardinality(Known) <= MaxSources /\ Cardinality(Known) \in Nat
  <2>1. IsFiniteSet(Known) /\ Cardinality(Known) <= MaxSources
    BY DEF DeskTypeInv, TypeOK, Known
  <2>2. QED
    BY <2>1, FS_CardinalityType
<1>5. IsFiniteSet(known) /\ Cardinality(known) <= MaxSources
  <2>1. CASE s \in Known
    <3>1. known \subseteq Known
      BY <1>3, <2>1
    <3>2. QED
      BY <3>1, KnownShrinks
  <2>2. CASE s \notin Known /\ Cardinality(Known) < MaxSources
    <3>1. IsFiniteSet(Known \cup {s}) /\ Cardinality(Known \cup {s}) = Cardinality(Known) + 1
      BY <1>4, <2>2, FS_AddElement
    <3>2. known \subseteq Known \cup {s}
      BY <1>3
    <3>3. IsFiniteSet(known) /\ Cardinality(known) <= Cardinality(Known) + 1
      BY <3>1, <3>2, FS_Subset
    <3>4. Cardinality(known) \in Nat
      BY <3>3, FS_CardinalityType
    <3>5. QED
      BY <1>4, <2>2, <3>3, <3>4, DeskAssumption
  <2>3. CASE s \notin Known /\ ~(Cardinality(Known) < MaxSources)
    <3>1. f \in Known
      BY <2>3 DEF Forgettable, Known
    <3>2. /\ IsFiniteSet(Known \ {f})
          /\ Cardinality(Known \ {f}) = Cardinality(Known) - 1
      BY <1>4, <3>1, FS_RemoveElement
    <3>3. /\ IsFiniteSet((Known \ {f}) \cup {s})
          /\ Cardinality((Known \ {f}) \cup {s}) = Cardinality(Known \ {f}) + 1
      <4>1. s \notin Known \ {f}
        BY <2>3
      <4>2. QED
        BY <3>2, <4>1, FS_AddElement
    <3>4. IsFiniteSet(known) /\ Cardinality(known) <= Cardinality((Known \ {f}) \cup {s})
      BY <1>3, <3>3, FS_Subset
    <3>5. Cardinality(known) \in Nat
      BY <3>4, FS_CardinalityType
    <3>6. QED
      BY <1>4, <3>2, <3>3, <3>4, <3>5, DeskAssumption
  <2>4. QED
    BY <2>1, <2>2, <2>3
<1>6. QED
  BY <1>2, <1>5 DEF Known, known

LEMMA SentTypes ==
  ASSUME DeskTypeInv, NEW t, SentTap(t)
  PROVE  /\ tap'[t] \in Tap /\ \A u \in DOMAIN tap : tap[u] \in Tap
         /\ tap'[t].via = "fob" => tap'[t].source \in Sources
         /\ \A u \in DOMAIN tap' : tap'[u].via = "fob" => tap'[u].source \in Sources
<1>1. tap \in Seq(Tap) /\ tap' \in Seq(Tap) /\ t \in DOMAIN tap'
  BY DEF DeskTypeInv, TypeOK, SentTap
<1>2. tap'[t] \in Tap /\ \A u \in DOMAIN tap : tap[u] \in Tap
  BY <1>1, ElementOfSeq, LenProperties
<1>3. \A u \in DOMAIN tap' : tap'[u].via = "fob" => tap'[u].source \in Sources
  <2>1. CASE tap' = tap
    BY <2>1 DEF DeskTypeInv
  <2>2. CASE NewTap(t)
    BY <2>2 DEF NewTap, SentTap, DeskTypeInv
  <2>3. QED
    BY <2>1, <2>2 DEF SentTap
<1>4. QED
  BY <1>1, <1>2, <1>3

LEMMA CheckInType ==
  ASSUME DeskTypeInv, NEW r \in Requests, NEW t, SentTap(t), CheckIn(r, t)
  PROVE  DeskTypeInv'
<1> DEFINE s == tap'[t].source
           id == tap'[t].event
<1>1. /\ s \in Sources /\ id \in Nat /\ request[r] = Idle /\ holder = NoOne
      /\ UNCHANGED <<phone, holder, tableVars, lost>> /\ claims' = Expired(claims)
  BY SentTypes DEF CheckIn, Tap
<1>2. claims' \in Claims
  BY <1>1, ExpiredClaims DEF DeskTypeInv, TypeOK, Claims
<1> HIDE DEF s, id
<1>3. /\ attempts' \in 0..MaxAttempts /\ open' \subseteq 1..attempts'
      /\ request' \in [Requests -> Asking] /\ AtWork' /\ twice' \subseteq DOMAIN tap'
      /\ sources' \in [Sources -> Source \cup {NoSource}]
      /\ IsFiniteSet(Known') /\ Cardinality(Known') <= MaxSources
      /\ recorded' \subseteq DOMAIN tap'
  <2>1. CASE IsNew(s, id)
    <3>1. PICK f \in Forgettable(s) :
            /\ sources' = Begun(s, id, f, attempts + 1)
            /\ recorded' = {u \in recorded : tap[u].source # f \/ tap[u].via # "fob"} \cup {t}
      BY <2>1 DEF CheckIn, s, id
    <3>2. Attempt(r, t, "ask")
      BY <2>1 DEF CheckIn, s, id
    <3>3. /\ attempts' \in 0..MaxAttempts /\ attempts' = attempts + 1
          /\ open' \subseteq 1..attempts' /\ request' \in [Requests -> Asking] /\ AtWork'
          /\ twice' \subseteq DOMAIN tap'
      BY <1>1, <3>2, AttemptType
    <3>4. attempts + 1 \in 1..MaxAttempts
      BY <3>3, DeskAssumption DEF DeskTypeInv, TypeOK
    <3>5. /\ sources' \in [Sources -> Source \cup {NoSource}]
          /\ IsFiniteSet(Known') /\ Cardinality(Known') <= MaxSources
      BY <1>1, <3>1, <3>4, BegunType
    <3>6. recorded' \subseteq DOMAIN tap'
      BY <3>1 DEF SentTap, DeskTypeInv, TypeOK
    <3>7. QED
      BY <3>3, <3>5, <3>6
  <2>2. CASE ~IsNew(s, id)
    <3>1. sources' = [sources EXCEPT ![s].quiet = FALSE] /\ recorded' = recorded
      BY <2>2 DEF CheckIn, s, id
    <3>2. sources[s] \in Source
      BY <1>1, <2>2 DEF IsNew, DeskTypeInv, TypeOK
    <3>3. [sources[s] EXCEPT !.quiet = FALSE] \in Source /\ sources[s].last \in 0..MaxAttempts
      <4>1. \A x \in Source : [x EXCEPT !.quiet = FALSE] \in Source /\ x.last \in 1..MaxAttempts
        BY DEF Source
      <4>2. QED
        BY <3>2, <4>1, DeskAssumption
    <3>4. sources' \in [Sources -> Source \cup {NoSource}] /\ Known' \subseteq Known
      BY <1>1, <3>1, <3>2, <3>3, SourceAssumption DEF DeskTypeInv, TypeOK, Known
    <3>5. WaitFor(r, t, sources[s].last) \/ UNCHANGED <<request, attempts, open, twice>>
      BY <2>2 DEF CheckIn, s, id
    <3>6. /\ attempts' = attempts /\ open' \subseteq 1..attempts'
          /\ request' \in [Requests -> Asking] /\ AtWork'
          /\ twice' \subseteq DOMAIN tap'
      <4>1. CASE WaitFor(r, t, sources[s].last)
        BY <1>1, <3>3, <4>1, WaitForType
      <4>2. CASE UNCHANGED <<request, attempts, open, twice>>
        BY <1>1, <4>2 DEF DeskTypeInv, TypeOK, AtWork, Asking, SentTap
      <4>3. QED
        BY <3>5, <4>1, <4>2
    <3>7. recorded' \subseteq DOMAIN tap' /\ attempts' \in 0..MaxAttempts
      BY <3>1, <3>6 DEF SentTap, DeskTypeInv, TypeOK
    <3>8. QED
      BY <3>4, <3>6, <3>7, KnownShrinks
  <2>3. QED
    BY <2>1, <2>2
<1>4. QED
  BY <1>1, <1>2, <1>3, SentTypes
     DEF DeskTypeInv, TypeOK, Claims, Asking, Known, SentTap, tableVars

LEMMA RememberedType ==
  ASSUME DeskTypeInv, NEW t \in 1..MaxTaps, NEW a \in 1..MaxAttempts
  PROVE  /\ Remembered(t, a) \in Seq([tap : 1..MaxTaps, attempt : 1..MaxAttempts])
         /\ Len(Remembered(t, a)) <= MaxPhone
         /\ \E i \in DOMAIN Remembered(t, a) : Remembered(t, a)[i].tap = t
         /\ \A i \in DOMAIN Remembered(t, a) :
              Remembered(t, a)[i].tap = t
                \/ \E j \in DOMAIN phone : Remembered(t, a)[i].tap = phone[j].tap
<1> DEFINE S == [tap : 1..MaxTaps, attempt : 1..MaxAttempts]
           p == IF Len(phone) >= MaxPhone THEN Tail(phone) ELSE phone
           e == [tap |-> t, attempt |-> a]
<1>1. phone \in Seq(S) /\ Len(phone) \in Nat /\ Len(phone) <= MaxPhone /\ e \in S
  BY DEF DeskTypeInv, TypeOK
<1>2. /\ p \in Seq(S) /\ Len(p) < MaxPhone
      /\ \A i \in 1..Len(p) : \E j \in DOMAIN phone : p[i] = phone[j]
  <2>1. CASE Len(phone) >= MaxPhone
    <3>1. phone # <<>>
      BY <1>1, <2>1, DeskAssumption
    <3>2. /\ Tail(phone) \in Seq(S) /\ Len(Tail(phone)) = Len(phone) - 1
          /\ \A i \in 1..(Len(phone) - 1) : Tail(phone)[i] = phone[i + 1]
      BY <1>1, <3>1, HeadTailProperties
    <3>3. \A i \in 1..(Len(phone) - 1) : i + 1 \in DOMAIN phone
      BY <1>1, LenProperties
    <3>4. p = Tail(phone)
      BY <2>1
    <3> HIDE DEF p
    <3>5. Len(p) = Len(phone) - 1 /\ Len(p) < MaxPhone
      <4>1. Len(p) = Len(phone) - 1
        BY <3>2, <3>4
      <4>2. MaxPhone \in Nat
        BY DeskAssumption
      <4>3. QED
        BY <1>1, <4>1, <4>2
    <3>6. \A i \in 1..Len(p) : i + 1 \in DOMAIN phone /\ p[i] = phone[i + 1]
      BY <3>2, <3>3, <3>4, <3>5
    <3>7. QED
      BY <3>2, <3>4, <3>5, <3>6
  <2>2. CASE ~(Len(phone) >= MaxPhone)
    BY <1>1, <2>2, DeskAssumption
  <2>3. QED
    BY <2>1, <2>2
<1> HIDE DEF p, S
<1>3. /\ Append(p, e) \in Seq(S) /\ Len(Append(p, e)) = Len(p) + 1
      /\ Append(p, e)[Len(p) + 1] = e /\ Len(p) \in Nat
      /\ \A i \in 1..Len(p) : Append(p, e)[i] = p[i]
  BY <1>1, <1>2, AppendProperties
<1>4. DOMAIN Append(p, e) = 1..(Len(p) + 1) /\ Len(p) + 1 \in DOMAIN Append(p, e)
  BY <1>3, LenProperties
<1>5. \A i \in DOMAIN Append(p, e) :
        Append(p, e)[i].tap = t \/ \E j \in DOMAIN phone : Append(p, e)[i].tap = phone[j].tap
  <2> SUFFICES ASSUME NEW i \in DOMAIN Append(p, e), i # Len(p) + 1
               PROVE  \E j \in DOMAIN phone : Append(p, e)[i].tap = phone[j].tap
    BY <1>3
  <2>1. i \in 1..Len(p)
    BY <1>3, <1>4
  <2>2. QED
    BY <1>2, <1>3, <2>1
<1>6. Remembered(t, a) = Append(p, e)
  BY DEF Remembered, p
<1>7. QED
  <2>1. MaxPhone \in Nat /\ Len(p) + 1 <= MaxPhone
    BY <1>2, <1>3, DeskAssumption
  <2>2. Append(p, e)[Len(p) + 1].tap = t
    BY <1>3
  <2>3. QED
    BY <1>3, <1>4, <1>5, <1>6, <2>1, <2>2 DEF S

LEMMA ClaimByPhoneType ==
  ASSUME DeskTypeInv, NEW r \in Requests, NEW t, SentTap(t), ClaimByPhone(r, t)
  PROVE  DeskTypeInv'
<1>1. /\ request[r] = Idle /\ holder = NoOne /\ claims' = Expired(claims)
      /\ UNCHANGED <<sources, holder, tableVars>>
  BY DEF ClaimByPhone
<1>2. claims' \in Claims
  BY <1>1, ExpiredClaims DEF DeskTypeInv, TypeOK, Claims
<1>3. /\ attempts' \in 0..MaxAttempts /\ open' \subseteq 1..attempts'
      /\ request' \in [Requests -> Asking] /\ AtWork' /\ twice' \subseteq DOMAIN tap'
      /\ phone' \in Seq([tap : 1..MaxTaps, attempt : 1..MaxAttempts])
      /\ Len(phone') <= MaxPhone
      /\ recorded' \subseteq DOMAIN tap' /\ lost' \subseteq DOMAIN tap'
  <2>1. ASSUME NEW i \in Recall(t), WaitFor(r, t, phone[i].attempt),
               UNCHANGED <<phone, recorded, lost>>
        PROVE  /\ attempts' \in 0..MaxAttempts /\ open' \subseteq 1..attempts'
               /\ request' \in [Requests -> Asking] /\ AtWork' /\ twice' \subseteq DOMAIN tap'
               /\ phone' \in Seq([tap : 1..MaxTaps, attempt : 1..MaxAttempts])
               /\ Len(phone') <= MaxPhone
               /\ recorded' \subseteq DOMAIN tap' /\ lost' \subseteq DOMAIN tap'
    <3>1. phone[i].attempt \in 0..MaxAttempts
      <4>1. phone[i] \in [tap : 1..MaxTaps, attempt : 1..MaxAttempts]
        BY <2>1, ElementOfSeq, LenProperties DEF Recall, DeskTypeInv, TypeOK
      <4>2. QED
        BY <4>1, DeskAssumption
    <3>2. QED
      BY <1>1, <2>1, <3>1, WaitForType DEF DeskTypeInv, TypeOK, SentTap
  <2>2. CASE /\ Recall(t) = {} /\ phone' = Remembered(t, attempts + 1)
             /\ Attempt(r, t, "settle")
             /\ recorded' \subseteq recorded \cup {t} /\ lost' \subseteq lost \cup recorded
    <3>1. /\ attempts' \in 0..MaxAttempts /\ attempts' = attempts + 1
          /\ open' \subseteq 1..attempts' /\ request' \in [Requests -> Asking] /\ AtWork'
          /\ twice' \subseteq DOMAIN tap'
      BY <1>1, <2>2, AttemptType
    <3>2. attempts + 1 \in 1..MaxAttempts /\ t \in 1..MaxTaps
      BY <3>1, DeskAssumption DEF DeskTypeInv, TypeOK, SentTap
    <3>3. /\ phone' \in Seq([tap : 1..MaxTaps, attempt : 1..MaxAttempts])
          /\ Len(phone') <= MaxPhone
      BY <2>2, <3>2, RememberedType
    <3>4. recorded' \subseteq DOMAIN tap' /\ lost' \subseteq DOMAIN tap'
      BY <2>2 DEF SentTap, DeskTypeInv, TypeOK
    <3>5. QED
      BY <3>1, <3>3, <3>4
  <2>3. QED
    BY <2>1, <2>2 DEF ClaimByPhone
<1>4. QED
  BY <1>1, <1>2, <1>3, SentTypes
     DEF DeskTypeInv, TypeOK, Claims, Asking, Known, SentTap, tableVars

LEMMA NextCases ==
  ASSUME DeskTypeInv, Next
  PROVE  \/ \E r \in Requests, t \in DOMAIN tap' :
              SentTap(t) /\ (CheckIn(r, t) \/ ClaimByPhone(r, t))
         \/ \E r \in Requests : \/ ResolveFob(r) \/ Unresolved(r) \/ Settle(r)
                                \/ StartMatch(r) \/ StartFails(r) \/ Repeated(r) \/ GiveUp(r)
         \/ \E m \in DOMAIN matches : Play(m)
         \/ Create \/ Drop \/ Sweep \/ TimePasses
BY SendCases DEF Next

LEMMA NextType ==
  ASSUME DeskTypeInv, [Next]_vars
  PROVE  DeskTypeInv'
<1>1. CASE Next
  BY <1>1, NextCases, CheckInType, ClaimByPhoneType, ResolveFobType, UnresolvedType, SettleType,
     StartMatchType, StartFailsType, WaitsNoMoreType, PlayType, PageType, SweepType,
     TimePassesType
<1>2. CASE UNCHANGED vars
  BY <1>2 DEF vars, deskVars, tableVars, history, DeskTypeInv, TypeOK, AtWork, Both, Known
<1>3. QED
  BY <1>1, <1>2

-----------------------------------------------------------------------------
(* A tap that is recorded is recognised.                                   *)

LEMMA CheckInKnown ==
  ASSUME DeskTypeInv, RecordedIsKnown, NEW r \in Requests, NEW t, SentTap(t), CheckIn(r, t)
  PROVE  RecordedIsKnown'
<1> DEFINE s == tap'[t].source
           id == tap'[t].event
<1>1. /\ s \in Sources /\ id \in Nat /\ tap'[t].via = "fob" /\ t \in DOMAIN tap'
      /\ UNCHANGED <<phone, lost>>
  BY SentTypes DEF CheckIn, Tap, SentTap
<1>2. /\ recorded \subseteq DOMAIN tap /\ DOMAIN tap \subseteq DOMAIN tap'
      /\ \A u \in DOMAIN tap : tap'[u] = tap[u] /\ tap[u].event \in Nat
      /\ \A u \in DOMAIN tap' : u \in DOMAIN tap \/ u = t
      /\ \A u \in DOMAIN tap : tap[u].via = "fob" => tap[u].source \in Sources
  BY SentTypes DEF SentTap, NewTap, DeskTypeInv, TypeOK, Tap
<1>3. /\ sources \in [Sources -> Source \cup {NoSource}]
      /\ \A x \in Source : x.high \in Nat /\ x # NoSource
  BY SourceAssumption DEF DeskTypeInv, TypeOK, Source
<1>4. \A u \in recorded : tap[u].via = "fob" =>
        /\ sources[tap[u].source] # NoSource /\ ~sources[tap[u].source].quiet
        /\ tap[u].event <= sources[tap[u].source].high
  BY DEF RecordedIsKnown
<1> HIDE DEF s, id
<1>5. CASE IsNew(s, id)
  <2>1. PICK f \in Forgettable(s) :
          /\ sources' = Begun(s, id, f, attempts + 1)
          /\ recorded' = {u \in recorded : tap[u].source # f \/ tap[u].via # "fob"} \cup {t}
    BY <1>5 DEF CheckIn, s, id
  <2>2. Attempt(r, t, "ask")
    BY <1>5 DEF CheckIn, s, id
  <2>3. sources[s] # NoSource /\ ~sources[s].quiet => id > sources[s].high
    BY <1>5 DEF IsNew, Restarted
  <2>4. /\ sources'[s] = [high |-> id, last |-> attempts + 1, quiet |-> FALSE]
        /\ sources'[s] # NoSource
    <3>1. attempts + 1 \in 1..MaxAttempts
      BY <2>2, DeskAssumption DEF Attempt, DeskTypeInv, TypeOK
    <3>2. sources'[s] = [high |-> id, last |-> attempts + 1, quiet |-> FALSE]
      BY <1>1, <2>1 DEF Begun
    <3>3. sources'[s] \in Source
      BY <1>1, <3>1, <3>2 DEF Source
    <3>4. QED
      BY <1>3, <3>2, <3>3
  <2>5. t \notin recorded
    <3> SUFFICES ASSUME t \in recorded PROVE FALSE
      OBVIOUS
    <3>1. tap[t].via = "fob" /\ tap[t].source = s /\ tap[t].event = id
      BY <1>1, <1>2 DEF s, id
    <3>2. sources[s] # NoSource /\ ~sources[s].quiet /\ id <= sources[s].high
      BY <1>4, <3>1
    <3>3. sources[s].high \in Nat
      BY <1>1, <1>3, <3>2
    <3>4. QED
      BY <1>1, <2>3, <3>2, <3>3
  <2>6. ASSUME NEW u \in recorded', tap'[u].via = "fob"
        PROVE  /\ sources'[tap'[u].source] # NoSource /\ ~sources'[tap'[u].source].quiet
               /\ tap'[u].event <= sources'[tap'[u].source].high
    <3>1. CASE u = t
      BY <1>1, <2>4, <3>1 DEF s, id
    <3>2. CASE u # t /\ tap[u].source = s
      <4>1. u \in recorded /\ tap'[u] = tap[u] /\ tap[u].event \in Nat
        BY <1>2, <2>1, <3>2
      <4>2. /\ sources[s] # NoSource /\ ~sources[s].quiet /\ tap[u].event <= sources[s].high
            /\ sources[s].high \in Nat
        BY <1>1, <1>3, <1>4, <2>6, <3>2, <4>1
      <4>3. tap[u].event <= id
        BY <1>1, <2>3, <4>1, <4>2
      <4>4. QED
        BY <2>4, <3>2, <4>1, <4>3
    <3>3. CASE u # t /\ tap[u].source # s
      <4>1. /\ u \in recorded /\ tap'[u] = tap[u] /\ tap[u].source # f
            /\ tap[u].source \in Sources
        BY <1>2, <2>1, <2>6, <3>3
      <4>2. sources'[tap[u].source] = sources[tap[u].source]
        BY <2>1, <3>3, <4>1 DEF Begun
      <4>3. QED
        BY <1>4, <2>6, <4>1, <4>2
    <3>4. QED
      BY <3>1, <3>2, <3>3
  <2>7. ASSUME NEW u \in recorded', tap'[u].via = "phone"
        PROVE  Recall(u)' # {}
    <3>1. u \in recorded /\ tap[u].via = "phone"
      BY <1>1, <1>2, <2>1, <2>7
    <3>2. QED
      BY <1>1, <3>1 DEF RecordedIsKnown, Recall
  <2>8. ASSUME NEW u \in DOMAIN tap', tap'[u].via = "phone"
        PROVE  u \in recorded' \/ u \in lost'
    BY <1>1, <1>2, <2>1, <2>8 DEF RecordedIsKnown
  <2>9. twice' = {} /\ \A i \in DOMAIN phone' : phone'[i].tap \in DOMAIN tap'
    BY <1>1, <1>2, <2>2, <2>5 DEF Attempt, RecordedIsKnown
  <2>10. QED
    BY <2>6, <2>7, <2>8, <2>9 DEF RecordedIsKnown
<1>6. CASE ~IsNew(s, id)
  <2>1. sources' = [sources EXCEPT ![s].quiet = FALSE] /\ recorded' = recorded /\ twice' = twice
    BY <1>6 DEF CheckIn, WaitFor, s, id
  <2>2. \A x \in Source : [x EXCEPT !.quiet = FALSE] \in Source
                          /\ [x EXCEPT !.quiet = FALSE].high = x.high
                          /\ [x EXCEPT !.quiet = FALSE].quiet = FALSE
    BY DEF Source
  <2>3. sources[s] \in Source
    BY <1>1, <1>3, <1>6 DEF IsNew
  <2>4. /\ sources'[s] # NoSource /\ ~sources'[s].quiet /\ sources'[s].high = sources[s].high
        /\ \A x \in Sources : x # s => sources'[x] = sources[x]
    BY <1>1, <1>3, <2>1, <2>2, <2>3
  <2>5. ASSUME NEW u \in recorded, tap[u].via = "fob"
        PROVE  /\ sources'[tap[u].source] # NoSource /\ ~sources'[tap[u].source].quiet
               /\ tap[u].event <= sources'[tap[u].source].high
    BY <1>2, <1>4, <2>4, <2>5
  <2>6. QED
    BY <1>1, <1>2, <2>1, <2>5 DEF RecordedIsKnown, Recall
<1>7. QED
  BY <1>5, <1>6

LEMMA ClaimByPhoneKnown ==
  ASSUME DeskTypeInv, RecordedIsKnown, NEW r \in Requests, NEW t, SentTap(t), ClaimByPhone(r, t)
  PROVE  RecordedIsKnown'
<1>1. tap'[t].via = "phone" /\ t \in DOMAIN tap' /\ sources' = sources
  BY DEF ClaimByPhone, SentTap
<1>2. /\ recorded \subseteq DOMAIN tap /\ DOMAIN tap \subseteq DOMAIN tap'
      /\ \A u \in DOMAIN tap : tap'[u] = tap[u]
      /\ \A u \in DOMAIN tap' : u \in DOMAIN tap \/ u = t
  BY DEF SentTap, NewTap, DeskTypeInv, TypeOK
<1>3. CASE Recall(t) # {}
  <2>1. UNCHANGED <<phone, recorded, lost, twice>>
    BY <1>3 DEF ClaimByPhone, WaitFor
  <2>2. t \in DOMAIN tap
    BY <1>3 DEF RecordedIsKnown, Recall
  <2>3. QED
    BY <1>1, <1>2, <2>1, <2>2 DEF RecordedIsKnown, Recall
<1>4. CASE Recall(t) = {}
  <2> DEFINE forgotten == {u \in recorded : tap[u].via = "phone" /\ Recall(u)' = {}}
  <2>1. /\ phone' = Remembered(t, attempts + 1) /\ Attempt(r, t, "settle")
        /\ recorded' = (recorded \ forgotten) \cup {t} /\ lost' = lost \cup forgotten
    BY <1>4 DEF ClaimByPhone
  <2>2. attempts + 1 \in 1..MaxAttempts /\ t \in 1..MaxTaps
    BY <2>1, DeskAssumption DEF Attempt, DeskTypeInv, TypeOK, SentTap
  <2>3. /\ \E i \in DOMAIN phone' : phone'[i].tap = t
        /\ \A i \in DOMAIN phone' :
             phone'[i].tap = t \/ \E j \in DOMAIN phone : phone'[i].tap = phone[j].tap
    BY <2>1, <2>2, RememberedType
  <2>4. t \notin recorded
    BY <1>1, <1>2, <1>4 DEF RecordedIsKnown
  <2>5. \A i \in DOMAIN phone' : phone'[i].tap \in DOMAIN tap'
    BY <1>1, <1>2, <2>3 DEF RecordedIsKnown
  <2>6. \A u \in recorded' : tap'[u].via = "phone" => Recall(u)' # {}
    <3>1. Recall(t)' # {}
      BY <2>3 DEF Recall
    <3>2. QED
      BY <1>2, <2>1, <3>1
  <2>7. \A u \in DOMAIN tap' : tap'[u].via = "phone" => u \in recorded' \/ u \in lost'
    BY <1>2, <2>1 DEF RecordedIsKnown
  <2>8. twice' = {}
    BY <2>1, <2>4 DEF Attempt, RecordedIsKnown
  <2>9. \A u \in recorded' : tap'[u].via = "fob" =>
          /\ sources'[tap'[u].source] # NoSource /\ ~sources'[tap'[u].source].quiet
          /\ tap'[u].event <= sources'[tap'[u].source].high
    BY <1>1, <1>2, <2>1 DEF RecordedIsKnown
  <2>10. QED
    BY <2>5, <2>6, <2>7, <2>8, <2>9 DEF RecordedIsKnown
<1>5. QED
  BY <1>3, <1>4

LEMMA NextKnown ==
  ASSUME DeskTypeInv, RecordedIsKnown, [Next]_vars
  PROVE  RecordedIsKnown'
<1>1. CASE UNCHANGED <<sources, phone, tap, history>>
  BY <1>1 DEF RecordedIsKnown, Recall, history
<1>2. CASE TimePasses
  <2>1. /\ recorded' = {t \in recorded : tap[t].via = "phone"}
        /\ UNCHANGED <<phone, tap, lost, twice>>
    BY <1>2 DEF TimePasses
  <2>2. QED
    BY <2>1 DEF RecordedIsKnown, Recall
<1>3. ASSUME NEW r \in Requests, NEW t \in DOMAIN tap', SentTap(t),
             CheckIn(r, t) \/ ClaimByPhone(r, t)
      PROVE  RecordedIsKnown'
  BY <1>3, CheckInKnown, ClaimByPhoneKnown
<1>4. CASE Next
  BY <1>1, <1>2, <1>3, <1>4, NextCases
     DEF ResolveFob, Unresolved, Settle, StartMatch, StartFails, Repeated, GiveUp, Play, Create,
         Drop, Sweep, deskVars
<1>5. CASE UNCHANGED vars
  BY <1>1, <1>5 DEF vars, deskVars
<1>6. QED
  BY <1>4, <1>5

-----------------------------------------------------------------------------
(* A check-in is in one place.                                             *)

BringsNext(r, id) == request'[r].pc = "settle" /\ request'[r].checkin = id
HoldsNext(h, id) == claims'[h] # NoClaim /\ claims'[h].checkin = id
HandedNext(m, h, id) ==
  m \in DOMAIN matches' /\ matches'[m].handover[h] # NoClaim
    /\ matches'[m].handover[h].checkin = id

(* It moves on, or disappears.                                             *)
LEMMA NoNewPlace ==
  ASSUME OneUse, checkins \in Nat, checkins' \in Nat, checkins <= checkins',
         \A id \in Nat : Forgotten(id) => Forgotten(id)',
         \A r \in Requests, id \in Nat : BringsNext(r, id) => Brings(r, id),
         \A h \in Half, id \in Nat : HoldsNext(h, id) => Holds(h, id),
         \A m, id \in Nat, h \in Half :
           HandedNext(m, h, id) => m \in DOMAIN matches /\ Handed(m, h, id),
         DOMAIN matches' \subseteq Nat
  PROVE  OneUse'
<1>1. \A id \in Nat : Nowhere(id) => Nowhere(id)'
  BY DEF Nowhere, BringsNext, Brings, HoldsNext, Holds, HandedNext, Handed
<1>2. \A id \in Nat : OnePlace(id) => OnePlace(id)'
  BY DEF OnePlace, BringsNext, Brings, HoldsNext, Holds, HandedNext, Handed
<1>3. QED
  BY <1>1, <1>2 DEF OneUse

(* A request brings one that is new, or one the desk had forgotten.        *)
LEMMA BroughtPlace ==
  ASSUME OneUse, checkins \in Nat, checkins' \in Nat, checkins <= checkins',
         \A id \in Nat : Forgotten(id) => Forgotten(id)',
         NEW r \in Requests, NEW new \in Nat,
         new <= checkins', Forgotten(new)' \/ new > checkins,
         \A q \in Requests, id \in Nat :
           BringsNext(q, id) => Brings(q, id) \/ (q = r /\ id = new),
         \A h \in Half, id \in Nat : HoldsNext(h, id) => Holds(h, id),
         matches' = matches
  PROVE  OneUse'
<1>1. ASSUME NEW id \in Nat, ~Forgotten(id)'
      PROVE  OnePlace(id)'
  <2>1. OnePlace(id)
    BY <1>1 DEF OneUse
  <2>2. CASE id = new
    <3>1. Nowhere(id)
      BY <1>1, <2>2 DEF OneUse
    <3>2. QED
      BY <2>2, <3>1 DEF Nowhere, OnePlace, BringsNext, Brings, HoldsNext, Holds, Handed
  <2>3. CASE id # new
    BY <2>1, <2>3 DEF OnePlace, BringsNext, Brings, HoldsNext, Holds, Handed
  <2>4. QED
    BY <2>2, <2>3
<1>2. ASSUME NEW id \in Nat, id > checkins'
      PROVE  Nowhere(id)'
  <2>1. Nowhere(id) /\ id # new
    BY <1>2 DEF OneUse
  <2>2. QED
    BY <2>1 DEF Nowhere, BringsNext, Brings, HoldsNext, Holds, Handed
<1>3. QED
  BY <1>1, <1>2 DEF OneUse

(* Check-ins are counted up, and what is forgotten stays so.               *)
LEMMA CountsUp ==
  ASSUME DeskTypeInv, CheckinsCounted, [Next]_vars
  PROVE  /\ checkins \in Nat /\ checkins' \in Nat /\ checkins <= checkins'
         /\ CheckinsCounted' /\ \A id \in Nat : Forgotten(id) => Forgotten(id)'
<1>1. checkins \in Nat /\ lost \subseteq DOMAIN tap
  BY DEF DeskTypeInv, TypeOK
<1>2. \A t \in DOMAIN tap : tap[t].checkin \in Nat /\ tap[t].checkin <= checkins
  <2>1. \A t \in DOMAIN tap : tap[t] \in Tap
    BY ElementOfSeq, LenProperties DEF DeskTypeInv, TypeOK
  <2>2. QED
    BY <2>1 DEF Tap, CheckinsCounted
<1>3. CASE tap' = tap /\ lost' = lost /\ checkins' \in {checkins, checkins + 1}
  BY <1>1, <1>2, <1>3 DEF CheckinsCounted, Forgotten
<1>4. ASSUME NEW r \in Requests, NEW t \in DOMAIN tap', SentTap(t),
             CheckIn(r, t) \/ ClaimByPhone(r, t)
      PROVE  /\ checkins' \in Nat /\ checkins <= checkins' /\ CheckinsCounted'
             /\ \A id \in Nat : Forgotten(id) => Forgotten(id)'
  <2>1. lost \subseteq lost' /\ \A u \in DOMAIN tap : tap'[u] = tap[u]
    BY <1>4 DEF CheckIn, ClaimByPhone, SentTap
  <2>2. \A id \in Nat : Forgotten(id) => Forgotten(id)'
    BY <1>1, <2>1 DEF Forgotten
  <2>3. CASE tap' = tap /\ checkins' = checkins
    BY <1>1, <2>2, <2>3 DEF CheckinsCounted
  <2>4. CASE NewTap(t)
    <3>1. checkins' \in Nat /\ checkins <= checkins'
      BY <1>1, <2>4 DEF NewTap
    <3>2. tap'[t].checkin <= checkins'
      <4>1. CASE tap'[t].via = "fob"
        BY <1>1, <2>4, <4>1 DEF NewTap
      <4>2. QED
        BY <1>1, <2>4, <4>1 DEF NewTap
    <3>3. \A u \in DOMAIN tap' : tap'[u].checkin <= checkins'
      BY <1>1, <1>2, <2>1, <2>4, <3>1, <3>2 DEF NewTap
    <3>4. QED
      BY <2>2, <3>1, <3>3 DEF CheckinsCounted
  <2>5. QED
    BY <1>4, <2>3, <2>4 DEF SentTap
<1>5. CASE Next
  BY <1>1, <1>3, <1>4, <1>5, NextCases
     DEF ResolveFob, Unresolved, Settle, StartMatch, StartFails, Repeated, GiveUp, Play, Create,
         Drop, Sweep, TimePasses, history
<1>6. CASE UNCHANGED vars
  BY <1>1, <1>3, <1>6 DEF vars, history
<1>7. QED
  BY <1>1, <1>5, <1>6

(* A request's check-in goes to a half.                                    *)
LEMMA SettledPlace ==
  ASSUME OneUse, checkins \in Nat, checkins' = checkins, lost' = lost, tap' = tap,
         NEW r \in Requests, NEW half \in Half, NEW new \in Nat, Brings(r, new),
         \A q \in Requests, id \in Nat : BringsNext(q, id) => Brings(q, id) /\ q # r,
         \A h \in Half, id \in Nat :
           HoldsNext(h, id) => (Holds(h, id) /\ h # half) \/ (h = half /\ id = new),
         matches' = matches
  PROVE  OneUse'
<1>1. ASSUME NEW id \in Nat, ~Forgotten(id)'
      PROVE  OnePlace(id)'
  <2>1. OnePlace(id)
    BY <1>1 DEF OneUse, Forgotten
  <2>2. CASE id = new
    <3>1. \A q \in Requests : ~BringsNext(q, id)
      BY <2>1, <2>2 DEF OnePlace
    <3>2. \A h \in Half : HoldsNext(h, id) => h = half
      BY <2>1, <2>2 DEF OnePlace
    <3>3. \A m \in DOMAIN matches, h \in Half : ~Handed(m, h, id)
      BY <2>1, <2>2 DEF OnePlace
    <3>4. QED
      BY <3>1, <3>2, <3>3 DEF OnePlace, BringsNext, Brings, HoldsNext, Holds, Handed
  <2>3. CASE id # new
    BY <2>1, <2>3 DEF OnePlace, BringsNext, Brings, HoldsNext, Holds, Handed
  <2>4. QED
    BY <2>2, <2>3
<1>2. ASSUME NEW id \in Nat, id > checkins'
      PROVE  Nowhere(id)'
  <2>1. Nowhere(id) /\ id # new
    BY <1>2 DEF OneUse, Nowhere
  <2>2. QED
    BY <2>1 DEF Nowhere, BringsNext, Brings, HoldsNext, Holds, Handed
<1>3. QED
  BY <1>1, <1>2 DEF OneUse

(* The halves' check-ins go to the match that is created.                  *)
LEMMA HandedPlace ==
  ASSUME OneUse, checkins \in Nat, checkins' = checkins, lost' = lost, tap' = tap,
         NEW n, n \notin DOMAIN matches, DOMAIN matches' = DOMAIN matches \cup {n},
         \A m \in DOMAIN matches : matches'[m] = matches[m],
         \A h \in Half : claims[h] # NoClaim /\ matches'[n].handover[h].checkin = claims[h].checkin,
         \A q \in Requests, id \in Nat : BringsNext(q, id) => Brings(q, id),
         \A h \in Half, id \in Nat : ~HoldsNext(h, id)
  PROVE  OneUse'
<1>0. /\ \A m \in DOMAIN matches, h \in Half, id \in Nat :
           HandedNext(m, h, id) <=> Handed(m, h, id)
      /\ \A h \in Half, id \in Nat : HandedNext(n, h, id) => Holds(h, id)
  BY DEF HandedNext, Handed, Holds
<1>1. ASSUME NEW id \in Nat, ~Forgotten(id)'
      PROVE  OnePlace(id)'
  <2>1. OnePlace(id)
    BY <1>1 DEF OneUse, Forgotten
  <2>2. \A q \in Requests, p \in Requests : BringsNext(q, id) /\ BringsNext(p, id) => q = p
    BY <2>1 DEF OnePlace
  <2>3. \A k, m \in DOMAIN matches', g, h \in Half :
          HandedNext(k, g, id) /\ HandedNext(m, h, id) => k = m /\ g = h
    <3> SUFFICES ASSUME NEW k \in DOMAIN matches', NEW m \in DOMAIN matches',
                        NEW g \in Half, NEW h \in Half,
                        HandedNext(k, g, id), HandedNext(m, h, id)
                 PROVE  k = m /\ g = h
      OBVIOUS
    <3>1. CASE k = n /\ m = n
      BY <1>0, <2>1, <3>1 DEF OnePlace
    <3>2. CASE k \in DOMAIN matches /\ m = n
      BY <1>0, <2>1, <3>2 DEF OnePlace
    <3>3. CASE k = n /\ m \in DOMAIN matches
      BY <1>0, <2>1, <3>3 DEF OnePlace
    <3>4. CASE k \in DOMAIN matches /\ m \in DOMAIN matches
      BY <1>0, <2>1, <3>4 DEF OnePlace
    <3>5. QED
      BY <3>1, <3>2, <3>3, <3>4
  <2>4. \A q \in Requests, m \in DOMAIN matches', h \in Half :
          ~(BringsNext(q, id) /\ HandedNext(m, h, id))
    BY <1>0, <2>1 DEF OnePlace
  <2>5. QED
    BY <2>2, <2>3, <2>4 DEF OnePlace, BringsNext, Brings, HoldsNext, Holds, HandedNext, Handed
<1>2. ASSUME NEW id \in Nat, id > checkins'
      PROVE  Nowhere(id)'
  <2>1. Nowhere(id)
    BY <1>2 DEF OneUse
  <2>2. /\ \A q \in Requests : ~BringsNext(q, id)
        /\ \A m \in DOMAIN matches', h \in Half : ~HandedNext(m, h, id)
    BY <1>0, <2>1 DEF Nowhere
  <2>3. QED
    BY <2>2 DEF Nowhere, BringsNext, Brings, HoldsNext, Holds, HandedNext, Handed
<1>3. QED
  BY <1>1, <1>2 DEF OneUse

UseInv == DeskTypeInv /\ RecordedIsKnown /\ CheckinsCounted /\ OneUse

LEMMA MatchesDomain ==
  ASSUME DeskTypeInv
  PROVE  DOMAIN matches \subseteq Nat /\ DOMAIN matches = 1..Len(matches) /\ Len(matches) \in Nat
BY LenProperties DEF DeskTypeInv, TypeOK

(* Steps that bring nothing new.                                           *)
LEMMA QuietUse ==
  ASSUME UseInv, [Next]_vars,
         \A r \in Requests, id \in Nat : BringsNext(r, id) => Brings(r, id),
         \A h \in Half : claims'[h] # NoClaim =>
           claims[h] # NoClaim /\ claims'[h].checkin = claims[h].checkin,
         matches' = matches
  PROVE  OneUse'
<1>1. \A h \in Half, id \in Nat : HoldsNext(h, id) => Holds(h, id)
  BY DEF HoldsNext, Holds
<1>2. \A m, id \in Nat, h \in Half :
        HandedNext(m, h, id) => m \in DOMAIN matches /\ Handed(m, h, id)
  BY DEF HandedNext, Handed
<1>3. DOMAIN matches' \subseteq Nat
  BY MatchesDomain DEF UseInv
<1>4. QED
  BY <1>1, <1>2, <1>3, CountsUp, NoNewPlace DEF UseInv

LEMMA FinishBringsNothing ==
  ASSUME DeskTypeInv, NEW r \in Requests, request' = [request EXCEPT ![r] = Idle]
  PROVE  /\ \A q \in Requests, id \in Nat : BringsNext(q, id) => Brings(q, id) /\ q # r
<1>1. Idle.pc = "idle" /\ request \in [Requests -> Asking]
  BY DEF Idle, DeskTypeInv, TypeOK, Asking
<1>2. QED
  BY <1>1 DEF BringsNext, Brings

LEMMA CheckInUse ==
  ASSUME UseInv, Next, NEW r \in Requests, NEW t, SentTap(t), CheckIn(r, t)
  PROVE  OneUse'
<1>1. /\ claims' = Expired(claims) /\ claims \in Claims /\ matches' = matches
      /\ request \in [Requests -> Asking]
  BY DEF CheckIn, tableVars, UseInv, DeskTypeInv, TypeOK, Claims, Asking
<1>2. \A h \in Half : claims'[h] \in {claims[h], NoClaim}
  BY <1>1, ExpiredClaims
<1>3. \A q \in Requests, id \in Nat : BringsNext(q, id) => Brings(q, id)
  <2>1. CASE Attempt(r, t, "ask")
    BY <1>1, <2>1 DEF Attempt, BringsNext, Brings
  <2>2. ASSUME NEW a, WaitFor(r, t, a)
        PROVE  \A q \in Requests, id \in Nat : BringsNext(q, id) => Brings(q, id)
    BY <1>1, <2>2 DEF WaitFor, BringsNext, Brings
  <2>3. CASE UNCHANGED request
    BY <2>3 DEF BringsNext, Brings
  <2>4. QED
    BY <2>1, <2>2, <2>3 DEF CheckIn
<1>4. QED
  BY <1>1, <1>2, <1>3, QuietUse

LEMMA ClaimByPhoneUse ==
  ASSUME UseInv, Next, NEW r \in Requests, NEW t, SentTap(t), ClaimByPhone(r, t)
  PROVE  OneUse'
<1>1. /\ claims' = Expired(claims) /\ claims \in Claims /\ matches' = matches
      /\ request \in [Requests -> Asking] /\ tap'[t].via = "phone"
  BY DEF ClaimByPhone, tableVars, UseInv, DeskTypeInv, TypeOK, Claims, Asking
<1>2. \A h \in Half : claims'[h] \in {claims[h], NoClaim}
  BY <1>1, ExpiredClaims
<1>3. ASSUME NEW i \in Recall(t), WaitFor(r, t, phone[i].attempt)
      PROVE  OneUse'
  <2>1. \A q \in Requests, id \in Nat : BringsNext(q, id) => Brings(q, id)
    BY <1>1, <1>3 DEF WaitFor, BringsNext, Brings
  <2>2. QED
    BY <1>1, <1>2, <2>1, QuietUse
<1>4. CASE Recall(t) = {} /\ Attempt(r, t, "settle")
  <2>1. tap'[t] \in Tap /\ tap'[t].checkin \in Nat /\ t \in DOMAIN tap'
    BY SentTypes DEF UseInv, Tap, SentTap
  <2> PICK new \in Nat : new = tap'[t].checkin
    BY <2>1
  <2>2. /\ checkins \in Nat /\ checkins' \in Nat /\ checkins <= checkins'
        /\ CheckinsCounted' /\ \A id \in Nat : Forgotten(id) => Forgotten(id)'
    BY CountsUp DEF UseInv
  <2>3. new <= checkins'
    BY <2>1, <2>2 DEF CheckinsCounted
  <2>4. Forgotten(new)' \/ new > checkins
    <3>1. CASE NewTap(t)
      BY <1>1, <2>2, <3>1 DEF NewTap
    <3>2. CASE t \in DOMAIN tap /\ tap' = tap
      <4>1. t \in lost
        BY <1>1, <1>4, <3>2 DEF UseInv, RecordedIsKnown
      <4>2. Forgotten(new)
        BY <3>2, <4>1 DEF Forgotten
      <4>3. QED
        BY <2>1, <2>2, <4>2
    <3>3. QED
      BY <3>1, <3>2 DEF SentTap
  <2>5. \A q \in Requests, id \in Nat :
          BringsNext(q, id) => Brings(q, id) \/ (q = r /\ id = new)
    BY <1>1, <1>4 DEF Attempt, BringsNext, Brings
  <2>6. \A h \in Half, id \in Nat : HoldsNext(h, id) => Holds(h, id)
    BY <1>2 DEF HoldsNext, Holds
  <2>7. OneUse /\ matches' = matches /\ checkins \in Nat /\ checkins' \in Nat
        /\ checkins <= checkins' /\ \A id \in Nat : Forgotten(id) => Forgotten(id)'
    BY <1>1, <2>2 DEF UseInv
  <2>8. QED
    BY <2>3, <2>4, <2>5, <2>6, <2>7, BroughtPlace
<1>5. QED
  BY <1>3, <1>4 DEF ClaimByPhone

LEMMA ResolveFobUse ==
  ASSUME UseInv, Next, NEW r \in Requests, ResolveFob(r)
  PROVE  OneUse'
<1>1. /\ checkins' = checkins + 1 /\ checkins \in Nat /\ UNCHANGED <<claims, matches, lost, tap>>
      /\ request \in [Requests -> Asking]
      /\ request' = [request EXCEPT ![r].pc = "settle", ![r].checkin = checkins']
  BY DEF ResolveFob, deskVars, tableVars, history, UseInv, DeskTypeInv, TypeOK, Asking
<1> PICK new \in Nat : new = checkins'
  BY <1>1
<1>2. \A q \in Requests, id \in Nat :
        BringsNext(q, id) => Brings(q, id) \/ (q = r /\ id = new)
  BY <1>1 DEF BringsNext, Brings, Asking
<1>3. \A h \in Half, id \in Nat : HoldsNext(h, id) => Holds(h, id)
  BY <1>1 DEF HoldsNext, Holds
<1>4. /\ checkins' \in Nat /\ checkins <= checkins' /\ new > checkins /\ new <= checkins'
      /\ \A id \in Nat : Forgotten(id) => Forgotten(id)'
  BY <1>1 DEF Forgotten
<1>5. QED
  BY <1>1, <1>2, <1>3, <1>4, BroughtPlace DEF UseInv

LEMMA SettleUse ==
  ASSUME UseInv, Next, NEW r \in Requests, Settle(r)
  PROVE  OneUse'
<1> DEFINE half == tap[request[r].tap].half
           new == request[r].checkin
<1>1. /\ request[r].pc = "settle"
      /\ UNCHANGED <<tap, matches, checkins, lost>> /\ checkins \in Nat
      /\ request \in [Requests -> Asking] /\ new \in Nat /\ Brings(r, new)
  BY SettleCases DEF tableVars, history, UseInv, DeskTypeInv, TypeOK, Asking, Brings
<1>2. /\ \A h \in Half : Expired(claims)[h] \in {claims[h], NoClaim}
      /\ half \in Half /\ Brought(r).checkin = new
      /\ SettledClaims(r)[half] \in {Brought(r), NoClaim}
      /\ \A g \in Half : g # half => SettledClaims(r)[g] \in {claims[g], NoClaim}
  BY <1>1, SettledType DEF UseInv
<1> HIDE DEF half, new
<1>3. \A q \in Requests, id \in Nat : BringsNext(q, id) => Brings(q, id) /\ q # r
  <2>1. \/ request' = [request EXCEPT ![r] = Idle]
        \/ request' = [request EXCEPT ![r].pc = "start"]
    BY SettleCases DEF Finish
  <2>2. CASE request' = [request EXCEPT ![r] = Idle]
    BY <2>2, FinishBringsNothing DEF UseInv
  <2>3. CASE request' = [request EXCEPT ![r].pc = "start"]
    BY <1>1, <2>3 DEF BringsNext, Brings, Asking
  <2>4. QED
    BY <2>1, <2>2, <2>3
<1>4. CASE claims' = Expired(claims)
  BY <1>1, <1>2, <1>3, <1>4, QuietUse
<1>5. CASE claims' = SettledClaims(r)
  <2>1. \A h \in Half, id \in Nat :
          HoldsNext(h, id) => (Holds(h, id) /\ h # half) \/ (h = half /\ id = new)
    BY <1>2, <1>5 DEF HoldsNext, Holds
  <2>2. QED
    BY <1>1, <1>2, <1>3, <2>1, SettledPlace DEF UseInv
<1>6. QED
  BY <1>4, <1>5, SettleCases DEF Finish

LEMMA StartMatchUse ==
  ASSUME UseInv, Next, NEW r \in Requests, StartMatch(r)
  PROVE  OneUse'
<1> DEFINE n == Len(matches) + 1
           new == [state |-> "running", handover |-> Handover]
<1>1. /\ holder = r /\ holder # NoOne /\ matches' = Append(matches, new)
      /\ UNCHANGED <<tap, checkins, lost>> /\ checkins \in Nat
      /\ claims' = Released /\ request' = [request EXCEPT ![r] = Idle]
      /\ matches \in Seq(Match)
  BY DeskAssumption DEF StartMatch, Finish, history, UseInv, DeskTypeInv, TypeOK
<1>2. /\ \A h \in Half : claims[h] # NoClaim /\ claims[h].checkin = Handover[h].checkin
      /\ new \in Match
  <2>1. \A h \in Half : claims[h] # NoClaim
    BY <1>1 DEF UseInv, DeskTypeInv, AtWork, Both
  <2>2. \A h \in Half : claims[h].checkin = Handover[h].checkin
    BY DEF Handover
  <2>3. QED
    BY <1>1, <2>1, <2>2, HandoverType DEF UseInv
<1>3. new.handover = Handover
  OBVIOUS
<1> HIDE DEF new
<1>4. /\ matches' \in Seq(Match) /\ Len(matches') = n /\ matches'[n] = new
      /\ \A m \in 1..Len(matches) : matches'[m] = matches[m]
  BY <1>1, <1>2, AppendProperties
<1>5. /\ DOMAIN matches = 1..Len(matches) /\ DOMAIN matches' = 1..n /\ Len(matches) \in Nat
  BY <1>1, <1>4, LenProperties
<1>6. /\ n \notin DOMAIN matches /\ DOMAIN matches' = DOMAIN matches \cup {n}
      /\ \A m \in DOMAIN matches : matches'[m] = matches[m]
      /\ \A h \in Half : matches'[n].handover[h].checkin = claims[h].checkin
  BY <1>2, <1>3, <1>4, <1>5
<1>7. \A q \in Requests, id \in Nat : BringsNext(q, id) => Brings(q, id)
  BY <1>1, FinishBringsNothing DEF UseInv
<1>8. \A h \in Half, id \in Nat : ~HoldsNext(h, id)
  BY <1>1 DEF HoldsNext, Released
<1> HIDE DEF n
<1>9. QED
  BY <1>1, <1>2, <1>6, <1>7, <1>8, HandedPlace DEF UseInv

LEMMA TableUse ==
  ASSUME UseInv, Next, (\E m \in DOMAIN matches : Play(m)) \/ Create
  PROVE  OneUse'
<1>1. /\ \A r \in Requests, id \in Nat : BringsNext(r, id) => Brings(r, id)
      /\ \A h \in Half, id \in Nat : HoldsNext(h, id) => Holds(h, id)
  BY DEF Play, Create, deskVars, BringsNext, Brings, HoldsNext, Holds
<1>2. /\ \A m, id \in Nat, h \in Half :
           HandedNext(m, h, id) => m \in DOMAIN matches /\ Handed(m, h, id)
      /\ DOMAIN matches' \subseteq Nat
  <2>1. ASSUME NEW m \in DOMAIN matches, Play(m)
        PROVE  <1>2
    <3>1. /\ DOMAIN matches' = DOMAIN matches
          /\ \A k \in DOMAIN matches : matches'[k].handover = matches[k].handover
      BY <2>1, MatchesType DEF Play, UseInv, DeskTypeInv, TypeOK
    <3>2. QED
      BY <3>1, MatchesDomain DEF HandedNext, Handed, UseInv
  <2>2. CASE Create
    <3> DEFINE new == [state |-> "running", handover |-> [h \in Half |-> NoClaim]]
    <3>1. new \in Match /\ \A h \in Half : new.handover[h] = NoClaim
      BY DEF Match
    <3>2. matches' = Append(matches, new) /\ matches \in Seq(Match)
      BY <2>2 DEF Create, UseInv, DeskTypeInv, TypeOK
    <3> HIDE DEF new
    <3>3. /\ matches' \in Seq(Match) /\ Len(matches') = Len(matches) + 1
          /\ matches'[Len(matches) + 1] = new /\ Len(matches) \in Nat
          /\ \A m \in 1..Len(matches) : matches'[m] = matches[m]
      BY <3>1, <3>2, AppendProperties
    <3>4. DOMAIN matches' = 1..(Len(matches) + 1) /\ DOMAIN matches = 1..Len(matches)
      BY <3>2, <3>3, LenProperties
    <3>5. ASSUME NEW m \in Nat, NEW id \in Nat, NEW h \in Half, HandedNext(m, h, id)
          PROVE  m \in DOMAIN matches /\ Handed(m, h, id)
      <4>1. m # Len(matches) + 1
        BY <3>1, <3>3, <3>5 DEF HandedNext
      <4>2. m \in 1..Len(matches)
        BY <3>3, <3>4, <3>5, <4>1 DEF HandedNext
      <4>3. QED
        BY <3>3, <3>4, <3>5, <4>2 DEF HandedNext, Handed
    <3>6. QED
      BY <3>3, <3>4, <3>5
  <2>3. QED
    BY <2>1, <2>2
<1>3. QED
  BY <1>1, <1>2, CountsUp, NoNewPlace DEF UseInv

LEMMA NextUse ==
  ASSUME UseInv, [Next]_vars
  PROVE  OneUse'
<1>1. CASE UNCHANGED <<request, matches>> /\ (claims' = claims \/ claims' = Expired(claims)
                                               \/ claims' = Dropped \/ TimePasses)
  <2>1. \A r \in Requests, id \in Nat : BringsNext(r, id) => Brings(r, id)
    BY <1>1 DEF BringsNext, Brings
  <2>2. \A h \in Half : claims'[h] # NoClaim =>
          claims[h] # NoClaim /\ claims'[h].checkin = claims[h].checkin
    <3>1. claims \in Claims
      BY DEF UseInv, DeskTypeInv, TypeOK, Claims
    <3>2. QED
      BY <1>1, <3>1, ExpiredClaims, OlderClaims DEF Dropped, UseInv
  <2>3. QED
    BY <1>1, <2>1, <2>2, QuietUse
<1>2. ASSUME NEW r \in Requests, Unresolved(r) \/ StartFails(r) \/ Repeated(r) \/ GiveUp(r)
      PROVE  OneUse'
  <2>1. /\ request' = [request EXCEPT ![r] = Idle] /\ matches' = matches
        /\ claims' = claims \/ claims' = Expired(claims)
    BY <1>2 DEF Unresolved, StartFails, Repeated, GiveUp, Finish, deskVars, tableVars
  <2>2. \A q \in Requests, id \in Nat : BringsNext(q, id) => Brings(q, id)
    BY <2>1, FinishBringsNothing DEF UseInv
  <2>3. \A h \in Half : claims'[h] \in {claims[h], NoClaim}
    <3>1. claims \in Claims
      BY DEF UseInv, DeskTypeInv, TypeOK, Claims
    <3>2. QED
      BY <2>1, <3>1, ExpiredClaims
  <2>4. QED
    BY <2>1, <2>2, <2>3, QuietUse
<1>3. CASE Sweep \/ TimePasses \/ Drop \/ UNCHANGED vars
  BY <1>1, <1>3 DEF Sweep, TimePasses, Drop, vars, deskVars, tableVars
<1>4. CASE Next
  BY <1>2, <1>3, <1>4, NextCases, CheckInUse, ClaimByPhoneUse, ResolveFobUse, SettleUse,
     StartMatchUse, TableUse DEF UseInv
<1>5. QED
  BY <1>3, <1>4

-----------------------------------------------------------------------------
(* Theorems.                                                               *)

LEMMA InitUse == Init => UseInv
<1> SUFFICES ASSUME Init PROVE UseInv
  OBVIOUS
<1>1. Known = {} /\ {s \in Sources : sources[s] # NoSource} = {}
  BY DEF Init, Known
<1>2. IsFiniteSet({}) /\ Cardinality({}) = 0
  BY FS_EmptySet
<1>3. /\ DOMAIN tap = {} /\ DOMAIN phone = {} /\ DOMAIN matches = {} /\ Len(tap) = 0
      /\ tap \in Seq(Tap) /\ matches \in Seq(Match) /\ Len(phone) = 0
      /\ phone \in Seq([tap : 1..MaxTaps, attempt : 1..MaxAttempts])
  BY DEF Init
<1>4. request \in [Requests -> Asking] /\ \A r \in Requests : request[r].pc = "idle"
  BY IdleAsking DEF Init, Idle
<1>5. TypeOK
  <2>1. claims \in [Half -> Claim \cup {NoClaim}] /\ sources \in [Sources -> Source \cup {NoSource}]
    BY DEF Init
  <2>2. Cardinality({s \in Sources : sources[s] # NoSource}) <= MaxSources
    BY <1>1, <1>2, DeskAssumption
  <2>3. Len(phone) <= MaxPhone
    BY <1>3, DeskAssumption
  <2>4. /\ attempts \in 0..MaxAttempts /\ open \subseteq 1..attempts
        /\ holder \in Requests \cup {NoOne} /\ checkins \in Nat
    <3>1. attempts = 0 /\ open = {} /\ holder = NoOne /\ checkins = 0 /\ MaxAttempts \in Nat
      BY DeskAssumption DEF Init
    <3>2. QED
      BY <3>1
  <2>5. recorded \subseteq DOMAIN tap /\ lost \subseteq DOMAIN tap /\ twice \subseteq DOMAIN tap
    BY DEF Init
  <2>6. page \in BOOLEAN
    BY DEF Init
  <2>7. QED
    BY <1>3, <1>4, <2>1, <2>2, <2>3, <2>4, <2>5, <2>6 DEF TypeOK, Asking
<1>6. AtWork
  BY <1>4, DeskAssumption DEF Init, AtWork
<1>7. DeskTypeInv
  BY <1>1, <1>2, <1>3, <1>5, <1>6, DeskAssumption DEF DeskTypeInv
<1>8. RecordedIsKnown /\ CheckinsCounted
  BY <1>3 DEF Init, RecordedIsKnown, CheckinsCounted
<1>9. OneUse
  BY <1>3, <1>4 DEF Init, OneUse, OnePlace, Nowhere, Brings, Holds, Handed
<1>10. QED
  BY <1>7, <1>8, <1>9 DEF UseInv

LEMMA DeskInv == Spec => []UseInv
<1>1. UseInv /\ [Next]_vars => UseInv'
  BY NextType, NextKnown, CountsUp, NextUse DEF UseInv
<1>2. QED
  BY <1>1, InitUse, PTL DEF Spec

(* Claims, requests, records and matches stay within their types, and the  *)
(* desk remembers no more sources and phone claims than it has room for    *)
(* (maxSources, maxPhoneClaims).                                           *)
THEOREM DeskTypeOK == Spec => []TypeOK
<1>1. UseInv => TypeOK
  BY DEF UseInv, DeskTypeInv
<1>2. QED
  BY <1>1, DeskInv, PTL

(* A tap sent again is resolved once, while its record is kept (begin,     *)
(* rememberPhone).                                                         *)
THEOREM DeskTapTakenOnce == Spec => []TapTakenOnce
<1>1. UseInv => TapTakenOnce
  BY DEF UseInv, RecordedIsKnown, TapTakenOnce
<1>2. QED
  BY <1>1, DeskInv, PTL

(* A check-in is handed over to one match, and no claim keeps it           *)
(* afterwards, unless the desk was made to forget it (settle, ADR-0010).   *)
THEOREM DeskCheckinUsedOnce == Spec => []CheckinUsedOnce
<1>1. UseInv => CheckinUsedOnce
  <2> SUFFICES ASSUME UseInv, NEW m \in DOMAIN matches, NEW h \in Half,
                      matches[m].handover[h] # NoClaim,
                      ~Forgotten(matches[m].handover[h].checkin)
               PROVE  /\ \A n \in DOMAIN matches, g \in Half :
                           matches[n].handover[g] # NoClaim /\ <<n, g>> # <<m, h>>
                             => matches[n].handover[g].checkin # matches[m].handover[h].checkin
                      /\ \A g \in Half : claims[g] # NoClaim =>
                           claims[g].checkin # matches[m].handover[h].checkin
    BY DEF CheckinUsedOnce
  <2> DEFINE id == matches[m].handover[h].checkin
  <2>1. id \in Nat
    <3>1. matches[m] \in Match
      BY ElementOfSeq, LenProperties DEF UseInv, DeskTypeInv, TypeOK
    <3>2. QED
      BY <3>1 DEF Match
  <2>2. OnePlace(id)
    BY <2>1 DEF UseInv, OneUse
  <2>3. QED
    BY <2>2 DEF OnePlace, Handed, Holds
<1>2. QED
  BY <1>1, DeskInv, PTL

(* A match that starts takes the claims with it, and while a real match    *)
(* runs, one an undo has reopened too, no half is claimed or held anew     *)
(* (begin, settle, start, Drop; #114).                                     *)
THEOREM DeskRunningMatchHasTheTable == Spec => RunningMatchHasTheTable
<1>1. Init => TableWasFree
  BY DEF Init, TableWasFree
<1>2. UseInv /\ TableWasFree /\ [Next]_vars => TableWasFree'
  <2> SUFFICES ASSUME DeskTypeInv, TableWasFree, [Next]_vars
               PROVE  TableWasFree'
    BY DEF UseInv
  <2> DEFINE Free(cs) == \A h \in Half : cs[h] = NoClaim
  <2>0. claims \in Claims /\ (Free(claims) => Free(Expired(claims)))
    <3>1. claims \in Claims
      BY DEF DeskTypeInv, TypeOK, Claims
    <3>2. QED
      BY <3>1, ExpiredClaims
  <2>1. CASE /\ UNCHANGED tableVars
             /\ claims' = claims \/ claims' = Expired(claims) \/ (Free(claims) => Free(claims'))
    BY <2>0, <2>1 DEF TableWasFree, Unheld, tableVars
  <2>2. ASSUME NEW r \in Requests, Settle(r)
        PROVE  TableWasFree'
    <3>1. CASE claims' = Expired(claims) /\ UNCHANGED tableVars
      BY <2>1, <3>1
    <3>2. CASE ~Occupied /\ UNCHANGED tableVars
      BY <3>2 DEF Occupied, TableWasFree, tableVars
    <3>3. QED
      BY <2>2, <3>1, <3>2, SettleCases DEF Finish
  <2>3. ASSUME NEW r \in Requests, StartMatch(r)
        PROVE  TableWasFree'
    BY <2>3 DEF StartMatch, Finish, Released, TableWasFree, Unheld
  <2>4. ASSUME NEW m \in DOMAIN matches, Play(m)
        PROVE  TableWasFree'
    <3>1. PICK x \in {"won", "ended", "again"} : matches' = [matches EXCEPT ![m].state = x]
      BY <2>4 DEF Play
    <3>2. /\ DOMAIN matches' = DOMAIN matches /\ matches'[m].state = x
          /\ \A n \in DOMAIN matches : n # m => matches'[n] = matches[n]
      BY <3>1, MatchesType DEF DeskTypeInv, TypeOK
    <3>3. UNCHANGED <<claims, page>>
      BY <2>4 DEF Play, deskVars
    <3>4. QED
      BY <3>2, <3>3 DEF TableWasFree, Unheld
  <2>5. CASE Create
    BY <2>5 DEF Create, TableWasFree
  <2>6. CASE Drop
    BY <2>6 DEF Drop, Dropped, TableWasFree, Unheld
  <2>7. CASE TimePasses
    BY <2>1, <2>7, OlderClaims DEF TimePasses
  <2>8. CASE UNCHANGED vars
    BY <2>1, <2>8 DEF vars, deskVars
  <2>9. QED
    BY <2>1, <2>2, <2>3, <2>4, <2>5, <2>6, <2>7, <2>8, NextCases
       DEF CheckIn, ClaimByPhone, ResolveFob, Unresolved, StartFails, Repeated, GiveUp, Sweep,
           Finish, deskVars
<1>3. UseInv /\ [Next]_vars => [Occupied /\ Occupied' => NothingClaimed]_vars
  <2> SUFFICES ASSUME DeskTypeInv, Next, Occupied
               PROVE  NothingClaimed
    BY DEF UseInv
  <2>1. \A h \in Half : claims[h] # NoClaim => claims[h].age \in Nat
    BY DEF DeskTypeInv, TypeOK, Claim, Ages
  <2>2. CASE claims' = claims \/ claims' = Expired(claims)
    <3>1. \A h \in Half : claims'[h] \in {claims[h], NoClaim}
      BY <2>2, ExpiredClaims DEF DeskTypeInv, TypeOK, Claims
    <3>2. QED
      BY <2>1, <3>1 DEF NothingClaimed
  <2>3. ASSUME NEW r \in Requests, Settle(r)
        PROVE  NothingClaimed
    BY <2>2, <2>3, SettleCases DEF Finish
  <2>4. ASSUME NEW r \in Requests, StartMatch(r)
        PROVE  NothingClaimed
    BY <2>4 DEF StartMatch, Finish, Released, NothingClaimed
  <2>5. CASE Drop
    BY <2>5 DEF Drop, Dropped, NothingClaimed
  <2>6. CASE TimePasses
    BY <2>6, OlderClaims DEF NothingClaimed
  <2>7. CASE Create
    BY <2>2, <2>7 DEF Create, deskVars
  <2>8. ASSUME NEW m \in DOMAIN matches, Play(m)
        PROVE  NothingClaimed
    BY <2>2, <2>8 DEF Play, deskVars
  <2>9. QED
    BY <2>2, <2>3, <2>4, <2>5, <2>6, <2>7, <2>8, NextCases
       DEF CheckIn, ClaimByPhone, ResolveFob, Unresolved, StartFails, Repeated, GiveUp, Sweep,
           Finish, deskVars
<1>4. QED
  BY <1>1, <1>2, <1>3, DeskInv, PTL DEF Spec, RunningMatchHasTheTable
=============================================================================
