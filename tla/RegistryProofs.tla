--------------------------- MODULE RegistryProofs ---------------------------
(***************************************************************************)
(* Theorems about Registry, for every number of matches kept, every number *)
(* of matches created and every set of clients.                            *)
(***************************************************************************)
EXTENDS Registry, SequenceTheorems, TLAPS

(* CreateFor looks at the matches in their order: what it has still to     *)
(* look at is the end of that order, and Seen is how many it has passed.   *)
Seen == Len(order) - Len(creating.left)

LeftIsTheEnd ==
  creating.pc # "unlocked" =>
    /\ Len(creating.left) <= Len(order)
    /\ \A k \in 1..Len(creating.left) : creating.left[k] = order[Seen + k]

(* While it asks or ends: there is room for one match more, and what it    *)
(* passed either does not run, or is of the new match's kind, or has been  *)
(* reopened.                                                               *)
PassedIsClear ==
  creating.pc \in {"refuse", "end"} =>
    /\ made < MaxMatches
    /\ creating.demo <=> creating.pc = "refuse"
    /\ \A k \in 1..Seen :
         Running(order[k]) /\ demo[order[k]] # creating.demo => reopened[order[k]]

(* What Current has still to look at is in order, and every match that ran *)
(* since it began is among it.                                             *)
ScanSees ==
  \A c \in Clients :
    request[c].pc = "scan" =>
      Increasing(request[c].left) /\ steady[c] \subseteq ToSet(request[c].left)

(* A match of one kind was let in only when no older one of the other kind *)
(* ran, so whichever runs now has been reopened: also beside a newer match *)
(* that is over, which an undo may reopen next.                            *)
NewerTookTheTable ==
  \A i, j \in 1..made : Running(i) /\ i < j /\ demo[i] # demo[j] => reopened[i]

TableInv == LeftIsTheEnd /\ PassedIsClear /\ NewerTookTheTable /\ RunningIsKept

-----------------------------------------------------------------------------
(* Sequences.                                                              *)

LEMMA ToSetElements ==
  ASSUME NEW S, NEW s \in Seq(S)
  PROVE  \A x : x \in ToSet(s) <=> \E k \in 1..Len(s) : x = s[k]
BY DEF ToSet

LEMMA TailElements ==
  ASSUME NEW S, NEW s \in Seq(S), s # <<>>
  PROVE  /\ Len(s) \in Nat \ {0} /\ Head(s) \in S /\ Head(s) = s[1]
         /\ Tail(s) \in Seq(S) /\ Len(Tail(s)) = Len(s) - 1
         /\ \A k \in 1..(Len(s) - 1) : Tail(s)[k] = s[k + 1]
BY HeadTailProperties, EmptySeq

LEMMA FrontElements ==
  ASSUME NEW S, NEW s \in Seq(S), s # <<>>
  PROVE  /\ Len(s) \in Nat \ {0} /\ Last(s) \in S /\ Last(s) = s[Len(s)]
         /\ Front(s) \in Seq(S) /\ Len(Front(s)) = Len(s) - 1
         /\ \A k \in 1..(Len(s) - 1) : Front(s)[k] = s[k]
<1> DEFINE n == Len(s) - 1
<1>1. /\ Len(s) \in Nat \ {0} /\ n \in Nat /\ Len(s) = n + 1
      /\ \A k \in 1..Len(s) : s[k] \in S
  BY EmptySeq, ElementOfSeq
<1> HIDE DEF n
<1>2. /\ SubSeq(s, 1, n) \in Seq(S) /\ Len(SubSeq(s, 1, n)) = n
      /\ \A k \in 1..n : SubSeq(s, 1, n)[k] = s[k]
  BY <1>1
<1>3. QED
  BY <1>1, <1>2 DEF Last, Front, n

LEMMA AppendElements ==
  ASSUME NEW S, NEW s \in Seq(S), NEW e \in S
  PROVE  /\ Append(s, e) \in Seq(S) /\ Len(Append(s, e)) = Len(s) + 1
         /\ \A k \in 1..Len(s) : Append(s, e)[k] = s[k]
         /\ Append(s, e)[Len(s) + 1] = e
BY AppendProperties

(* What is removed from a sequence leaves the rest in its order.           *)
LEMMA RemoveAtElements ==
  ASSUME NEW S, NEW s \in Seq(S), NEW n \in 1..Len(s)
  PROVE  /\ RemoveAt(s, n) \in Seq(S) /\ Len(RemoveAt(s, n)) = Len(s) - 1
         /\ \A k \in 1..(Len(s) - 1) :
              RemoveAt(s, n)[k] = IF k < n THEN s[k] ELSE s[k + 1]
<1> DEFINE a == SubSeq(s, 1, n - 1)
           b == SubSeq(s, n + 1, Len(s))
<1>1. Len(s) \in Nat /\ n \in Int /\ \A k \in 1..Len(s) : s[k] \in S
  BY ElementOfSeq
<1>2. /\ a \in Seq(S) /\ Len(a) = n - 1 /\ \A k \in 1..(n - 1) : a[k] = s[k]
  BY <1>1
<1>3. /\ b \in Seq(S) /\ Len(b) = Len(s) - n
      /\ \A k \in 1..(Len(s) - n) : b[k] = s[n + k]
  BY <1>1
<1> HIDE DEF a, b
<1>4. /\ a \o b \in Seq(S) /\ Len(a \o b) = Len(s) - 1
      /\ \A k \in 1..(Len(s) - 1) :
           (a \o b)[k] = IF k <= Len(a) THEN a[k] ELSE b[k - Len(a)]
  BY <1>1, <1>2, <1>3, ConcatProperties
<1>5. ASSUME NEW k \in 1..(Len(s) - 1)
      PROVE  (a \o b)[k] = IF k < n THEN s[k] ELSE s[k + 1]
  <2>1. CASE k < n
    BY <1>1, <1>2, <1>4, <2>1
  <2>2. CASE ~(k < n)
    <3>1. k - Len(a) \in 1..(Len(s) - n) /\ n + (k - Len(a)) = k + 1
      BY <1>1, <1>2, <2>2
    <3>2. QED
      BY <1>1, <1>2, <1>3, <1>4, <2>2, <3>1
  <2>3. QED
    BY <2>1, <2>2
<1>6. QED
  BY <1>4, <1>5 DEF RemoveAt, a, b

LEMMA RemoveAtKeeps ==
  ASSUME NEW S, NEW s \in Seq(S), NEW n \in 1..Len(s)
  PROVE  \A x \in ToSet(s) : x # s[n] => x \in ToSet(RemoveAt(s, n))
<1> SUFFICES ASSUME NEW x \in ToSet(s), x # s[n] PROVE x \in ToSet(RemoveAt(s, n))
  OBVIOUS
<1>1. /\ Len(s) \in Nat
      /\ \A k \in 1..(Len(s) - 1) :
           RemoveAt(s, n)[k] = IF k < n THEN s[k] ELSE s[k + 1]
  BY RemoveAtElements
<1>2. PICK k \in 1..Len(s) : x = s[k]
  BY ToSetElements
<1>3. CASE k < n
  <2>1. k \in 1..(Len(s) - 1) /\ RemoveAt(s, n)[k] = x
    BY <1>1, <1>2, <1>3
  <2>2. QED
    BY <2>1, RemoveAtElements, ToSetElements
<1>4. CASE k > n
  <2>1. k - 1 \in 1..(Len(s) - 1) /\ RemoveAt(s, n)[k - 1] = x
    BY <1>1, <1>2, <1>4
  <2>2. QED
    BY <2>1, RemoveAtElements, ToSetElements
<1>5. QED
  BY <1>1, <1>2, <1>3, <1>4

LEMMA RemoveAtIncreasing ==
  ASSUME NEW s \in Seq(Int), NEW n \in 1..Len(s), Increasing(s)
  PROVE  Increasing(RemoveAt(s, n))
<1> DEFINE r == RemoveAt(s, n)
<1>1. /\ Len(s) \in Nat /\ Len(r) = Len(s) - 1
      /\ \A k \in 1..(Len(s) - 1) : r[k] = IF k < n THEN s[k] ELSE s[k + 1]
  BY RemoveAtElements
<1> HIDE DEF r
<1>2. ASSUME NEW i \in 1..Len(r), NEW j \in 1..Len(r), i < j
      PROVE  r[i] < r[j]
  <2> DEFINE at(k) == IF k < n THEN k ELSE k + 1
  <2>1. at(i) \in 1..Len(s) /\ at(j) \in 1..Len(s) /\ at(i) < at(j)
    <3>1. Len(s) \in Nat /\ n \in Nat /\ i \in 1..(Len(s) - 1) /\ j \in 1..(Len(s) - 1)
      BY <1>1, <1>2
    <3>2. at(i) \in 1..Len(s) /\ at(j) \in 1..Len(s)
      BY <3>1
    <3>3. at(i) < at(j)
      BY <1>2, <3>1
    <3>4. QED
      BY <3>2, <3>3
  <2>2. r[i] = s[at(i)] /\ r[j] = s[at(j)]
    BY <1>1
  <2>3. QED
    BY <2>1, <2>2 DEF Increasing
<1>3. QED
  BY <1>2 DEF Increasing, r

-----------------------------------------------------------------------------
(* Types.                                                                  *)

TypeInv == TypeOK /\ (creating.pc \in {"refuse", "end"} => made < MaxMatches)

LEMMA UnlockedType ==
  Unlocked \in [pc : {"unlocked", "refuse", "end", "evict"}, demo : BOOLEAN, left : Seq(Ids)]
<1>1. <<>> \in Seq(Ids)
  OBVIOUS
<1>2. QED
  BY <1>1 DEF Unlocked

LEMMA EvictingType ==
  ASSUME TypeOK, NEW s \in Seq(Ids), Evicting(s)
  PROVE  creating' \in [pc : {"unlocked", "refuse", "end", "evict"}, demo : BOOLEAN,
                        left : Seq(Ids)]
<1>1. Unlocked \in [pc : {"unlocked", "refuse", "end", "evict"}, demo : BOOLEAN,
                     left : Seq(Ids)]
  BY UnlockedType
<1>2. QED
  BY <1>1 DEF Evicting, TypeOK

LEMMA OrderType ==
  ASSUME TypeOK, NEW n \in Nat, made <= n
  PROVE  order \in Seq(1..n)
BY SeqMonotonic DEF TypeOK

LEMMA AddType ==
  ASSUME TypeInv, Add
  PROVE  /\ made' \in 0..MaxMatches /\ order' \in Seq(1..made') /\ Increasing(order')
         /\ demo' \in [Ids -> BOOLEAN] /\ order' \in Seq(Ids)
         /\ made \in Nat /\ Len(order) \in Nat /\ Len(order') = Len(order) + 1
         /\ \A k \in 1..Len(order) : order'[k] = order[k] /\ order[k] \in 1..made
         /\ order'[Len(order) + 1] = made + 1
<1>1. made \in Nat /\ made' = made + 1 /\ made' \in 0..MaxMatches /\ made' \in Ids
  BY RegistryAssumption DEF TypeInv, TypeOK, Add, Ids
<1>2. order \in Seq(1..made') /\ made' \in 1..made'
  BY <1>1, OrderType DEF TypeInv
<1>3. /\ order' \in Seq(1..made') /\ Len(order') = Len(order) + 1
      /\ \A k \in 1..Len(order) : order'[k] = order[k]
      /\ order'[Len(order) + 1] = made + 1
  BY <1>1, <1>2, AppendElements DEF Add, Added
<1>4. Len(order) \in Nat /\ \A k \in 1..Len(order) : order[k] \in 1..made
  BY ElementOfSeq DEF TypeInv, TypeOK
<1>5. Increasing(order')
  <2> SUFFICES ASSUME NEW i \in 1..Len(order'), NEW j \in 1..Len(order'), i < j
               PROVE  order'[i] < order'[j]
    BY DEF Increasing
  <2>1. i \in 1..Len(order) /\ order'[i] = order[i] /\ order[i] \in 1..made
    BY <1>3, <1>4
  <2>2. CASE j \in 1..Len(order)
    BY <1>3, <2>1, <2>2 DEF TypeInv, TypeOK, Increasing
  <2>3. CASE j = Len(order) + 1
    BY <1>1, <1>3, <2>1, <2>3
  <2>4. QED
    BY <1>3, <1>4, <2>2, <2>3
<1>6. order' \in Seq(Ids)
  <2>1. 1..made' \subseteq Ids
    BY <1>1, RegistryAssumption DEF Ids
  <2>2. QED
    BY <1>3, <2>1, SeqMonotonic
<1>7. demo' \in [Ids -> BOOLEAN]
  BY DEF TypeInv, TypeOK, Add
<1>8. QED
  BY <1>1, <1>3, <1>4, <1>5, <1>6, <1>7

(* What evict drops, it drops from the order it looks at.                  *)
LEMMA EvictDrops ==
  ASSUME TypeOK, LeftIsTheEnd, Evict, creating.left # <<>>, Droppable(Head(creating.left))
  PROVE  \E n \in 1..Len(order) :
           order[n] = Head(creating.left) /\ order' = RemoveAt(order, n) /\ Evicting(order')
<1>1. creating.left \in Seq(Ids) /\ creating.pc = "evict"
  BY DEF TypeOK, Evict
<1>2. Len(creating.left) \in Nat \ {0} /\ Head(creating.left) = creating.left[1]
  BY <1>1, TailElements
<1>3. Len(order) \in Nat
  BY DEF TypeOK
<1>4. 1 \in 1..Len(creating.left)
  BY <1>2
<1>5. creating.left[1] = order[Seen + 1] /\ Len(creating.left) <= Len(order)
  BY <1>1, <1>4 DEF LeftIsTheEnd
<1>6. /\ Seen + 1 \in 1..Len(order) /\ order[Seen + 1] = Head(creating.left)
      /\ Len(order) - Len(creating.left) + 1 = Seen + 1
  <2>1. Seen = Len(order) - Len(creating.left)
    BY DEF Seen
  <2>2. Seen + 1 \in 1..Len(order)
    BY <1>2, <1>3, <1>5, <2>1
  <2>3. order[Seen + 1] = Head(creating.left)
    BY <1>2, <1>5
  <2>4. Len(order) - Len(creating.left) + 1 = Seen + 1
    BY <1>2, <1>3, <2>1
  <2>5. QED
    BY <2>2, <2>3, <2>4
<1>7. order' = RemoveAt(order, Len(order) - Len(creating.left) + 1) /\ Evicting(order')
  BY DEF Evict
<1>8. QED
  BY <1>6, <1>7

LEMMA EvictType ==
  ASSUME TypeOK, LeftIsTheEnd, Evict
  PROVE  /\ order' \in Seq(1..made) /\ Increasing(order')
         /\ creating' \in [pc : {"unlocked", "refuse", "end", "evict"}, demo : BOOLEAN,
                           left : Seq(Ids)]
<1>1. CASE creating.left = <<>>
  BY <1>1, UnlockedType DEF Evict, TypeOK
<1>2. CASE creating.left # <<>> /\ ~Droppable(Head(creating.left))
  <2>1. creating' = [creating EXCEPT !.left = Tail(@)] /\ order' = order
    BY <1>2 DEF Evict
  <2>2. Tail(creating.left) \in Seq(Ids)
    BY <1>2, TailElements DEF TypeOK
  <2>3. QED
    BY <2>1, <2>2 DEF TypeOK
<1>3. CASE creating.left # <<>> /\ Droppable(Head(creating.left))
  <2>1. PICK n \in 1..Len(order) : order' = RemoveAt(order, n) /\ Evicting(order')
    BY <1>3, EvictDrops
  <2>2. order' \in Seq(1..made)
    BY <2>1, RemoveAtElements DEF TypeOK
  <2>3. 1..made \subseteq Int /\ 1..made \subseteq Ids
    BY RegistryAssumption DEF TypeOK, Ids
  <2>4. order \in Seq(Int)
    BY <2>3, SeqMonotonic DEF TypeOK
  <2>5. Increasing(order')
    BY <2>1, <2>4, RemoveAtIncreasing DEF TypeOK
  <2>6. order' \in Seq(Ids)
    BY <2>2, <2>3, SeqMonotonic
  <2>7. QED
    BY <2>1, <2>2, <2>5, <2>6, EvictingType
<1>4. QED
  BY <1>1, <1>2, <1>3

(* A request keeps its type, whatever it does.                             *)
RequestType ==
  request' \in [Clients -> [pc : {"idle", "scan", "check", "act"}, kind : Kind,
                            match : Ids \cup {0}, left : Seq(Ids)]]

LEMMA IdleType ==
  Idle \in [pc : {"idle", "scan", "check", "act"}, kind : Kind,
            match : Ids \cup {0}, left : Seq(Ids)]
<1>1. <<>> \in Seq(Ids)
  OBVIOUS
<1>2. QED
  BY <1>1 DEF Idle, Kind

LEMMA ResolveType ==
  ASSUME TypeOK, NEW c \in Clients, NEW kind \in Kind, Resolve(c, kind)
  PROVE  RequestType
<1>1. order \in Seq(Ids) /\ <<>> \in Seq(Ids)
  <2>1. MaxMatches \in Nat /\ made <= MaxMatches
    BY RegistryAssumption DEF TypeOK
  <2>2. QED
    BY <2>1, OrderType DEF Ids
<1>2. \A i \in ToSet(order) : i \in Ids
  BY <1>1, ToSetElements, ElementOfSeq
<1>3. CASE kind = "press"
  <2>1. [pc |-> "scan", kind |-> kind, match |-> 0, left |-> order] \in
          [pc : {"idle", "scan", "check", "act"}, kind : Kind,
           match : Ids \cup {0}, left : Seq(Ids)]
    BY <1>1
  <2>2. QED
    BY <1>3, <2>1 DEF Resolve, RequestType, TypeOK
<1>4. CASE kind # "press"
  <2>1. PICK i \in ToSet(order) :
          request' = [request EXCEPT ![c] =
                        [pc |-> IF kind \in {"point", "undo"} THEN "check" ELSE "act",
                         kind |-> kind, match |-> i, left |-> <<>>]]
    BY <1>4 DEF Resolve
  <2>2. [pc |-> IF kind \in {"point", "undo"} THEN "check" ELSE "act",
         kind |-> kind, match |-> i, left |-> <<>>] \in
          [pc : {"idle", "scan", "check", "act"}, kind : Kind,
           match : Ids \cup {0}, left : Seq(Ids)]
    BY <1>1, <1>2
  <2>3. QED
    BY <2>1, <2>2 DEF RequestType, TypeOK
<1>5. QED
  BY <1>3, <1>4

LEMMA ScanType ==
  ASSUME TypeOK, NEW c \in Clients, Scan(c)
  PROVE  RequestType
<1> DEFINE s == request[c].left
           R == [pc : {"idle", "scan", "check", "act"}, kind : Kind,
                 match : Ids \cup {0}, left : Seq(Ids)]
<1>1. request[c] \in R /\ s \in Seq(Ids) /\ <<>> \in Seq(Ids)
  BY DEF TypeOK
<1>2. s # <<>> => Last(s) \in Ids /\ Front(s) \in Seq(Ids)
  BY <1>1, FrontElements
<1>3. s # <<>> => /\ [request[c] EXCEPT !.pc = "check", !.match = Last(s), !.left = <<>>] \in R
                  /\ [request[c] EXCEPT !.left = Front(s)] \in R
  BY <1>1, <1>2
<1>4. \E r \in R : request' = [request EXCEPT ![c] = r]
  <2>1. CASE s = <<>>
    BY <2>1, IdleType DEF Scan
  <2>2. CASE s # <<>> /\ Running(Last(s))
    BY <1>3, <2>2 DEF Scan, NextLook
  <2>3. CASE s # <<>> /\ ~Running(Last(s))
    BY <1>3, <2>3 DEF Scan, NextLook
  <2>4. QED
    BY <2>1, <2>2, <2>3
<1>5. QED
  BY <1>4 DEF TypeOK, RequestType

LEMMA ActType ==
  ASSUME TypeOK, NEW c \in Clients, Check(c) \/ Score(c) \/ Undo(c) \/ End(c)
  PROVE  RequestType
<1>1. request[c] \in [pc : {"idle", "scan", "check", "act"}, kind : Kind,
                      match : Ids \cup {0}, left : Seq(Ids)]
  BY DEF TypeOK
<1>2. request' = [request EXCEPT ![c] = Idle] \/ request' = [request EXCEPT ![c].pc = "act"]
  BY DEF Check, Score, Undo, End
<1>3. [request[c] EXCEPT !.pc = "act"] \in
        [pc : {"idle", "scan", "check", "act"}, kind : Kind,
         match : Ids \cup {0}, left : Seq(Ids)]
  BY <1>1
<1>4. \E r \in [pc : {"idle", "scan", "check", "act"}, kind : Kind,
                match : Ids \cup {0}, left : Seq(Ids)] :
        request' = [request EXCEPT ![c] = r]
  BY <1>2, <1>3, IdleType
<1>5. QED
  BY <1>4 DEF RequestType, TypeOK

RunsNext(i) == ~ended'[i] /\ ~over'[i]

Asked(c) ==
  \/ \E kind \in Kind : Resolve(c, kind)
  \/ Scan(c) \/ Check(c) \/ Score(c) \/ Undo(c) \/ End(c)

(* Whatever a request does, a match that did not run runs only if an undo  *)
(* has reopened it.                                                        *)
LEMMA AskedFrame ==
  ASSUME TypeOK, NEW c \in Clients, Asked(c)
  PROVE  /\ order' = order /\ made' = made /\ demo' = demo /\ creating' = creating
         /\ over' \in [Ids -> BOOLEAN] /\ ended' \in [Ids -> BOOLEAN]
         /\ reopened' \in [Ids -> BOOLEAN]
         /\ \A i \in Ids : /\ reopened[i] => reopened'[i]
                           /\ RunsNext(i) => Running(i) \/ reopened'[i]
<1>1. CASE UNCHANGED <<tableVars, creating, reopened>>
  BY <1>1 DEF tableVars, TypeOK, Running, RunsNext
<1>2. CASE Score(c)
  BY <1>2 DEF Score, TypeOK, Running, RunsNext
<1>3. CASE Undo(c)
  BY <1>3 DEF Undo, TypeOK, Running, RunsNext
<1>4. CASE End(c)
  BY <1>4 DEF End, TypeOK, Running, RunsNext
<1>5. QED
  BY <1>1, <1>2, <1>3, <1>4 DEF Asked, Resolve, Scan, Check

LEMMA StepCases ==
  ASSUME Step
  PROVE  \/ \E asDemo \in BOOLEAN : Create(asDemo)
         \/ AskReal \/ EndDemo \/ Add \/ Evict
         \/ \E c \in Clients : Asked(c)
BY DEF Step, Asked

LEMMA SteadyType ==
  ASSUME order' \in Seq(Ids), steady \in [Clients -> SUBSET Ids], Remember
  PROVE  steady' \in [Clients -> SUBSET Ids]
<1>1. \A i \in ToSet(order') : i \in Ids
  BY ToSetElements, ElementOfSeq
<1>2. RunningNext \subseteq Ids
  BY <1>1 DEF RunningNext
<1>3. QED
  BY <1>2 DEF Remember

(* The types of everything but the history of the scans.                   *)
TypedStep ==
  /\ made' \in 0..MaxMatches /\ order' \in Seq(1..made') /\ Increasing(order')
  /\ demo' \in [Ids -> BOOLEAN] /\ over' \in [Ids -> BOOLEAN]
  /\ ended' \in [Ids -> BOOLEAN] /\ reopened' \in [Ids -> BOOLEAN]
  /\ creating' \in [pc : {"unlocked", "refuse", "end", "evict"}, demo : BOOLEAN,
                     left : Seq(Ids)]
  /\ creating'.pc \in {"refuse", "end"} => made' < MaxMatches
  /\ RequestType

LEMMA StepType ==
  ASSUME TypeInv, LeftIsTheEnd, Next
  PROVE  TypeInv'
<1> USE DEF TypeInv
<1>0. Step /\ Remember
  BY DEF Next
<1>1. TypedStep
  <2> USE DEF TypedStep
  <2>1. ASSUME NEW asDemo \in BOOLEAN, Create(asDemo)
        PROVE  TypedStep
    <3>1. order \in Seq(Ids)
      <4>1. MaxMatches \in Nat /\ made <= MaxMatches
        BY RegistryAssumption DEF TypeOK
      <4>2. QED
        BY <4>1, OrderType DEF Ids
    <3>2. QED
      BY <2>1, <3>1 DEF Create, tableVars, TypeOK, RequestType, ToAsk
  <2>2. CASE AskReal
    <3>1. Tail(creating.left) \in Seq(Ids)
      BY <2>2, TailElements DEF AskReal, TypeOK
    <3>2. CASE creating' = Unlocked
      <4>1. creating'.pc = "unlocked"
        BY <3>2 DEF Unlocked
      <4>2. QED
        BY <2>2, <3>2, <4>1, UnlockedType DEF AskReal, tableVars, TypeOK, RequestType
    <3>3. CASE creating' = [creating EXCEPT !.left = Tail(@)]
      BY <2>2, <3>1, <3>3 DEF AskReal, tableVars, TypeOK, RequestType
    <3>4. QED
      BY <2>2, <3>2, <3>3 DEF AskReal
  <2>3. CASE EndDemo
    <3>1. Tail(creating.left) \in Seq(Ids)
      BY <2>3, TailElements DEF EndDemo, TypeOK
    <3>2. ended' \in [Ids -> BOOLEAN]
      BY <2>3 DEF EndDemo, TypeOK, Running, RunsNext
    <3>3. QED
      BY <2>3, <3>1, <3>2 DEF EndDemo, TypeOK, RequestType
  <2>4. CASE Add
    <3>1. order' \in Seq(Ids) /\ Evicting(order')
      BY <2>4, AddType DEF Add
    <3>2. creating'.pc \in {"unlocked", "evict"}
      BY <3>1 DEF Evicting, Unlocked, TypeOK
    <3>3. QED
      BY <2>4, <3>1, <3>2, AddType, EvictingType DEF Add, TypeOK, RequestType
  <2>5. CASE Evict
    <3>1. creating'.pc \in {"unlocked", "evict"}
      <4>1. \/ creating' = Unlocked
            \/ creating' = [creating EXCEPT !.left = Tail(@)]
            \/ Evicting(order')
        BY <2>5 DEF Evict
      <4>2. creating \in [pc : {"unlocked", "refuse", "end", "evict"}, demo : BOOLEAN,
                          left : Seq(Ids)] /\ creating.pc = "evict"
        BY <2>5 DEF Evict, TypeOK
      <4>3. Unlocked.pc = "unlocked"
        BY DEF Unlocked
      <4>4. [creating EXCEPT !.left = Tail(@)].pc = "evict"
        BY <4>2
      <4>5. Evicting(order') => creating'.pc \in {"unlocked", "evict"}
        BY <4>2, <4>3 DEF Evicting
      <4>6. QED
        BY <4>1, <4>3, <4>4, <4>5
    <3>2. QED
      BY <2>5, <3>1, EvictType DEF Evict, TypeOK, RequestType
  <2>6. ASSUME NEW c \in Clients, Asked(c)
        PROVE  TypedStep
    <3>1. RequestType
      BY <2>6, ResolveType, ScanType, ActType DEF Asked
    <3>2. QED
      BY <2>6, <3>1, AskedFrame DEF TypeOK
  <2> HIDE DEF TypedStep
  <2>7. QED
    BY <1>0, <2>1, <2>2, <2>3, <2>4, <2>5, <2>6, StepCases
<1> USE DEF TypedStep
<1>2. steady' \in [Clients -> SUBSET Ids]
  <2>1. MaxMatches \in Nat /\ 1..made' \subseteq Ids
    BY <1>1, RegistryAssumption DEF Ids
  <2>2. order' \in Seq(Ids)
    BY <1>1, <2>1, SeqMonotonic
  <2>3. QED
    BY <1>0, <2>2, SteadyType DEF TypeOK
<1>3. QED
  BY <1>1, <1>2 DEF TypeOK, RequestType

-----------------------------------------------------------------------------
(* What CreateFor has still to look at.                                    *)

LEMMA EvictingLeft ==
  ASSUME creating \in [pc : {"unlocked", "refuse", "end", "evict"}, demo : BOOLEAN,
                       left : Seq(Ids)],
         order' \in Seq(Ids), Evicting(order')
  PROVE  LeftIsTheEnd'
<1>1. Len(order') \in Nat
  OBVIOUS
<1>2. CASE creating' = Unlocked
  BY <1>2 DEF LeftIsTheEnd, Unlocked
<1>3. CASE creating' = [creating EXCEPT !.pc = "evict", !.left = order']
  <2>1. creating'.left = order'
    BY <1>3
  <2>2. Seen' = 0
    BY <1>1, <2>1 DEF Seen
  <2>3. \A k \in 1..Len(order') : Seen' + k = k
    BY <1>1, <2>2
  <2>4. QED
    BY <1>1, <2>1, <2>3 DEF LeftIsTheEnd
<1>4. QED
  BY <1>2, <1>3 DEF Evicting

LEMMA TailLeft ==
  ASSUME TypeOK, LeftIsTheEnd, creating.pc # "unlocked", creating.left # <<>>,
         order' = order, creating' = [creating EXCEPT !.left = Tail(@)]
  PROVE  /\ LeftIsTheEnd' /\ Seen \in Nat /\ Seen' = Seen + 1
         /\ Seen + 1 \in 1..Len(order) /\ order[Seen + 1] = Head(creating.left)
<1>1. creating.left \in Seq(Ids) /\ Len(order) \in Nat
  BY DEF TypeOK
<1>2. /\ Len(creating.left) \in Nat \ {0} /\ Head(creating.left) = creating.left[1]
      /\ Len(Tail(creating.left)) = Len(creating.left) - 1
      /\ \A k \in 1..(Len(creating.left) - 1) :
           Tail(creating.left)[k] = creating.left[k + 1]
  BY <1>1, TailElements
<1>3. creating'.left = Tail(creating.left)
  BY DEF TypeOK
<1>4. /\ Len(creating.left) <= Len(order)
      /\ \A k \in 1..Len(creating.left) : creating.left[k] = order[Seen + k]
  BY DEF LeftIsTheEnd
<1>5. Seen = Len(order) - Len(creating.left) /\ Seen' = Len(order) - Len(creating'.left)
  BY DEF Seen
<1>6. Seen \in Nat /\ Seen' = Seen + 1 /\ Seen + 1 \in 1..Len(order)
  <2>1. Len(creating'.left) = Len(creating.left) - 1
    BY <1>2, <1>3
  <2>2. Len(creating.left) \in Nat \ {0} /\ Len(creating.left) <= Len(order)
    BY <1>2, <1>4
  <2>3. Seen \in Nat
    BY <1>1, <1>5, <2>2
  <2>4. Seen' = Seen + 1
    <3>1. \A a, b, c \in Int : c = b - 1 => a - c = (a - b) + 1
      OBVIOUS
    <3>2. Len(order) \in Int /\ Len(creating.left) \in Int /\ Len(creating'.left) \in Int
      BY <1>1, <2>1, <2>2
    <3>3. Len(order) - Len(creating'.left) = (Len(order) - Len(creating.left)) + 1
      BY <2>1, <3>1, <3>2
    <3>4. QED
      BY <1>5, <3>3
  <2>5. Seen + 1 <= Len(order)
    BY <1>1, <1>5, <2>2
  <2>6. QED
    BY <1>1, <2>3, <2>4, <2>5
<1>7. order[Seen + 1] = Head(creating.left)
  BY <1>2, <1>4
<1>8. ASSUME NEW k \in 1..Len(creating'.left)
      PROVE  creating'.left[k] = order[Seen' + k]
  <2>1. k \in 1..(Len(creating.left) - 1) /\ k + 1 \in 1..Len(creating.left)
    BY <1>2, <1>3
  <2>2. creating'.left[k] = creating.left[k + 1]
    BY <1>2, <1>3, <2>1
  <2>3. creating.left[k + 1] = order[Seen + (k + 1)]
    BY <1>4, <2>1
  <2>4. Seen + (k + 1) = Seen' + k
    BY <1>6
  <2>5. QED
    BY <2>2, <2>3, <2>4
<1>9. Len(creating'.left) <= Len(order')
  BY <1>1, <1>2, <1>3, <1>4
<1>10. QED
  BY <1>6, <1>7, <1>8, <1>9 DEF LeftIsTheEnd

LEMMA StepLeft ==
  ASSUME TypeInv, LeftIsTheEnd, Step, order' \in Seq(Ids)
  PROVE  LeftIsTheEnd'
<1>1. ASSUME NEW asDemo \in BOOLEAN, Create(asDemo)
      PROVE  LeftIsTheEnd'
  <2>1. creating'.left = order /\ order' = order /\ Len(order) \in Nat
    BY <1>1 DEF Create, tableVars, ToAsk, TypeInv, TypeOK
  <2>2. Seen' = 0
    BY <2>1 DEF Seen
  <2>3. \A k \in 1..Len(order) : Seen' + k = k
    BY <2>1, <2>2
  <2>4. QED
    BY <2>1, <2>3 DEF LeftIsTheEnd
<1>2. CASE AskReal
  <2>1. CASE creating' = Unlocked
    BY <2>1 DEF LeftIsTheEnd, Unlocked
  <2>2. CASE creating' = [creating EXCEPT !.left = Tail(@)]
    BY <1>2, <2>2, TailLeft DEF AskReal, tableVars, TypeInv
  <2>3. QED
    BY <1>2, <2>1, <2>2 DEF AskReal
<1>3. CASE EndDemo
  BY <1>3, TailLeft DEF EndDemo, TypeInv
<1>4. CASE Add
  BY <1>4, EvictingLeft DEF Add, TypeInv, TypeOK
<1>5. CASE Evict
  <2>1. CASE creating' = Unlocked
    BY <2>1 DEF LeftIsTheEnd, Unlocked
  <2>2. CASE order' = order /\ creating.left # <<>>
               /\ creating' = [creating EXCEPT !.left = Tail(@)]
    BY <1>5, <2>2, TailLeft DEF Evict, TypeInv
  <2>3. CASE Evicting(order')
    BY <2>3, EvictingLeft DEF TypeInv, TypeOK
  <2>4. QED
    BY <1>5, <2>1, <2>2, <2>3 DEF Evict
<1>6. ASSUME NEW c \in Clients, Asked(c)
      PROVE  LeftIsTheEnd'
  BY <1>6, AskedFrame DEF LeftIsTheEnd, Seen, TypeInv
<1>7. QED
  BY <1>1, <1>2, <1>3, <1>4, <1>5, <1>6, StepCases

-----------------------------------------------------------------------------
(* What it has passed.                                                     *)

LEMMA StepPassed ==
  ASSUME TypeInv, LeftIsTheEnd, PassedIsClear, Step
  PROVE  PassedIsClear'
<1>0. \A k \in 1..Len(order) : order[k] \in Ids
  <2>1. \A k \in 1..Len(order) : order[k] \in 1..made
    BY ElementOfSeq DEF TypeInv, TypeOK
  <2>2. QED
    BY <2>1, RegistryAssumption DEF TypeInv, TypeOK, Ids
<1>1. ASSUME NEW asDemo \in BOOLEAN, Create(asDemo)
      PROVE  PassedIsClear'
  <2>1. /\ creating'.left = order /\ order' = order /\ Len(order) \in Nat
        /\ creating'.demo = asDemo /\ creating'.pc = (IF asDemo THEN "refuse" ELSE "end")
        /\ made' < MaxMatches
    BY <1>1 DEF Create, tableVars, ToAsk, TypeInv, TypeOK
  <2>2. Seen' = 0
    BY <2>1 DEF Seen
  <2>3. QED
    BY <2>1, <2>2 DEF PassedIsClear
<1>2. CASE AskReal
  <2>1. CASE creating' = Unlocked
    BY <2>1 DEF PassedIsClear, Unlocked
  <2>2. CASE ~(~demo[Head(creating.left)] /\ Running(Head(creating.left)))
             /\ creating' = [creating EXCEPT !.left = Tail(@)]
    <3>1. UNCHANGED <<order, made, demo, over, ended, reopened>> /\ creating.pc = "refuse"
      BY <1>2 DEF AskReal, tableVars
    <3>2. creating'.pc = creating.pc /\ creating'.demo = creating.demo
      BY <2>2 DEF TypeInv, TypeOK
    <3>3. /\ Seen \in Nat /\ Seen' = Seen + 1 /\ Seen + 1 \in 1..Len(order)
          /\ order[Seen + 1] = Head(creating.left)
      BY <1>2, <2>2, <3>1, TailLeft DEF AskReal, TypeInv
    <3>4. creating.demo = TRUE
      BY <3>1 DEF PassedIsClear, TypeInv, TypeOK
    <3>5. ~(Running(order[Seen + 1]) /\ demo[order[Seen + 1]] # creating.demo)
      BY <1>0, <2>2, <3>3, <3>4 DEF TypeInv, TypeOK
    <3>6. \A k \in 1..(Seen + 1) :
            Running(order[k]) /\ demo[order[k]] # creating.demo => reopened[order[k]]
      BY <3>1, <3>3, <3>5 DEF PassedIsClear
    <3>7. QED
      BY <3>1, <3>2, <3>3, <3>6 DEF PassedIsClear, Running, RunsNext
  <2>3. QED
    BY <1>2, <2>1, <2>2 DEF AskReal
<1>3. CASE EndDemo
  <2>1. /\ UNCHANGED <<order, made, demo, over, reopened>> /\ creating.pc = "end"
        /\ creating' = [creating EXCEPT !.left = Tail(@)] /\ creating.left # <<>>
        /\ ended' = [ended EXCEPT ![Head(creating.left)] =
                       @ \/ (demo[Head(creating.left)] /\ Running(Head(creating.left)))]
    BY <1>3 DEF EndDemo
  <2>2. creating'.pc = creating.pc /\ creating'.demo = creating.demo
    BY <2>1 DEF TypeInv, TypeOK
  <2>3. /\ Seen \in Nat /\ Seen' = Seen + 1 /\ Seen + 1 \in 1..Len(order)
        /\ order[Seen + 1] = Head(creating.left)
    BY <2>1, TailLeft DEF TypeInv
  <2>4. creating.demo = FALSE
    BY <2>1 DEF PassedIsClear, TypeInv, TypeOK
  <2>5. \A i \in Ids : RunsNext(i) => Running(i)
    BY <2>1 DEF TypeInv, TypeOK, Running, RunsNext
  <2>6. ~(RunsNext(order[Seen + 1]) /\ demo[order[Seen + 1]] # creating.demo)
    BY <1>0, <2>1, <2>3, <2>4 DEF TypeInv, TypeOK, Running, RunsNext
  <2>7. ASSUME NEW k \in 1..(Seen + 1), RunsNext(order[k]), demo[order[k]] # creating.demo
        PROVE  reopened[order[k]]
    <3>1. k \in 1..Seen /\ k \in 1..Len(order)
      BY <2>3, <2>6, <2>7 DEF TypeInv, TypeOK
    <3>2. Running(order[k])
      BY <1>0, <2>5, <2>7, <3>1
    <3>3. QED
      BY <2>1, <2>7, <3>1, <3>2 DEF PassedIsClear
  <2>8. \A k \in 1..Seen' : RunsNext(order'[k]) /\ demo'[order'[k]] # creating'.demo
                              => reopened'[order'[k]]
    BY <2>1, <2>2, <2>3, <2>7 DEF Running, RunsNext
  <2>9. QED
    BY <2>1, <2>2, <2>8 DEF PassedIsClear, Running, RunsNext
<1>4. CASE Add \/ Evict
  <2>1. creating'.pc \notin {"refuse", "end"}
    <3>1. \/ creating' = Unlocked
          \/ creating' = [creating EXCEPT !.left = Tail(@)] /\ creating.pc = "evict"
          \/ creating' = [creating EXCEPT !.pc = "evict", !.left = order']
      BY <1>4 DEF Add, Evict, Evicting
    <3>2. Unlocked.pc = "unlocked"
      BY DEF Unlocked
    <3>3. QED
      BY <3>1, <3>2 DEF TypeInv, TypeOK
  <2>2. QED
    BY <2>1 DEF PassedIsClear
<1>5. ASSUME NEW c \in Clients, Asked(c)
      PROVE  PassedIsClear'
  <2>1. /\ order' = order /\ made' = made /\ demo' = demo /\ creating' = creating
        /\ \A i \in Ids : /\ reopened[i] => reopened'[i]
                          /\ RunsNext(i) => Running(i) \/ reopened'[i]
    BY <1>5, AskedFrame DEF TypeInv
  <2>2. SUFFICES ASSUME creating.pc \in {"refuse", "end"},
                        NEW k \in 1..Seen, RunsNext(order[k]), demo[order[k]] # creating.demo
                 PROVE  reopened'[order[k]]
    BY <2>1 DEF PassedIsClear, Seen, Running, RunsNext
  <2>3. k \in 1..Len(order)
    <3>1. Len(creating.left) \in Nat /\ Len(order) \in Nat
      BY DEF TypeInv, TypeOK
    <3>2. QED
      BY <2>2, <3>1 DEF Seen
  <2>4. QED
    BY <1>0, <2>1, <2>2, <2>3 DEF PassedIsClear
<1>6. QED
  BY <1>1, <1>2, <1>3, <1>4, <1>5, StepCases

-----------------------------------------------------------------------------
(* One kind runs, and what runs is kept.                                   *)

LEMMA AddTakesTheTable ==
  ASSUME TypeInv, PassedIsClear, NewerTookTheTable, RunningIsKept, Add
  PROVE  NewerTookTheTable' /\ RunningIsKept'
<1>1. /\ made' = made + 1 /\ made \in Nat /\ over' = over /\ ended' = ended
      /\ reopened' = reopened /\ demo' = [demo EXCEPT ![made + 1] = creating.demo]
      /\ creating.pc \in {"refuse", "end"} /\ creating.left = <<>>
  BY RegistryAssumption DEF Add, TypeInv, TypeOK
<1>2. Seen = Len(order)
  <2>1. Len(creating.left) = 0 /\ Len(order) \in Nat
    BY <1>1 DEF TypeInv, TypeOK
  <2>2. QED
    BY <2>1 DEF Seen
<1>3. made + 1 \in Ids /\ \A i \in 1..made : i \in Ids /\ i # made + 1
  BY <1>1, RegistryAssumption DEF PassedIsClear, Ids, TypeInv, TypeOK
<1>4. demo'[made + 1] = creating.demo /\ \A i \in 1..made : demo'[i] = demo[i]
  BY <1>1, <1>3 DEF TypeInv, TypeOK
<1>5. \A i \in 1..made : Running(i) /\ demo[i] # creating.demo => reopened[i]
  <2> SUFFICES ASSUME NEW i \in 1..made, Running(i), demo[i] # creating.demo, ~reopened[i]
               PROVE  FALSE
    OBVIOUS
  <2>1. i \in ToSet(order)
    BY DEF RunningIsKept
  <2>2. PICK k \in 1..Len(order) : i = order[k]
    BY <2>1, ToSetElements DEF TypeInv, TypeOK
  <2>3. QED
    BY <1>1, <1>2, <2>2 DEF PassedIsClear
<1>6. NewerTookTheTable'
  <2> SUFFICES ASSUME NEW i \in 1..made', NEW j \in 1..made', Running(i),
                      i < j, demo'[i] # demo'[j]
               PROVE  reopened[i]
    BY <1>1 DEF NewerTookTheTable, Running
  <2>1. i \in 1..made /\ (j \in 1..made \/ j = made + 1)
    BY <1>1
  <2>2. CASE j \in 1..made
    BY <1>4, <2>1, <2>2 DEF NewerTookTheTable
  <2>3. CASE j = made + 1
    BY <1>4, <1>5, <2>1, <2>3
  <2>4. QED
    BY <2>1, <2>2, <2>3
<1>7. RunningIsKept'
  <2>1. /\ order' \in Seq(Ids) /\ Len(order) \in Nat /\ Len(order') = Len(order) + 1
        /\ \A k \in 1..Len(order) : order'[k] = order[k]
        /\ order'[Len(order) + 1] = made + 1
    BY AddType
  <2> SUFFICES ASSUME NEW i \in 1..made', Running(i), ~reopened[i]
               PROVE  i \in ToSet(order')
    BY <1>1 DEF RunningIsKept, Running
  <2>2. \E k \in 1..Len(order') : i = order'[k]
    <3>1. CASE i = made + 1
      BY <2>1, <3>1
    <3>2. CASE i \in 1..made
      <4>1. PICK k \in 1..Len(order) : i = order[k]
        BY <3>2, ToSetElements DEF RunningIsKept, TypeInv, TypeOK
      <4>2. QED
        BY <2>1, <4>1
    <3>3. QED
      BY <1>1, <3>1, <3>2
  <2>3. QED
    BY <2>1, <2>2, ToSetElements
<1>8. QED
  BY <1>6, <1>7

LEMMA StepTookTheTable ==
  ASSUME TypeInv, LeftIsTheEnd, PassedIsClear, NewerTookTheTable, RunningIsKept, Step
  PROVE  NewerTookTheTable' /\ RunningIsKept'
<1>0. \A i \in 1..made : i \in Ids
  BY RegistryAssumption DEF TypeInv, TypeOK, Ids
<1>1. CASE UNCHANGED <<tableVars, reopened>>
  BY <1>1 DEF NewerTookTheTable, RunningIsKept, Running, tableVars
<1>2. CASE EndDemo
  <2>1. UNCHANGED <<order, made, demo, over, reopened>>
    BY <1>2 DEF EndDemo
  <2>2. \A i \in 1..made : RunsNext(i) => Running(i)
    BY <1>0, <1>2 DEF EndDemo, TypeInv, TypeOK, Running, RunsNext
  <2>3. QED
    BY <2>1, <2>2 DEF NewerTookTheTable, RunningIsKept, Running, RunsNext
<1>3. CASE Add
  BY <1>3, AddTakesTheTable
<1>4. CASE Evict /\ order' # order
  <2>1. /\ UNCHANGED <<made, demo, over, ended, reopened>>
        /\ creating.left # <<>> /\ Droppable(Head(creating.left))
    BY <1>4 DEF Evict
  <2>2. PICK n \in 1..Len(order) :
          order[n] = Head(creating.left) /\ order' = RemoveAt(order, n)
    BY <1>4, <2>1, EvictDrops DEF TypeInv
  <2>3. \A i \in ToSet(order) : i # order[n] => i \in ToSet(order')
    BY <2>2, RemoveAtKeeps DEF TypeInv, TypeOK
  <2>4. ~Running(order[n])
    BY <2>1, <2>2 DEF Droppable
  <2>5. QED
    BY <2>1, <2>3, <2>4 DEF NewerTookTheTable, RunningIsKept, Running
<1>5. ASSUME NEW c \in Clients, Asked(c)
      PROVE  NewerTookTheTable' /\ RunningIsKept'
  <2>1. /\ order' = order /\ made' = made /\ demo' = demo
        /\ \A i \in 1..made : /\ reopened[i] => reopened'[i]
                              /\ RunsNext(i) => Running(i) \/ reopened'[i]
    BY <1>0, <1>5, AskedFrame DEF TypeInv
  <2>2. NewerTookTheTable'
    <3> SUFFICES ASSUME NEW i \in 1..made, NEW j \in 1..made, RunsNext(i),
                        i < j, demo[i] # demo[j]
                 PROVE  reopened'[i]
      BY <2>1 DEF NewerTookTheTable, Running, RunsNext
    <3>1. CASE Running(i)
      BY <2>1, <3>1 DEF NewerTookTheTable
    <3>2. QED
      BY <2>1, <3>1
  <2>3. RunningIsKept'
    BY <2>1 DEF RunningIsKept, Running, RunsNext
  <2>4. QED
    BY <2>2, <2>3
<1>6. QED
  BY <1>1, <1>2, <1>3, <1>4, <1>5, StepCases DEF Create, AskReal, Evict, tableVars

-----------------------------------------------------------------------------
(* The scan.                                                               *)

(* Whether it goes on or stops, the scan has passed over no match that ran *)
(* all the time.                                                           *)
LEMMA ScanStep ==
  ASSUME TypeInv, ScanSees, Remember, NEW c \in Clients, Scan(c)
  PROVE  /\ request'[c].pc = "scan" =>
              /\ Increasing(request'[c].left)
              /\ steady'[c] \subseteq ToSet(request'[c].left)
         /\ request'[c].pc # "scan" =>
              \A i \in steady'[c] : request'[c].pc = "check" /\ i <= request'[c].match
         /\ \A d \in Clients : d # c => request'[d] = request[d]
<1> DEFINE s == request[c].left
<1>1. /\ s \in Seq(Ids) /\ request[c].pc = "scan" /\ request \in [Clients -> {request[d] : d \in Clients}]
      /\ Len(s) \in Nat /\ \A k \in 1..Len(s) : s[k] \in Ids
      /\ request[c] \in [pc : {"idle", "scan", "check", "act"}, kind : Kind,
                         match : Ids \cup {0}, left : Seq(Ids)]
  BY ElementOfSeq DEF Scan, TypeInv, TypeOK
<1>2. Increasing(s) /\ steady[c] \subseteq ToSet(s)
  BY <1>1 DEF ScanSees
<1>3. steady'[c] = steady[c] \cap RunningNext
  BY <1>1 DEF Remember
<1>4. /\ \A d \in Clients : d # c => request'[d] = request[d]
      /\ ended' = ended /\ over' = over
  BY <1>1 DEF Scan, tableVars
<1>5. CASE s = <<>>
  <2>1. steady'[c] = {}
    BY <1>1, <1>2, <1>3, <1>5, ToSetElements
  <2>2. request'[c].pc = "idle"
    BY <1>1, <1>5 DEF Scan, Idle
  <2>3. QED
    BY <1>4, <2>1, <2>2
<1>6. CASE s # <<>> /\ Running(Last(s))
  <2>1. Len(s) \in Nat \ {0} /\ Last(s) = s[Len(s)]
    BY <1>1, <1>6, FrontElements
  <2>2. request'[c].pc = "check" /\ request'[c].match = Last(s)
    BY <1>1, <1>6 DEF Scan, NextLook
  <2>3. \A i \in ToSet(s) : i <= Last(s)
    <3> SUFFICES ASSUME NEW i \in ToSet(s) PROVE i <= Last(s)
      OBVIOUS
    <3>1. PICK k \in 1..Len(s) : i = s[k]
      BY <1>1, ToSetElements
    <3>2. CASE k = Len(s)
      BY <1>1, <2>1, <3>1, <3>2 DEF Ids
    <3>3. CASE k < Len(s)
      BY <1>1, <1>2, <2>1, <3>1, <3>3 DEF Increasing, Ids
    <3>4. QED
      BY <1>1, <3>1, <3>2, <3>3
  <2>4. QED
    BY <1>2, <1>3, <1>4, <2>2, <2>3
<1>7. CASE s # <<>> /\ ~Running(Last(s))
  <2>1. /\ Len(s) \in Nat \ {0} /\ Last(s) = s[Len(s)]
        /\ Front(s) \in Seq(Ids) /\ Len(Front(s)) = Len(s) - 1
        /\ \A k \in 1..(Len(s) - 1) : Front(s)[k] = s[k]
    BY <1>1, <1>7, FrontElements
  <2>2. request'[c].pc = "scan" /\ request'[c].left = Front(s)
    BY <1>1, <1>7 DEF Scan, NextLook
  <2>3. Increasing(Front(s))
    BY <1>2, <2>1 DEF Increasing
  <2>4. Last(s) \notin RunningNext
    BY <1>4, <1>7 DEF RunningNext, Running
  <2>5. \A i \in steady'[c] : i \in ToSet(Front(s))
    <3> SUFFICES ASSUME NEW i \in steady'[c] PROVE i \in ToSet(Front(s))
      OBVIOUS
    <3>1. i \in ToSet(s) /\ i # s[Len(s)]
      BY <1>2, <1>3, <2>1, <2>4
    <3>2. PICK k \in 1..Len(s) : i = s[k]
      BY <1>1, <3>1, ToSetElements
    <3>3. k \in 1..(Len(s) - 1)
      BY <2>1, <3>1, <3>2
    <3>4. QED
      BY <2>1, <3>2, <3>3, ToSetElements
  <2>6. QED
    BY <1>4, <2>2, <2>3, <2>5
<1>8. QED
  BY <1>5, <1>6, <1>7

(* A client whose request does not begin to scan or step through it.       *)
LEMMA OthersSee ==
  ASSUME ScanSees, Remember, NEW c \in Clients, request'[c] = request[c]
  PROVE  request'[c].pc = "scan" =>
           Increasing(request'[c].left) /\ steady'[c] \subseteq ToSet(request'[c].left)
BY DEF ScanSees, Remember

LEMMA StepScan ==
  ASSUME TypeInv, ScanSees, Next, TypeInv'
  PROVE  ScanSees'
<1>1. Step /\ Remember
  BY DEF Next
<1>2. SUFFICES ASSUME NEW c \in Clients, request'[c].pc = "scan"
               PROVE  Increasing(request'[c].left) /\ steady'[c] \subseteq ToSet(request'[c].left)
  BY DEF ScanSees, Increasing
<1>3. CASE request' = request
  BY <1>1, <1>2, <1>3, OthersSee
<1>4. ASSUME NEW d \in Clients, Scan(d)
      PROVE  Increasing(request'[c].left) /\ steady'[c] \subseteq ToSet(request'[c].left)
  BY <1>1, <1>2, <1>4, ScanStep, OthersSee
<1>5. ASSUME NEW d \in Clients, NEW kind \in Kind, Resolve(d, kind)
      PROVE  Increasing(request'[c].left) /\ steady'[c] \subseteq ToSet(request'[c].left)
  <2>1. CASE c # d
    <3>1. request'[c] = request[c]
      BY <1>5, <2>1 DEF Resolve, TypeInv, TypeOK
    <3>2. QED
      BY <1>1, <1>2, <3>1, OthersSee
  <2>2. CASE c = d
    <3>1. kind = "press"
      BY <1>2, <1>5, <2>2 DEF Resolve, TypeInv, TypeOK
    <3>2. request'[c].left = order /\ order' = order /\ request[c].pc = "idle"
      BY <1>5, <2>2, <3>1 DEF Resolve, tableVars, Idle, TypeInv, TypeOK
    <3>3. steady'[c] = RunningNext
      BY <1>1, <1>2, <3>2 DEF Remember
    <3>4. QED
      BY <3>2, <3>3 DEF RunningNext, TypeInv, TypeOK
  <2>3. QED
    BY <2>1, <2>2
<1>6. ASSUME NEW d \in Clients, Check(d) \/ Score(d) \/ Undo(d) \/ End(d)
      PROVE  Increasing(request'[c].left) /\ steady'[c] \subseteq ToSet(request'[c].left)
  <2>1. request' = [request EXCEPT ![d] = Idle] \/ request' = [request EXCEPT ![d].pc = "act"]
    BY <1>6 DEF Check, Score, Undo, End
  <2>2. c # d
    BY <1>2, <2>1 DEF Idle, TypeInv, TypeOK
  <2>3. request'[c] = request[c]
    BY <2>1, <2>2 DEF TypeInv, TypeOK
  <2>4. QED
    BY <1>1, <1>2, <2>3, OthersSee
<1>7. QED
  BY <1>1, <1>3, <1>4, <1>5, <1>6 DEF Step, Create, AskReal, EndDemo, Add, Evict

-----------------------------------------------------------------------------
(* Theorems.                                                               *)

LEMMA InitInv == Init => TypeInv /\ TableInv /\ ScanSees
<1> SUFFICES ASSUME Init PROVE TypeInv /\ TableInv /\ ScanSees
  OBVIOUS
<1>1. made = 0 /\ made \in 0..MaxMatches /\ creating.pc = "unlocked"
  BY RegistryAssumption DEF Init, Unlocked
<1>2. order \in Seq(1..made) /\ Increasing(order)
  BY DEF Init, Increasing
<1>3. request \in [Clients -> [pc : {"idle", "scan", "check", "act"}, kind : Kind,
                               match : Ids \cup {0}, left : Seq(Ids)]]
  BY IdleType DEF Init
<1>4. TypeInv
  BY <1>1, <1>2, <1>3, UnlockedType DEF Init, TypeInv, TypeOK
<1>5. TableInv
  BY <1>1 DEF TableInv, LeftIsTheEnd, PassedIsClear, NewerTookTheTable, RunningIsKept
<1>6. ScanSees
  BY DEF Init, ScanSees, Idle
<1>7. QED
  BY <1>4, <1>5, <1>6

LEMMA NextInv ==
  ASSUME TypeInv, TableInv, ScanSees, [Next]_vars
  PROVE  TypeInv' /\ TableInv' /\ ScanSees'
<1>1. CASE Next
  <2>1. TypeInv'
    BY <1>1, StepType DEF TableInv
  <2>2. order' \in Seq(Ids)
    <3>1. 1..made' \subseteq Ids /\ order' \in Seq(1..made')
      BY <2>1, RegistryAssumption DEF TypeInv, TypeOK, Ids
    <3>2. QED
      BY <3>1, SeqMonotonic
  <2>3. TableInv'
    BY <1>1, <2>2, StepLeft, StepPassed, StepTookTheTable DEF TableInv, Next
  <2>4. QED
    BY <1>1, <2>1, <2>3, StepScan
<1>2. CASE UNCHANGED vars
  BY <1>2 DEF vars, tableVars, TypeInv, TypeOK, TableInv, LeftIsTheEnd, Seen, PassedIsClear,
              NewerTookTheTable, RunningIsKept, Running, ScanSees
<1>3. QED
  BY <1>1, <1>2

LEMMA RegistryInv == Spec => [](TypeInv /\ TableInv /\ ScanSees)
<1>1. TypeInv /\ TableInv /\ ScanSees /\ [Next]_vars => (TypeInv /\ TableInv /\ ScanSees)'
  BY NextInv
<1>2. QED
  BY <1>1, InitInv, PTL DEF Spec

(* The registry and its requests stay within their types, and its matches  *)
(* stay in the order they were created in, whatever is evicted (evict).    *)
THEOREM RegistryTypeOK == Spec => []TypeOK
<1>1. TypeInv => TypeOK
  BY DEF TypeInv
<1>2. QED
  BY <1>1, RegistryInv, PTL

(* A real match and a demo run side by side only where an undo has         *)
(* reopened the older of them, whatever scores and ends while CreateFor    *)
(* looks from match to match (CreateFor, ADR-0008).                        *)
THEOREM RegistryRealTakesTheTable == Spec => []RealTakesTheTable
<1>1. TableInv => RealTakesTheTable
  BY DEF TableInv, NewerTookTheTable, RealTakesTheTable
<1>2. QED
  BY <1>1, RegistryInv, PTL

(* Eviction never takes a match from under its players (evict).            *)
THEOREM RegistryRunningIsKept == Spec => []RunningIsKept
<1>1. TableInv => RunningIsKept
  BY DEF TableInv
<1>2. QED
  BY <1>1, RegistryInv, PTL

(* What Current answers is not overtaken by the scan: it passes over no    *)
(* newer match that ran during all of it, and says that none runs only     *)
(* when none ran during all of it (Current).                               *)
THEOREM RegistryCurrentPassesNoneOver == Spec => CurrentPassesNoneOver
<1> DEFINE PassesNoneOver ==
      \A c \in Clients : request[c].pc = "scan" /\ request'[c].pc # "scan" =>
        \A i \in steady'[c] : request'[c].pc = "check" /\ i <= request'[c].match
<1>1. TypeInv /\ TableInv /\ ScanSees /\ [Next]_vars => [PassesNoneOver]_vars
  <2> SUFFICES ASSUME TypeInv, ScanSees, Next,
                      NEW c \in Clients, request[c].pc = "scan", request'[c].pc # "scan"
               PROVE  \A i \in steady'[c] :
                        request'[c].pc = "check" /\ i <= request'[c].match
    OBVIOUS
  <2>1. Scan(c)
    <3>1. ASSUME NEW d \in Clients, NEW kind \in Kind, Resolve(d, kind)
          PROVE  FALSE
      <4>1. d # c
        BY <3>1 DEF Resolve, Idle
      <4>2. request'[c] = request[c]
        BY <3>1, <4>1 DEF Resolve, TypeInv, TypeOK
      <4>3. QED
        BY <4>2
    <3>2. ASSUME NEW d \in Clients, Check(d) \/ Score(d) \/ Undo(d) \/ End(d)
          PROVE  FALSE
      <4>1. d # c
        BY <3>2 DEF Check, Score, Undo, End
      <4>2. QED
        BY <3>2, <4>1 DEF Check, Score, Undo, End, TypeInv, TypeOK
    <3>3. ASSUME NEW d \in Clients, Scan(d)
          PROVE  d = c
      BY <3>3 DEF Scan, TypeInv, TypeOK
    <3>4. QED
      BY <3>1, <3>2, <3>3 DEF Next, Step, Create, AskReal, EndDemo, Add, Evict
  <2>2. QED
    BY <2>1, ScanStep DEF Next
<1>2. QED
  BY <1>1, RegistryInv, PTL DEF Spec, CurrentPassesNoneOver
=============================================================================
