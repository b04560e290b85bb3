------------------------- MODULE CameraServerProofs -------------------------
(***************************************************************************)
(* Proofs about CameraServer, for any clients, any size of a frame and any *)
(* room on the network: what a listed client reads is a row of frames, and *)
(* the loop over the list, which a failed send shortens under the iterator,*)
(* steps over nobody but the one behind a removed connection.              *)
(***************************************************************************)
EXTENDS CameraServer, SequenceTheorems, TLAPS

LEMMA SeqDomain == ASSUME NEW S, NEW s \in Seq(S)
                   PROVE  /\ Len(s) \in Nat /\ DOMAIN s = 1..Len(s)
                          /\ \A i \in 1..Len(s) : s[i] \in S
BY LenProperties, ElementOfSeq

(* A list without duplicates stays one when a new element comes, when its  *)
(* first leaves, and when one is removed: those behind it move up.         *)
LEMMA ListAppended ==
  ASSUME NEW S, NEW s \in Seq(S), NEW c \in S
  PROVE  /\ Append(s, c) \in Seq(S) /\ Len(Append(s, c)) = Len(s) + 1
         /\ \A d : Contains(Append(s, c), d) <=> Contains(s, d) \/ d = c
         /\ IsInjective(s) /\ ~Contains(s, c) => IsInjective(Append(s, c))
<1> DEFINE t == Append(s, c)
<1>1. /\ t \in Seq(S) /\ Len(s) \in Nat /\ Len(t) = Len(s) + 1
      /\ \A i \in 1..Len(s) : t[i] = s[i]
      /\ t[Len(s) + 1] = c /\ DOMAIN t = 1..Len(t) /\ DOMAIN s = 1..Len(s)
  BY AppendProperties, LenProperties
<1>2. 1..Len(t) = 1..Len(s) \cup {Len(s) + 1}
  BY <1>1
<1> HIDE DEF t
<1>3. \A d : Contains(t, d) <=> Contains(s, d) \/ d = c
  BY <1>1, <1>2 DEF Contains
<1>4. IsInjective(s) /\ ~Contains(s, c) => IsInjective(t)
  BY <1>1, <1>2 DEF Contains, IsInjective
<1> QED
  BY <1>1, <1>3, <1>4 DEF t

LEMMA ListWithoutHead ==
  ASSUME NEW S, NEW s \in Seq(S), s # << >>, IsInjective(s)
  PROVE  /\ Head(s) \in S /\ Tail(s) \in Seq(S) /\ IsInjective(Tail(s)) /\ Contains(s, Head(s))
         /\ \A d : Contains(Tail(s), d) <=> Contains(s, d) /\ d # Head(s)
<1> DEFINE t == Tail(s)
           h == Head(s)
<1>1. /\ h \in S /\ t \in Seq(S) /\ Len(s) \in Nat \ {0} /\ Len(t) = Len(s) - 1
      /\ \A i \in 1..Len(t) : t[i] = s[i + 1]
      /\ h = s[1] /\ DOMAIN t = 1..Len(t) /\ DOMAIN s = 1..Len(s)
  BY HeadTailProperties, EmptySeq, LenProperties
<1> HIDE DEF t, h
<1>2. \A i \in 1..Len(t) : i + 1 \in 1..Len(s) /\ i + 1 # 1
  BY <1>1
<1>3. \A i \in 1..Len(s) : i = 1 \/ (i - 1 \in 1..Len(t) /\ t[i - 1] = s[i])
  BY <1>1
<1>4. 1 \in 1..Len(s)
  BY <1>1
<1>5. \A d : Contains(t, d) <=> Contains(s, d) /\ d # h
  <2>1. \A d : Contains(t, d) => Contains(s, d) /\ d # h
    BY <1>1, <1>2, <1>4 DEF Contains, IsInjective
  <2>2. \A d : Contains(s, d) /\ d # h => Contains(t, d)
    BY <1>1, <1>3 DEF Contains
  <2> QED
    BY <2>1, <2>2
<1>6. IsInjective(t)
  <2> SUFFICES ASSUME NEW i \in 1..Len(t), NEW j \in 1..Len(t), t[i] = t[j]
               PROVE  i = j
    BY <1>1 DEF IsInjective
  <2>1. i + 1 = j + 1
    BY <1>1, <1>2 DEF IsInjective
  <2> QED
    BY <2>1
<1>7. Contains(s, h)
  BY <1>1, <1>4 DEF Contains
<1> QED
  BY <1>1, <1>5, <1>6, <1>7 DEF t, h

LEMMA FirstRemoved ==
  ASSUME NEW S, NEW s \in Seq(S), IsInjective(s), NEW p \in 1..Len(s), NEW c, c = s[p]
  PROVE  /\ RemoveFirst(s, c) \in Seq(S) /\ Len(RemoveFirst(s, c)) = Len(s) - 1
         /\ \A k \in 1..(Len(s) - 1) : RemoveFirst(s, c)[k] = IF k < p THEN s[k] ELSE s[k + 1]
<1>1. Len(s) \in Nat /\ DOMAIN s = 1..Len(s) /\ \A i \in 1..Len(s) : s[i] \in S
  BY SeqDomain
<1>2. SelectInSeq(s, LAMBDA v : v = c) = p
  <2> DEFINE I == {i \in 1..Len(s) : s[i] = c}
  <2>1. I = {p}
    BY <1>1 DEF IsInjective
  <2>2. \A x \in {p} : x <= x
    BY <1>1
  <2> HIDE DEF I
  <2>3. Min(I) = p /\ I # {}
    BY <2>1, <2>2 DEF Min
  <2>4. SelectInSeq(s, LAMBDA v : v = c) = IF I # {} THEN Min(I) ELSE 0
    BY DEF SelectInSeq, I
  <2> QED
    BY <2>3, <2>4
<1>3. RemoveFirst(s, c) = SubSeq(s, 1, p - 1) \o SubSeq(s, p + 1, Len(s))
  BY <1>2 DEF RemoveFirst, RemoveAt
<1> DEFINE a == SubSeq(s, 1, p - 1)
           b == SubSeq(s, p + 1, Len(s))
<1>4. a \in Seq(S) /\ Len(a) = p - 1 /\ \A i \in 1..(p - 1) : a[i] = s[i]
  <2>1. 1 \in Int /\ p - 1 \in Int /\ \A i \in 1..(p - 1) : s[i] \in S /\ 1 + i - 1 = i
    BY <1>1
  <2>2. /\ SubSeq(s, 1, p - 1) \in Seq(S)
        /\ Len(SubSeq(s, 1, p - 1)) = IF 1 <= p - 1 THEN p - 1 - 1 + 1 ELSE 0
        /\ \A i \in 1..(p - 1 - 1 + 1) : SubSeq(s, 1, p - 1)[i] = s[1 + i - 1]
    BY <2>1, SubSeqProperties
  <2>3. p - 1 - 1 + 1 = p - 1 /\ (~(1 <= p - 1) => p - 1 = 0)
    BY <1>1
  <2> QED
    BY <2>1, <2>2, <2>3
<1>5. b \in Seq(S) /\ Len(b) = Len(s) - p /\ \A i \in 1..(Len(s) - p) : b[i] = s[p + i]
  <2>1. p + 1 \in Int /\ Len(s) \in Int /\ \A i \in (p + 1)..Len(s) : s[i] \in S
    BY <1>1
  <2>2. /\ SubSeq(s, p + 1, Len(s)) \in Seq(S)
        /\ Len(SubSeq(s, p + 1, Len(s))) = IF p + 1 <= Len(s) THEN Len(s) - (p + 1) + 1 ELSE 0
        /\ \A i \in 1..(Len(s) - (p + 1) + 1) : SubSeq(s, p + 1, Len(s))[i] = s[p + 1 + i - 1]
    BY <2>1, SubSeqProperties
  <2>3. \A n \in Nat : n - (p + 1) + 1 = n - p /\ (p <= n /\ ~(p + 1 <= n) => n - p = 0)
    BY <1>1
  <2>4. \A i \in 1..(Len(s) - p) : p + 1 + i - 1 = p + i
    BY <1>1
  <2>5. p <= Len(s)
    BY <1>1
  <2> QED
    BY <1>1, <2>2, <2>3, <2>4, <2>5
<1> HIDE DEF a, b
<1>6. /\ a \o b \in Seq(S) /\ Len(a \o b) = Len(a) + Len(b)
      /\ \A i \in 1..(Len(a) + Len(b)) : (a \o b)[i] = IF i <= Len(a) THEN a[i] ELSE b[i - Len(a)]
  BY <1>4, <1>5, ConcatProperties
<1>7. Len(a) + Len(b) = Len(s) - 1
  BY <1>1, <1>4, <1>5
<1>8. \A k \in 1..(Len(s) - 1) : (a \o b)[k] = IF k < p THEN s[k] ELSE s[k + 1]
  <2> TAKE k \in 1..(Len(s) - 1)
  <2>1. CASE k < p
    <3>1. k <= Len(a) /\ k \in 1..(p - 1)
      BY <1>1, <1>4, <2>1
    <3> QED
      BY <1>4, <1>6, <1>7, <2>1, <3>1
  <2>2. CASE ~(k < p)
    <3>1. ~(k <= Len(a)) /\ k - Len(a) = k - (p - 1) /\ k - (p - 1) \in 1..(Len(s) - p) /\ p + (k - (p - 1)) = k + 1
      BY <1>1, <1>4, <2>2
    <3>2. b[k - (p - 1)] = s[k + 1]
      BY <1>5, <3>1
    <3> QED
      BY <1>6, <1>7, <2>2, <3>1, <3>2
  <2> QED
    BY <2>1, <2>2
<1> QED
  BY <1>3, <1>6, <1>7, <1>8 DEF a, b

LEMMA RemovedFromList ==
  ASSUME NEW S, NEW s \in Seq(S), IsInjective(s), NEW p \in 1..Len(s), NEW c, c = s[p]
  PROVE  /\ IsInjective(RemoveFirst(s, c))
         /\ \A d : Contains(RemoveFirst(s, c), d) <=> Contains(s, d) /\ d # c
<1> DEFINE t == RemoveFirst(s, c)
           Old(k) == IF k < p THEN k ELSE k + 1
<1>1. /\ Len(s) \in Nat /\ DOMAIN s = 1..Len(s)
      /\ t \in Seq(S) /\ Len(t) = Len(s) - 1
      /\ \A k \in 1..(Len(s) - 1) : t[k] = IF k < p THEN s[k] ELSE s[k + 1]
  BY SeqDomain, FirstRemoved
<1>2. DOMAIN t = 1..Len(t)
  BY <1>1, SeqDomain
<1> HIDE DEF t
<1>3. \A k \in 1..Len(t) : Old(k) \in 1..Len(s) /\ Old(k) # p /\ t[k] = s[Old(k)]
  BY <1>1
<1>4. \A j, k \in 1..Len(t) : Old(j) = Old(k) => j = k
  BY <1>1
<1>5. \A i \in 1..Len(s) : i = p \/ \E k \in 1..Len(t) : Old(k) = i
  <2> TAKE i \in 1..Len(s)
  <2>1. CASE i < p
    <3>1. i \in 1..Len(t) /\ Old(i) = i
      BY <1>1, <2>1
    <3> QED
      BY <3>1
  <2>2. CASE i > p
    <3>1. i - 1 \in 1..Len(t) /\ Old(i - 1) = i
      BY <1>1, <2>2
    <3> QED
      BY <3>1
  <2> QED
    BY <1>1, <2>1, <2>2
<1> HIDE DEF Old
<1>6. IsInjective(t)
  <2> SUFFICES ASSUME NEW i \in 1..Len(t), NEW j \in 1..Len(t), t[i] = t[j]
               PROVE  i = j
    BY <1>2 DEF IsInjective
  <2>1. s[Old(i)] = s[Old(j)] /\ Old(i) \in 1..Len(s) /\ Old(j) \in 1..Len(s)
    BY <1>3
  <2>2. Old(i) = Old(j)
    BY <1>1, <2>1 DEF IsInjective
  <2> QED
    BY <1>4, <2>2
<1>7. ASSUME NEW k \in 1..Len(t)
      PROVE  Contains(s, t[k]) /\ t[k] # c
  <2>1. t[k] = s[Old(k)] /\ Old(k) \in 1..Len(s) /\ Old(k) # p
    BY <1>3
  <2>2. s[Old(k)] # s[p]
    BY <1>1, <2>1 DEF IsInjective
  <2> QED
    BY <2>1, <2>2 DEF Contains
<1>8. \A d : Contains(t, d) => Contains(s, d) /\ d # c
  BY <1>7 DEF Contains
<1>9. \A d : Contains(s, d) /\ d # c => Contains(t, d)
  BY <1>3, <1>5 DEF Contains
<1> QED
  BY <1>6, <1>8, <1>9 DEF t
-----------------------------------------------------------------------------
(* Types                                                                   *)

LEMMA NextItemIs == item \in Items => NextItem \in Items /\ NextItem = IF item = Parts THEN 0 ELSE item + 1
<1> SUFFICES ASSUME item \in 0..Parts
             PROVE  NextItem \in Items /\ NextItem = IF item = Parts THEN 0 ELSE item + 1
  BY DEF Items
<1>1. \A n \in Nat \ {0} : n % n = 0 /\ \A x \in 0..(n - 1) : x % n = x
  OBVIOUS
<1>2. Parts + 1 \in Nat \ {0} /\ (item # Parts => item + 1 \in 0..((Parts + 1) - 1))
  BY PartsAssumption
<1>3. CASE item = Parts
  BY <1>1, <1>2, <1>3, PartsAssumption DEF NextItem, Items
<1>4. CASE item # Parts
  BY <1>1, <1>2, <1>4, PartsAssumption DEF NextItem, Items
<1> QED
  BY <1>3, <1>4

(* Where a client is, before and after it is listed.  A frame that is not  *)
(* all sent is one that the loop is sending.                               *)
PlaceInv ==
  /\ \A c \in Clients : Contains(backlog, c) \/ Contains(connections, c)
       => client[c] \in {"reading", "stalled", "gone"}
  /\ \A c \in Clients : Contains(backlog, c) => ~Contains(connections, c)
  /\ \A c \in Clients : client[c] \in {"asking", "found"} \/ Contains(backlog, c) => last[c] = Parts
  /\ pc # "send" => at = 1 /\ item = 0

StreamInv == StreamsInStep /\ PlaceInv

LEMMA StreamInit == Init => StreamInv
<1> SUFFICES ASSUME Init PROVE StreamInv
  OBVIOUS
<1>1. IsInjective(<< >>) /\ << >> \in Seq(Clients) /\ << >> \in Seq(Clients \cup {Stray})
      /\ \A c : ~Contains(<< >>, c)
  BY EmptySeq DEF IsInjective, Contains
<1> QED
  BY <1>1, PartsAssumption, RoomAssumption, MaxStraysAssumption
     DEF Init, StreamInv, StreamsInStep, TypeOK, ListedAreInStep, PlaceInv, Items

(* The server sends to one client, which is listed.                        *)
LEMMA SendingOne ==
  ASSUME TypeOK, NEW c \in Clients, Sending(c)
  PROVE  /\ pc = "send" /\ at \in 1..Len(connections) /\ connections[at] = c /\ Contains(connections, c)
         /\ \A d \in Clients : Sending(d) => d = c
BY DEF Sending, TypeOK, Contains

LEMMA StreamStep == StreamInv /\ [Next]_vars => StreamInv'
<1> SUFFICES ASSUME StreamInv, [Next]_vars PROVE StreamInv'
  OBVIOUS
<1>1. /\ TypeOK /\ ListedAreInStep /\ PlaceInv
      /\ backlog \in Seq(Clients) /\ IsInjective(backlog)
      /\ connections \in Seq(Clients) /\ IsInjective(connections)
      /\ started \in Seq(Clients) /\ IsInjective(started)
  BY DEF StreamInv, StreamsInStep, TypeOK
<1>2. << >> \in Seq(Clients) /\ << >> \in Seq(Clients \cup {Stray}) /\ IsInjective(<< >>)
  BY EmptySeq DEF IsInjective
<1> USE DEF StreamInv, StreamsInStep, netVars, loopVars, serverVars
<1>3. CASE Accept
  <2> DEFINE c == Head(backlog)
  <2>1. /\ pc = "accept" /\ pc' = "discovery" /\ connections' = Append(connections, c)
        /\ backlog # << >> /\ backlog' = Tail(backlog)
        /\ UNCHANGED <<client, requests, strays, at, item, tried, started, wire, last>>
    BY <1>3 DEF Accept, MayAccept
  <2>2. /\ c \in Clients /\ backlog' \in Seq(Clients) /\ IsInjective(backlog') /\ Contains(backlog, c)
        /\ \A d : Contains(backlog', d) <=> Contains(backlog, d) /\ d # c
    BY <1>1, <2>1, ListWithoutHead
  <2> HIDE DEF c
  <2>3. /\ connections' \in Seq(Clients)
        /\ \A d : Contains(connections', d) <=> Contains(connections, d) \/ d = c
        /\ IsInjective(connections')
    BY <1>1, <2>1, <2>2, ListAppended DEF PlaceInv
  <2>4. TypeOK'
    BY <1>1, <2>1, <2>2, <2>3 DEF TypeOK
  <2>5. PlaceInv'
    BY <1>1, <2>1, <2>2, <2>3 DEF PlaceInv
  <2>6. ListedAreInStep'
    BY <1>1, <2>1, <2>2, <2>3 DEF PlaceInv, ListedAreInStep, Sending
  <2> QED
    BY <2>4, <2>5, <2>6
<1>4. CASE AcceptTimeout
  <2>1. TypeOK'
    BY <1>1, <1>4 DEF AcceptTimeout, TypeOK
  <2>2. PlaceInv' /\ ListedAreInStep'
    BY <1>1, <1>4 DEF AcceptTimeout, PlaceInv, ListedAreInStep, Sending
  <2> QED
    BY <2>1, <2>2
<1>5. ASSUME NEW c \in Clients, Answer(c) PROVE StreamInv'
  <2>1. TypeOK'
    BY <1>1, <1>2, <1>5 DEF Answer, TypeOK
  <2>2. PlaceInv'
    BY <1>1, <1>5 DEF Answer, PlaceInv, TypeOK
  <2>3. ListedAreInStep'
    BY <1>1, <1>5 DEF Answer, ListedAreInStep, Sending
  <2> QED
    BY <2>1, <2>2, <2>3
<1>6. CASE AnswerNothing
  <2>1. TypeOK'
    BY <1>1, <1>2, <1>6 DEF AnswerNothing, TypeOK
  <2>2. PlaceInv' /\ ListedAreInStep'
    BY <1>1, <1>6 DEF AnswerNothing, PlaceInv, ListedAreInStep, Sending
  <2> QED
    BY <2>1, <2>2
<1>7. CASE Capture
  <2>1. TypeOK'
    BY <1>1, <1>7 DEF Capture, TypeOK
  <2>2. PlaceInv' /\ ListedAreInStep'
    BY <1>1, <1>7 DEF Capture, PlaceInv, ListedAreInStep, Sending
  <2> QED
    BY <2>1, <2>2
<1>8. ASSUME NEW c \in Clients, SendItem(c) PROVE StreamInv'
  <2>1. /\ Sending(c) /\ wire[c] < Room
        /\ wire' = [wire EXCEPT ![c] = IF client[c] = "gone" THEN 0 ELSE @ + 1]
        /\ last' = [last EXCEPT ![c] = item]
        /\ tried' = tried \cup {c}
        /\ item' = NextItem
        /\ at' = IF item = Parts THEN at + 1 ELSE at
        /\ UNCHANGED <<client, requests, strays, backlog, pc, connections, started>>
    BY <1>8 DEF SendItem
  <2>2. /\ pc = "send" /\ at \in 1..Len(connections) /\ connections[at] = c /\ Contains(connections, c)
        /\ \A d \in Clients : Sending(d) => d = c
    BY <1>1, <2>1, SendingOne
  <2>3. item \in Items /\ item' \in Items /\ (item # Parts => item' # 0)
    <3>1. item \in Items /\ NextItem \in Items /\ NextItem = IF item = Parts THEN 0 ELSE item + 1
      BY <1>1, NextItemIs DEF TypeOK
    <3> QED
      BY <2>1, <3>1 DEF Items
  <2>4. wire' \in [Clients -> 0..Room]
    <3>1. wire \in [Clients -> 0..Room] /\ wire[c] \in 0..Room /\ wire[c] + 1 \in 0..Room /\ 0 \in 0..Room
      BY <1>1, <2>1, RoomAssumption DEF TypeOK
    <3> QED
      BY <2>1, <3>1
  <2>5. at' \in Nat \ {0}
    BY <1>1, <2>1 DEF TypeOK
  <2>6. TypeOK'
    <3>1. last' \in [Clients -> Items] /\ tried' \subseteq Clients
      BY <1>1, <2>1, <2>3 DEF TypeOK
    <3> QED
      BY <1>1, <2>1, <2>3, <2>4, <2>5, <3>1 DEF TypeOK
  <2>7. \A d \in Clients : last'[d] = IF d = c THEN item ELSE last[d]
    BY <1>1, <2>1 DEF TypeOK
  <2>8. PlaceInv'
    BY <1>1, <2>1, <2>2, <2>7 DEF PlaceInv
  <2>9. ListedAreInStep'
    <3> SUFFICES ASSUME NEW d \in Clients, Contains(connections, d), last'[d] # Parts
                 PROVE  Sending(d)' /\ item' # 0
      BY <2>1 DEF ListedAreInStep
    <3>1. d = c
      BY <1>1, <2>2, <2>7 DEF ListedAreInStep
    <3>2. item # Parts /\ at' = at
      BY <2>1, <2>7, <3>1
    <3> QED
      BY <2>1, <2>2, <2>3, <3>1, <3>2 DEF Sending
  <2> QED
    BY <2>6, <2>8, <2>9
<1>9. ASSUME NEW c \in Clients, SendFails(c) PROVE StreamInv'
  <2>1. /\ Sending(c) /\ connections' = RemoveFirst(connections, c) /\ at' = at + 1
        /\ tried' = tried \cup {c} /\ item' = 0
        /\ UNCHANGED <<client, requests, strays, backlog, pc, started, wire, last>>
    BY <1>9 DEF SendFails, Disconnect
  <2>2. /\ pc = "send" /\ at \in 1..Len(connections) /\ connections[at] = c /\ Contains(connections, c)
        /\ \A d \in Clients : Sending(d) => d = c
    BY <1>1, <2>1, SendingOne
  <2>3. /\ connections' \in Seq(Clients) /\ IsInjective(connections')
        /\ \A d : Contains(connections', d) <=> Contains(connections, d) /\ d # c
    BY <1>1, <2>1, <2>2, FirstRemoved, RemovedFromList
  <2>4. at' \in Nat \ {0} /\ item' \in Items
    BY <1>1, <2>1, PartsAssumption DEF TypeOK, Items
  <2>5. TypeOK'
    BY <1>1, <2>1, <2>3, <2>4 DEF TypeOK
  <2>6. PlaceInv'
    BY <1>1, <2>1, <2>2, <2>3 DEF PlaceInv
  <2>7. ListedAreInStep'
    BY <1>1, <2>1, <2>2, <2>3 DEF ListedAreInStep
  <2> QED
    BY <2>5, <2>6, <2>7
<1>10. CASE EndFrame
  <2>1. \A c \in Clients : ~Sending(c)
    BY <1>1, <1>10 DEF EndFrame, Sending, TypeOK, Items
  <2>2. TypeOK'
    BY <1>1, <1>2, <1>10, PartsAssumption DEF EndFrame, TypeOK, Items
  <2>3. PlaceInv' /\ ListedAreInStep'
    BY <1>1, <1>10, <2>1 DEF EndFrame, PlaceInv, ListedAreInStep
  <2> QED
    BY <2>2, <2>3
<1>11. ASSUME NEW r \in Clients \cup {Stray}, requests' = Append(requests, r), strays' \in 0..MaxStrays,
              UNCHANGED <<client, backlog, wire, pc, connections, at, item, tried, started, last>>
       PROVE  StreamInv'
  <2>1. TypeOK'
    BY <1>1, <1>11, ListAppended DEF TypeOK
  <2>2. PlaceInv' /\ ListedAreInStep'
    BY <1>1, <1>11 DEF PlaceInv, ListedAreInStep, Sending
  <2> QED
    BY <2>1, <2>2
<1>12. CASE AskOther \/ \E c \in Clients : Ask(c)
  <2>1. strays' \in 0..MaxStrays
    BY <1>1, <1>12, MaxStraysAssumption DEF AskOther, Ask, TypeOK
  <2> QED
    BY <1>11, <1>12, <2>1 DEF AskOther, Ask
<1>13. ASSUME NEW c \in Clients, Connect(c) PROVE StreamInv'
  <2>1. /\ client[c] = "found" /\ client' = [client EXCEPT ![c] = "reading"]
        /\ backlog' = Append(backlog, c)
        /\ UNCHANGED <<requests, strays, wire, pc, connections, at, item, tried, started, last>>
    BY <1>13 DEF Connect
  <2>2. ~Contains(backlog, c) /\ ~Contains(connections, c) /\ last[c] = Parts
    BY <1>1, <2>1 DEF PlaceInv
  <2>3. /\ backlog' \in Seq(Clients) /\ IsInjective(backlog')
        /\ \A d : Contains(backlog', d) <=> Contains(backlog, d) \/ d = c
    BY <1>1, <2>1, <2>2, ListAppended
  <2>4. \A d \in Clients : client'[d] = IF d = c THEN "reading" ELSE client[d]
    BY <1>1, <2>1 DEF TypeOK
  <2>5. TypeOK'
    BY <1>1, <2>1, <2>3 DEF TypeOK
  <2>6. PlaceInv'
    BY <1>1, <2>1, <2>2, <2>3, <2>4 DEF PlaceInv
  <2>7. ListedAreInStep'
    BY <1>1, <2>1 DEF ListedAreInStep, Sending
  <2> QED
    BY <2>5, <2>6, <2>7
<1>14. ASSUME NEW c \in Clients, Read(c) \/ StopReading(c) \/ Leave(c) PROVE StreamInv'
  <2>1. /\ client' \in [Clients -> {"asking", "found", "reading", "stalled", "gone"}]
        /\ \A d \in Clients : \/ client'[d] = client[d]
                              \/ client[d] \in {"reading", "stalled"} /\ client'[d] \in {"stalled", "gone"}
    <3>1. client \in [Clients -> {"asking", "found", "reading", "stalled", "gone"}]
      BY <1>1 DEF TypeOK
    <3>2. \/ UNCHANGED client
          \/ client[c] \in {"reading", "stalled"} /\ client' = [client EXCEPT ![c] = "stalled"]
          \/ client[c] \in {"reading", "stalled"} /\ client' = [client EXCEPT ![c] = "gone"]
      BY <1>14 DEF Read, StopReading, Leave
    <3>3. ASSUME NEW x \in {"stalled", "gone"}, client[c] \in {"reading", "stalled"},
                 client' = [client EXCEPT ![c] = x]
          PROVE  /\ client' \in [Clients -> {"asking", "found", "reading", "stalled", "gone"}]
                 /\ \A d \in Clients : client'[d] = client[d] \/ (d = c /\ client'[d] = x)
      BY <3>1, <3>3
    <3>4. CASE UNCHANGED client
      BY <3>1, <3>4
    <3> QED
      BY <3>2, <3>3, <3>4
  <2>2. wire' \in [Clients -> 0..Room]
    <3>1. wire \in [Clients -> 0..Room] /\ 0 \in 0..Room /\ \A n \in 0..Room : n > 0 => n - 1 \in 0..Room
      BY <1>1, RoomAssumption DEF TypeOK
    <3> QED
      BY <1>14, <3>1 DEF Read, StopReading, Leave
  <2>3. UNCHANGED <<requests, strays, backlog, pc, connections, at, item, tried, started, last>>
    BY <1>14 DEF Read, StopReading, Leave
  <2>4. TypeOK'
    BY <1>1, <2>1, <2>2, <2>3 DEF TypeOK
  <2>5. PlaceInv'
    BY <1>1, <2>1, <2>3 DEF PlaceInv
  <2>6. ListedAreInStep'
    BY <1>1, <2>3 DEF ListedAreInStep, Sending
  <2> QED
    BY <2>4, <2>5, <2>6
<1>15. CASE UNCHANGED vars
  BY <1>1, <1>15 DEF vars, TypeOK, PlaceInv, ListedAreInStep, Sending
<1> QED
  BY <1>3, <1>4, <1>5, <1>6, <1>7, <1>8, <1>9, <1>10, <1>12, <1>13, <1>14, <1>15 DEF Next, Server, Client

(* Whatever call fails and however many clients come and go, a client of   *)
(* the list has been sent whole frames, but for the one that is being sent *)
(* (PiVisServer.py:83-90).                                                 *)
THEOREM StreamsStayInStep == Spec => []StreamsInStep
<1>1. StreamInv => StreamsInStep
  BY DEF StreamInv
<1> QED
  BY <1>1, StreamInit, StreamStep, PTL DEF Spec
-----------------------------------------------------------------------------
(* The loop over the list                                                  *)

(* The list only loses connections while the loop goes over it; whoever    *)
(* was in it has been tried, is still to come, or was stepped over because *)
(* the one before it was removed.                                          *)
Passed(i) ==
  \/ started[i] \in tried
  \/ i > 1 /\ ~Contains(connections, started[i - 1])
  \/ \E k \in at..Len(connections) : connections[k] = started[i]

LoopInv ==
  pc = "send" =>
    /\ \A k \in 1..Len(connections) : \E i \in 1..Len(started) : started[i] = connections[k]
    /\ \A k, l \in 1..Len(connections), i, j \in 1..Len(started) :
         connections[k] = started[i] /\ connections[l] = started[j] /\ k < l => i < j
    /\ \A i \in 1..Len(started) : Passed(i)

LEMMA LoopAfterFailure ==
  ASSUME StreamInv, LoopInv, NEW c \in Clients, SendFails(c)
  PROVE  LoopInv'
<1>1. /\ Sending(c) /\ connections' = RemoveFirst(connections, c) /\ at' = at + 1
      /\ tried' = tried \cup {c} /\ UNCHANGED <<pc, started>>
  BY DEF SendFails, Disconnect
<1>2. /\ TypeOK /\ connections \in Seq(Clients) /\ IsInjective(connections) /\ at \in Nat
      /\ started \in Seq(Clients) /\ IsInjective(started)
  BY DEF StreamInv, StreamsInStep, TypeOK
<1>3. /\ pc = "send" /\ at \in 1..Len(connections) /\ connections[at] = c
  BY <1>1, <1>2, SendingOne
<1>4. /\ Len(connections) \in Nat /\ DOMAIN connections = 1..Len(connections)
      /\ Len(started) \in Nat /\ DOMAIN started = 1..Len(started)
      /\ Len(connections') = Len(connections) - 1
      /\ \A k \in 1..(Len(connections) - 1) :
           connections'[k] = IF k < at THEN connections[k] ELSE connections[k + 1]
      /\ \A d : Contains(connections', d) <=> Contains(connections, d) /\ d # c
  <2>1. /\ Len(connections) \in Nat /\ DOMAIN connections = 1..Len(connections)
        /\ Len(started) \in Nat /\ DOMAIN started = 1..Len(started)
    BY <1>2, SeqDomain
  <2>2. /\ Len(connections') = Len(connections) - 1
        /\ \A k \in 1..(Len(connections) - 1) :
             connections'[k] = IF k < at THEN connections[k] ELSE connections[k + 1]
    BY <1>1, <1>2, <1>3, FirstRemoved
  <2>3. \A d : Contains(connections', d) <=> Contains(connections, d) /\ d # c
    BY <1>1, <1>2, <1>3, RemovedFromList
  <2> QED
    BY <2>1, <2>2, <2>3
<1> DEFINE Old(k) == IF k < at THEN k ELSE k + 1
<1>5. \A k \in 1..Len(connections') : Old(k) \in 1..Len(connections) /\ connections'[k] = connections[Old(k)]
  BY <1>2, <1>4
<1>6. \A k, l \in 1..Len(connections') : k < l => Old(k) < Old(l)
  BY <1>2, <1>4
<1>7. \A k \in at..Len(connections) :
        \/ k = at
        \/ k = at + 1
        \/ k - 1 \in at'..Len(connections') /\ Old(k - 1) = k /\ k - 1 \in 1..Len(connections')
  BY <1>1, <1>3, <1>4
<1> HIDE DEF Old
<1>8. \A k \in 1..Len(connections') : \E i \in 1..Len(started) : started[i] = connections'[k]
  BY <1>3, <1>5 DEF LoopInv
<1>9. \A k, l \in 1..Len(connections'), i, j \in 1..Len(started) :
        connections'[k] = started[i] /\ connections'[l] = started[j] /\ k < l => i < j
  <2> SUFFICES ASSUME NEW k \in 1..Len(connections'), NEW l \in 1..Len(connections'),
                      NEW i \in 1..Len(started), NEW j \in 1..Len(started),
                      connections'[k] = started[i], connections'[l] = started[j], k < l
               PROVE  i < j
    OBVIOUS
  <2>1. /\ Old(k) \in 1..Len(connections) /\ Old(l) \in 1..Len(connections) /\ Old(k) < Old(l)
        /\ connections[Old(k)] = started[i] /\ connections[Old(l)] = started[j]
    BY <1>5, <1>6
  <2> QED
    BY <1>3, <2>1 DEF LoopInv
<1>10. ASSUME NEW i \in 1..Len(started), Passed(i) PROVE Passed(i)'
  <2>1. CASE started[i] \in tried
    BY <1>1, <2>1 DEF Passed
  <2>2. CASE i > 1 /\ ~Contains(connections, started[i - 1])
    BY <1>1, <1>4, <2>2 DEF Passed
  <2>3. ASSUME NEW k \in at..Len(connections), connections[k] = started[i] PROVE Passed(i)'
    <3>1. CASE k = at
      BY <1>1, <1>3, <2>3, <3>1 DEF Passed
    <3>2. CASE k = at + 1
      \* The iterator steps over it: between it and c, which is removed,
      \* nothing was left of the list.
      <4>1. PICK m \in 1..Len(started) : started[m] = c
        BY <1>3 DEF LoopInv
      <4>2. at \in 1..Len(connections) /\ at + 1 \in 1..Len(connections) /\ at < at + 1
        BY <1>3, <1>4, <3>2
      <4>3. m < i
        BY <1>3, <2>3, <3>2, <4>1, <4>2 DEF LoopInv
      <4>4. i > 1 /\ i - 1 \in 1..Len(started) /\ i - 1 < i /\ (m = i - 1 \/ m < i - 1)
        BY <1>4, <4>3
      <4>5. ~Contains(connections', started[i - 1])
        <5> SUFFICES ASSUME Contains(connections, started[i - 1]), started[i - 1] # c
                     PROVE  FALSE
          BY <1>4
        <5>1. PICK l \in 1..Len(connections) : connections[l] = started[i - 1]
          BY DEF Contains
        <5>2. m < i - 1
          BY <4>1, <4>4
        <5>3. ~(l < at)
          <6>1. l < at => i - 1 < m
            BY <1>3, <4>1, <4>2, <4>4, <5>1 DEF LoopInv
          <6> QED
            BY <4>4, <5>2, <6>1
        <5>4. ~(at + 1 < l)
          <6>1. at + 1 < l => i < i - 1
            BY <1>3, <2>3, <3>2, <4>2, <4>4, <5>1 DEF LoopInv
          <6> QED
            BY <1>4, <6>1
        <5>5. l # at /\ l # at + 1
          <6>1. started[i - 1] # started[i]
            BY <1>2, <1>4, <4>4 DEF IsInjective
          <6> QED
            BY <1>3, <2>3, <3>2, <5>1, <6>1
        <5> QED
          BY <1>2, <1>4, <5>3, <5>4, <5>5
      <4> QED
        BY <1>1, <4>4, <4>5 DEF Passed
    <3>3. CASE k - 1 \in at'..Len(connections') /\ Old(k - 1) = k /\ k - 1 \in 1..Len(connections')
      <4>1. connections'[k - 1] = started[i]
        BY <1>5, <2>3, <3>3
      <4> QED
        BY <1>1, <3>3, <4>1 DEF Passed
    <3> QED
      BY <1>7, <3>1, <3>2, <3>3
  <2> QED
    BY <1>10, <2>1, <2>2, <2>3 DEF Passed
<1> QED
  BY <1>1, <1>3, <1>8, <1>9, <1>10 DEF LoopInv

LEMMA LoopStep == StreamInv /\ LoopInv /\ [Next]_vars => LoopInv'
<1> SUFFICES ASSUME StreamInv, LoopInv, [Next]_vars PROVE LoopInv'
  OBVIOUS
<1>1. /\ TypeOK /\ PlaceInv /\ connections \in Seq(Clients) /\ IsInjective(connections) /\ at \in Nat
      /\ Len(connections) \in Nat /\ DOMAIN connections = 1..Len(connections)
  BY SeqDomain DEF StreamInv, StreamsInStep, TypeOK
<1>2. CASE Capture
  <2>1. pc = "camera" /\ started' = connections /\ pc' = "send" /\ UNCHANGED <<connections, at, tried>>
    BY <1>2 DEF Capture
  <2>2. at = 1
    BY <1>1, <2>1 DEF PlaceInv
  <2>3. \A k, l \in 1..Len(connections), i, j \in 1..Len(connections) :
          connections[k] = connections[i] /\ connections[l] = connections[j] /\ k < l => i < j
    BY <1>1 DEF IsInjective
  <2>4. \A i \in 1..Len(connections) : \E k \in at..Len(connections) : connections[k] = connections[i]
    BY <1>1, <2>2
  <2> QED
    BY <2>1, <2>3, <2>4 DEF LoopInv, Passed
<1>3. ASSUME NEW c \in Clients, SendItem(c) PROVE LoopInv'
  <2>1. /\ Sending(c) /\ tried' = tried \cup {c}
        /\ at' = IF item = Parts THEN at + 1 ELSE at
        /\ UNCHANGED <<pc, connections, started>>
    BY <1>3 DEF SendItem
  <2>2. pc = "send" /\ at \in 1..Len(connections) /\ connections[at] = c
    BY <1>1, <2>1, SendingOne
  <2>3. \A k \in at..Len(connections) : k = at \/ k \in at'..Len(connections)
    BY <1>1, <2>1
  <2>4. \A i \in 1..Len(started) : Passed(i) => Passed(i)'
    BY <2>1, <2>2, <2>3 DEF Passed
  <2> QED
    BY <2>1, <2>2, <2>4 DEF LoopInv
<1>4. ASSUME NEW c \in Clients, SendFails(c) PROVE LoopInv'
  BY <1>4, LoopAfterFailure
<1>5. CASE Accept \/ AcceptTimeout \/ AnswerNothing \/ EndFrame \/ \E c \in Clients : Answer(c)
  <2>1. pc' # "send"
    BY <1>5 DEF Accept, AcceptTimeout, AnswerNothing, EndFrame, Answer
  <2> QED
    BY <2>1 DEF LoopInv
<1>6. CASE AskOther \/ UNCHANGED vars \/ \E c \in Clients : Client(c)
  <2>1. UNCHANGED <<pc, connections, at, tried, started>>
    BY <1>6 DEF AskOther, Client, Ask, Connect, Read, StopReading, Leave, serverVars, loopVars, vars
  <2> QED
    BY <2>1 DEF LoopInv, Passed
<1> QED
  BY <1>2, <1>3, <1>4, <1>5, <1>6 DEF Next, Server

(* Removing a connection moves the rest of the list up under the iterator, *)
(* which makes the loop step over the one behind it: that one misses the   *)
(* frame, and no other does, however many are removed in one loop          *)
(* (PiVisServer.py:82, :90).                                               *)
THEOREM OnlyNextIsSkipped == Spec => SkipsOnlyAfterRemoved
<1>1. Init => LoopInv
  BY DEF Init, LoopInv
<1>2. StreamInv /\ LoopInv /\ [Next]_vars =>
        [EndFrame => \A i \in DOMAIN started :
           \/ started[i] \in tried
           \/ i > 1 /\ ~Contains(connections, started[i - 1])]_vars
  <2> SUFFICES ASSUME StreamInv, LoopInv, EndFrame, NEW i \in DOMAIN started
               PROVE  started[i] \in tried \/ (i > 1 /\ ~Contains(connections, started[i - 1]))
    OBVIOUS
  <2>1. /\ pc = "send" /\ at > Len(connections) /\ at \in Nat /\ connections \in Seq(Clients)
        /\ started \in Seq(Clients)
    BY DEF EndFrame, StreamInv, StreamsInStep, TypeOK
  <2>2. DOMAIN started = 1..Len(started) /\ Len(connections) \in Nat
    BY <2>1, SeqDomain
  <2>3. Passed(i)
    BY <2>1, <2>2 DEF LoopInv
  <2>4. at..Len(connections) = {}
    BY <2>1, <2>2
  <2> QED
    BY <2>3, <2>4 DEF Passed
<1> QED
  BY <1>1, <1>2, StreamInit, StreamStep, LoopStep, PTL DEF Spec, SkipsOnlyAfterRemoved
=============================================================================
