-------------------------- MODULE JavaViewerProofs --------------------------
(***************************************************************************)
(* Proofs about JavaViewer, for any number of connections, descriptors and *)
(* parts of an image.                                                      *)
(*                                                                         *)
(* The heartbeat timers of the objects, told apart by a descriptor that    *)
(* may be used again, let every object end (ViewerInv).  The window is     *)
(* inductive beside it, once the images of the connection are counted      *)
(* through what appends, takes and cuts them.  That the viewer reads whole *)
(* messages is kept by a step if the rest of a whole stream is whole       *)
(* (RestIsWhole), and so is a whole stream with a message behind it        *)
(* (SentIsWhole).                                                          *)
(***************************************************************************)
EXTENDS JavaViewer, FunctionTheorems, FiniteSetTheorems, SequenceTheorems, TLAPS

WireItems == Messages \cup {"part"}
ObjectStates == {"none", "active", "stopping", "ended", "destroyed"}

(* The connection as a sequence of items.                                  *)
LEMMA ItemsAreItems ==
  /\ << >> \in Seq(WireItems) /\ Len(<< >>) = 0
  /\ \A m \in Messages : Items(m) \in Seq(WireItems) /\ Len(Items(m)) \in Nat
  /\ \A s \in Seq(WireItems) : s # << >> =>
       /\ Tail(s) \in Seq(WireItems) /\ Len(Tail(s)) \in Nat /\ Len(Tail(s)) <= Len(s)
       /\ <<"part">> \o Tail(s) \in Seq(WireItems) /\ Len(<<"part">> \o Tail(s)) = Len(s)
       /\ Head(s) \in WireItems
  /\ \A s, t \in Seq(WireItems) : s \o t \in Seq(WireItems) /\ Len(s \o t) = Len(s) + Len(t)
<1>1. << >> \in Seq(WireItems) /\ Len(<< >>) = 0
  BY EmptySeq
<1>2. \A s, t \in Seq(WireItems) : s \o t \in Seq(WireItems) /\ Len(s \o t) = Len(s) + Len(t)
  BY ConcatProperties
<1>3. ASSUME NEW m \in Messages PROVE Items(m) \in Seq(WireItems) /\ Len(Items(m)) \in Nat
  <2>1. PartsOf(m) \in Nat
    BY BoundsAssumption DEF PartsOf
  <2>2. Repeat(PartsOf(m)) \in Seq(WireItems)
    BY <2>1, IsASeq DEF Repeat, WireItems
  <2>3. <<m>> \in Seq(WireItems)
    BY DEF WireItems
  <2>4. Items(m) \in Seq(WireItems)
    BY <1>2, <2>2, <2>3 DEF Items
  <2> QED
    BY <2>4, LenProperties
<1>4. ASSUME NEW s \in Seq(WireItems), s # << >>
      PROVE  /\ Tail(s) \in Seq(WireItems) /\ Len(Tail(s)) \in Nat /\ Len(Tail(s)) <= Len(s)
             /\ <<"part">> \o Tail(s) \in Seq(WireItems) /\ Len(<<"part">> \o Tail(s)) = Len(s)
             /\ Head(s) \in WireItems
  <2>1. Tail(s) \in Seq(WireItems) /\ Len(Tail(s)) = Len(s) - 1 /\ Len(s) \in Nat \ {0} /\ Head(s) \in WireItems
    BY <1>4, HeadTailProperties, LenProperties, EmptySeq
  <2>2. <<"part">> \in Seq(WireItems) /\ Len(<<"part">>) = 1
    BY DEF WireItems
  <2>3. <<"part">> \o Tail(s) \in Seq(WireItems) /\ Len(<<"part">> \o Tail(s)) = Len(<<"part">>) + Len(Tail(s))
    BY <1>2, <2>1, <2>2
  <2> QED
    BY <2>1, <2>2, <2>3
<1> QED
  BY <1>1, <1>2, <1>3, <1>4
-----------------------------------------------------------------------------
(* The values of the viewer and of the connection.                         *)
ViewerTypeOK ==
  /\ state \in {"INIT_SERVICE_DISCOVERY_SOCKET", "FIND_SERVICE", "CONNECT_SERVICE", "CONNECTED", "dead"}
  /\ want \in Nat /\ length \in Messages \cup {"none", "garbage"}
  /\ want = 0 <=> length = "none"
  /\ timeouts \in 0..MaxTimeouts /\ cutInside \in BOOLEAN
  /\ link \in {"open", "closed", "reset"}
  /\ wire \in Seq(WireItems) /\ Len(wire) <= WireSize
  /\ acks \in 0..AckRoom /\ extra \in 0..MaxExtra /\ receivedAck \in BOOLEAN

(* Of the objects, those made so far have begun to live, and only the last *)
(* one has not ended; the viewer starts again when that has ended too.     *)
ObjectsInv ==
  /\ made \in 0..MaxObjects
  /\ object \in [Objects -> ObjectStates]
  /\ fd \in [Objects -> Fds]
  /\ lastHeartbeatReceived \subseteq Objects
  /\ \A n \in Objects : object[n] = "none" <=> n > made
  /\ \A n \in Objects : object[n] \in {"active", "stopping"} => n = made /\ link # "closed"
  /\ state \notin {"CONNECTED", "dead"} => \A n \in Objects : object[n] \notin {"active", "stopping"}

TimersInv ==
  /\ timers \in [Fds -> Nat]
  /\ WaitedForTimer /\ TimersOfObjects

ViewerInv == ViewerTypeOK /\ ObjectsInv /\ TimersInv

LEMMA WithIsFinite ==
  \A f : /\ IsFiniteSet(With(f)) /\ Cardinality(With(f)) \in Nat
         /\ (With(f) = {} => Cardinality(With(f)) = 0)
<1> TAKE f
<1>1. IsFiniteSet(Objects)
  BY FS_Interval, BoundsAssumption DEF Objects
<1>2. IsFiniteSet(With(f))
  BY <1>1, FS_Subset DEF With
<1> QED
  BY <1>2, FS_CardinalityType, FS_EmptySet

(* The only active object of a descriptor is the last one.                 *)
LEMMA OneRestarts ==
  ASSUME ObjectsInv, NEW f
  PROVE  /\ Living(f) = {} => Cardinality(Restarts(f)) = 0
         /\ Living(f) # {} => Cardinality(Restarts(f)) = 1
<1>1. \A n \in Living(f) : n = made
  BY DEF Living, With, ObjectsInv
<1>2. Living(f) # {} => Living(f) = {made}
  BY <1>1
<1> QED
  BY <1>2, FS_EmptySet, FS_Singleton DEF Restarts

(* A timer is of an object.                                                *)
LEMMA TimersAreBounded ==
  ASSUME ObjectsInv, TimersInv
  PROVE  timers \in [Fds -> 0..MaxObjects]
<1>1. IsFiniteSet(Objects) /\ Cardinality(Objects) = MaxObjects
  BY FS_Interval, BoundsAssumption DEF Objects
<1>2. \A f : Cardinality(With(f)) <= MaxObjects
  BY <1>1, FS_Subset DEF With
<1> QED
  BY <1>2, WithIsFinite, BoundsAssumption DEF TimersInv, TimersOfObjects

LEMMA ViewerInvSuffices == ViewerInv => TimersInOrder
<1> SUFFICES ASSUME ViewerInv PROVE TimersInOrder
  OBVIOUS
<1>1. timers \in [Fds -> 0..MaxObjects]
  BY TimersAreBounded DEF ViewerInv
<1>2. TypeOK
  BY <1>1 DEF ViewerInv, ViewerTypeOK, ObjectsInv, ObjectStates, WireItems, TypeOK
<1> QED
  BY <1>2 DEF ViewerInv, TimersInv, TimersInOrder

LEMMA ViewerInit == Init => ViewerInv
<1> SUFFICES ASSUME Init PROVE ViewerInv
  OBVIOUS
<1>1. ViewerTypeOK
  <2>1. cutInside \in BOOLEAN /\ receivedAck \in BOOLEAN
    BY DEF Init
  <2>2. wire \in Seq(WireItems) /\ Len(wire) <= WireSize
    BY ItemsAreItems, BoundsAssumption DEF Init
  <2>3. timeouts \in 0..MaxTimeouts /\ acks \in 0..AckRoom /\ extra \in 0..MaxExtra
    BY BoundsAssumption DEF Init
  <2> QED
    BY <2>1, <2>2, <2>3 DEF Init, ViewerTypeOK
<1>2. ObjectsInv
  <2>1. (CHOOSE f \in Fds : TRUE) \in Fds
    BY FdsAssumption
  <2>2. fd \in [Objects -> Fds]
    BY <2>1 DEF Init
  <2>3. made = 0 /\ 0 \in 0..MaxObjects /\ \A n \in Objects : n > made
    BY BoundsAssumption DEF Init, Objects
  <2> QED
    BY <2>2, <2>3 DEF Init, ObjectsInv, ObjectStates
<1>3. TimersInv
  <2>1. WaitedForTimer /\ timers \in [Fds -> Nat] /\ \A f \in Fds : timers[f] = 0
    BY DEF Init, WaitedForTimer
  <2> QED
    BY <2>1, WithIsFinite DEF TimersInv, TimersOfObjects
<1> QED
  BY <1>1, <1>2, <1>3 DEF ViewerInv
-----------------------------------------------------------------------------
(* The viewer's values.                                                    *)
LEMMA AckKeepsTypes ==
  ASSUME ViewerTypeOK, NEW b, SendAckMessage(b)
  PROVE  acks' \in 0..AckRoom /\ extra' \in 0..MaxExtra /\ link' \in {"open", "closed", "reset"}
<1>1. extra' \in 0..MaxExtra
  BY BoundsAssumption DEF SendAckMessage, ViewerTypeOK
<1>2. acks' \in 0..AckRoom /\ link' \in {"open", "closed", "reset"}
  BY BoundsAssumption DEF SendAckMessage, ViewerTypeOK
<1> QED
  BY <1>1, <1>2

LEMMA FittingKeepsTypes ==
  ASSUME ViewerTypeOK, NEW m \in Messages, Fits(m), wire' = wire \o Items(m)
  PROVE  wire' \in Seq(WireItems) /\ Len(wire') <= WireSize
BY ItemsAreItems DEF ViewerTypeOK, Fits

LEMMA ViewerTypeStep == ViewerInv /\ [Next]_vars => ViewerTypeOK'
<1> SUFFICES ASSUME ViewerInv, [Next]_vars PROVE ViewerTypeOK'
  OBVIOUS
<1> USE DEF ViewerInv
<1>1. wire # << >> => /\ Tail(wire) \in Seq(WireItems) /\ Len(Tail(wire)) <= WireSize
                      /\ <<"part">> \o Tail(wire) \in Seq(WireItems) /\ Len(<<"part">> \o Tail(wire)) <= WireSize
  <2>1. wire \in Seq(WireItems) /\ Len(wire) \in Nat /\ Len(wire) <= WireSize /\ WireSize \in Nat
    BY LenProperties, BoundsAssumption DEF ViewerTypeOK
  <2> QED
    BY <2>1, ItemsAreItems
<1>2. << >> \in Seq(WireItems) /\ Len(<< >>) <= WireSize /\ 0 \in 0..AckRoom /\ 0 \in 0..MaxExtra
  BY ItemsAreItems, BoundsAssumption
<1>3. CASE InitServiceDiscoverySocket \/ FindService
  BY <1>3 DEF InitServiceDiscoverySocket, FindService, ViewerTypeOK, netVars, objectVars
<1>4. CASE ConnectService
  BY <1>2, <1>4 DEF ConnectService, ViewerTypeOK
<1>5. CASE ReadLength
  <2>1. want' \in Nat \ {0} /\ length' \in Messages
    BY <1>5, BoundsAssumption DEF ReadLength, ToRead, PartsOf
  <2>2. length' # "none"
    BY <2>1 DEF Messages
  <2> QED
    BY <1>1, <1>5, <2>1, <2>2 DEF ReadLength, Reads, ViewerTypeOK, objectVars
<1>6. CASE MisreadLength
  <2>1. UNCHANGED <<timeouts, cutInside, link, acks, extra, receivedAck>> /\ wire' = Tail(wire) /\ wire # << >>
    BY <1>6 DEF MisreadLength, Reads, objectVars
  <2>2. want' \in Nat /\ length' \in Messages \cup {"none", "garbage"} /\ (want' = 0 <=> length' = "none")
    BY <1>6, BoundsAssumption DEF MisreadLength, ViewerTypeOK
  <2>3. state' \in {"CONNECTED", "dead"}
    BY <1>6 DEF MisreadLength, Reads
  <2> QED
    BY <1>1, <2>1, <2>2, <2>3 DEF ViewerTypeOK
<1>7. CASE ReadPart
  BY <1>1, <1>7 DEF ReadPart, Reads, ViewerTypeOK, objectVars
<1>8. CASE ReadLastPart
  <2>1. acks' \in 0..AckRoom /\ extra' \in 0..MaxExtra /\ link' \in {"open", "closed", "reset"}
    BY <1>8, AckKeepsTypes DEF ReadLastPart, AnswerAny
  <2>2. wire' \in Seq(WireItems) /\ Len(wire') <= WireSize
    BY <1>1, <1>2, <1>8 DEF ReadLastPart, Reads
  <2> QED
    BY <1>8, <2>1, <2>2 DEF ReadLastPart, ViewerTypeOK, objectVars
<1>9. CASE EndOfStream
  BY <1>9 DEF EndOfStream, StartAgain, ViewerTypeOK, netVars, objectVars
<1>10. CASE SocketTimeout
  <2>1. acks' \in 0..AckRoom /\ extra' \in 0..MaxExtra /\ link' \in {"open", "closed", "reset"}
    BY <1>10, AckKeepsTypes DEF SocketTimeout
  <2>2. wire' \in Seq(WireItems) /\ Len(wire') <= WireSize
    BY <1>1, <1>10 DEF SocketTimeout, ViewerTypeOK
  <2>3. timeouts' \in 0..MaxTimeouts
    BY <1>10, BoundsAssumption DEF SocketTimeout, ViewerTypeOK
  <2>4. cutInside' \in BOOLEAN
    BY <1>10 DEF SocketTimeout
  <2>5. want' = 0 /\ length' = "none" /\ UNCHANGED <<state, receivedAck>>
    BY <1>10 DEF SocketTimeout, objectVars
  <2> QED
    BY <2>1, <2>2, <2>3, <2>4, <2>5 DEF ViewerTypeOK
<1>11. CASE SendImage
  <2>1. wire' \in Seq(WireItems) /\ Len(wire') <= WireSize
    BY <1>11, FittingKeepsTypes DEF SendImage, Messages
  <2> QED
    BY <1>11, <2>1 DEF SendImage, UseAck, ViewerTypeOK, viewerVars
<1>12. CASE ReceiveAck
  BY <1>12, BoundsAssumption DEF ReceiveAck, ViewerTypeOK, viewerVars
<1>13. CASE Deactivate
  BY <1>13 DEF Deactivate, ViewerTypeOK, viewerVars, netVars
<1>14. CASE End
  BY <1>2, <1>14 DEF End, ViewerTypeOK, viewerVars
<1>15. CASE Break
  BY <1>2, <1>15 DEF Break, ViewerTypeOK, viewerVars, objectVars
<1>16. ASSUME NEW f \in Fds, HeartbeatTimeout(f) PROVE ViewerTypeOK'
  <2>1. wire' \in Seq(WireItems) /\ Len(wire') <= WireSize
    BY <1>16, FittingKeepsTypes DEF HeartbeatTimeout, Messages, ViewerTypeOK
  <2> QED
    BY <1>16, <2>1 DEF HeartbeatTimeout, ViewerTypeOK, viewerVars
<1>17. ASSUME NEW n \in Objects, Destroy(n) PROVE ViewerTypeOK'
  BY <1>17 DEF Destroy, ViewerTypeOK, viewerVars, netVars
<1>18. CASE UNCHANGED vars
  BY <1>18 DEF vars, ViewerTypeOK, viewerVars, netVars, objectVars
<1> QED
  BY <1>3, <1>4, <1>5, <1>6, <1>7, <1>8, <1>9, <1>10, <1>11, <1>12, <1>13, <1>14, <1>15, <1>16, <1>17, <1>18
     DEF Next, Viewer
-----------------------------------------------------------------------------
LEMMA ObjectsStep == ViewerInv /\ [Next]_vars => ObjectsInv'
<1> SUFFICES ASSUME ViewerInv, [Next]_vars PROVE ObjectsInv'
  OBVIOUS
<1> USE DEF ViewerInv
<1>1. MaxObjects \in Nat /\ Objects = 1..MaxObjects /\ made \in 0..MaxObjects
  BY BoundsAssumption DEF Objects, ObjectsInv
<1>2. ASSUME NEW b, SendAckMessage(b), state = "CONNECTED", UNCHANGED <<state, made, object, fd, lastHeartbeatReceived>>
      PROVE  ObjectsInv'
  BY <1>2 DEF SendAckMessage, ObjectsInv
<1>3. CASE InitServiceDiscoverySocket \/ FindService
  BY <1>3 DEF InitServiceDiscoverySocket, FindService, ObjectsInv, netVars, objectVars, timerVars
<1>4. CASE ConnectService
  <2>1. /\ made + 1 \in Objects /\ made' = made + 1 /\ made' \in 0..MaxObjects
        /\ link' = "open" /\ state' = "CONNECTED" /\ UNCHANGED lastHeartbeatReceived
        /\ object' = [object EXCEPT ![made + 1] = "active"]
        /\ \E f \in Fds : fd' = [fd EXCEPT ![made + 1] = f]
    <3>1. made < MaxObjects
      BY <1>4 DEF ConnectService
    <3>2. made + 1 \in Objects /\ made + 1 \in 0..MaxObjects
      BY <1>1, <3>1
    <3>3. \E f \in Fds : fd' = [fd EXCEPT ![made + 1] = f]
      BY <1>4 DEF ConnectService
    <3> QED
      BY <1>4, <3>2, <3>3 DEF ConnectService
  <2>2. \A n \in Objects : object[n] \notin {"active", "stopping"}
    BY <1>4 DEF ConnectService, ObjectsInv
  <2>3. \A n \in Objects : object'[n] = IF n = made + 1 THEN "active" ELSE object[n]
    BY <2>1 DEF ObjectsInv
  <2>4. object' \in [Objects -> ObjectStates] /\ fd' \in [Objects -> Fds]
    BY <2>1 DEF ObjectsInv, ObjectStates
  <2>5. \A n \in Objects : object'[n] = "none" <=> n > made'
    BY <1>1, <2>1, <2>3 DEF ObjectsInv
  <2>6. lastHeartbeatReceived' \subseteq Objects
    BY <2>1 DEF ObjectsInv
  <2>7. \A n \in Objects : object'[n] \in {"active", "stopping"} => n = made' /\ link' # "closed"
    BY <2>1, <2>2, <2>3
  <2> QED
    BY <2>1, <2>4, <2>5, <2>6, <2>7 DEF ObjectsInv
<1>5. CASE ReadLength \/ MisreadLength \/ ReadPart
  <2>1. state = "CONNECTED" /\ state' \in {"CONNECTED", "dead"} /\ UNCHANGED <<link, made, object, fd, lastHeartbeatReceived>>
    BY <1>5 DEF ReadLength, MisreadLength, ReadPart, Reads, objectVars, timerVars
  <2> QED
    BY <2>1 DEF ObjectsInv
<1>6. CASE ReadLastPart
  BY <1>2, <1>6 DEF ReadLastPart, AnswerAny, Reads, objectVars, timerVars
<1>7. CASE SocketTimeout
  BY <1>2, <1>7 DEF SocketTimeout, objectVars, timerVars
<1>8. CASE EndOfStream
  BY <1>8 DEF EndOfStream, ObjectsInv, netVars, objectVars, timerVars
<1>9. CASE SendImage \/ ReceiveAck
  BY <1>9 DEF SendImage, ReceiveAck, ObjectsInv, viewerVars, timerVars
<1>10. ASSUME NEW n \in Objects, NEW o \in {"stopping", "ended", "destroyed"},
              object' = [object EXCEPT ![n] = o], object[n] # "none",
              o = "stopping" => object[n] = "active" /\ UNCHANGED link,
              link' = "closed" /\ link # "closed" => n = made /\ o # "stopping",
              UNCHANGED <<state, made, fd, lastHeartbeatReceived>>
       PROVE  ObjectsInv'
  <2>1. \A k \in Objects : object'[k] = IF k = n THEN o ELSE object[k]
    BY <1>10 DEF ObjectsInv
  <2>2. object' \in [Objects -> ObjectStates]
    BY <1>10 DEF ObjectsInv, ObjectStates
  <2>3. \A k \in Objects : object'[k] = "none" <=> k > made
    BY <1>10, <2>1 DEF ObjectsInv
  <2>4. \A k \in Objects : object'[k] \in {"active", "stopping"} => object[k] \in {"active", "stopping"} /\ link' # "closed"
    BY <1>10, <2>1 DEF ObjectsInv
  <2> QED
    BY <1>10, <2>2, <2>3, <2>4 DEF ObjectsInv
<1>11. made > 0 => made \in Objects
  BY <1>1
<1>12. CASE Deactivate
  BY <1>10, <1>11, <1>12 DEF Deactivate, Active, viewerVars, netVars, timerVars
<1>13. CASE End
  BY <1>10, <1>11, <1>13 DEF End, viewerVars, timerVars
<1>14. CASE Break
  BY <1>14 DEF Break, ObjectsInv, viewerVars, objectVars, timerVars
<1>15. ASSUME NEW f \in Fds, HeartbeatTimeout(f) PROVE ObjectsInv'
  BY <1>15 DEF HeartbeatTimeout, ObjectsInv, With, viewerVars
<1>16. ASSUME NEW n \in Objects, Destroy(n) PROVE ObjectsInv'
  BY <1>10, <1>16 DEF Destroy, viewerVars, netVars, timerVars
<1>17. CASE UNCHANGED vars
  BY <1>17 DEF vars, ObjectsInv, viewerVars, netVars, objectVars, timerVars
<1> QED
  BY <1>3, <1>4, <1>5, <1>6, <1>7, <1>8, <1>9, <1>12, <1>13, <1>14, <1>15, <1>16, <1>17 DEF Next, Viewer
-----------------------------------------------------------------------------
(* An object that leaves its life as it is but for its end keeps its       *)
(* descriptor and its timer.                                               *)
LEMMA TimersKept ==
  ASSUME ViewerInv, UNCHANGED <<timers, fd>>, lastHeartbeatReceived \subseteq lastHeartbeatReceived',
         \A n \in Objects : /\ object'[n] = "none" <=> object[n] = "none"
                            /\ object'[n] \in {"active", "stopping", "ended"} =>
                                 object[n] \in {"active", "stopping", "ended"}
  PROVE  TimersInv'
<1>1. \A f : With(f)' = With(f)
  BY DEF With
<1> QED
  BY <1>1 DEF ViewerInv, TimersInv, WaitedForTimer, TimersOfObjects

LEMMA ConnectTimers == ViewerInv /\ ConnectService => TimersInv'
<1> SUFFICES ASSUME ViewerInv, ConnectService PROVE TimersInv'
  OBVIOUS
<1> USE DEF ViewerInv
<1>1. PICK f \in Fds : /\ fd' = [fd EXCEPT ![made + 1] = f]
                        /\ timers' = [timers EXCEPT ![f] = @ + 1]
  BY DEF ConnectService
<1>2. /\ made + 1 \in Objects /\ object' = [object EXCEPT ![made + 1] = "active"]
      /\ UNCHANGED lastHeartbeatReceived /\ object[made + 1] = "none"
  BY BoundsAssumption DEF ConnectService, Objects, ObjectsInv
<1>3. \A n \in Objects : /\ object'[n] = IF n = made + 1 THEN "active" ELSE object[n]
                         /\ fd'[n] = IF n = made + 1 THEN f ELSE fd[n]
  BY <1>1, <1>2 DEF ObjectsInv
<1>4. \A g \in Fds : /\ timers[g] \in Nat /\ timers'[g] = IF g = f THEN timers[g] + 1 ELSE timers[g]
  BY <1>1 DEF TimersInv
<1>5. timers' \in [Fds -> Nat]
  BY <1>1, <1>4 DEF TimersInv
<1>6. WaitedForTimer'
  <2>1. \A n \in Objects : fd[n] \in Fds
    BY DEF ObjectsInv
  <2> QED
    BY <1>2, <1>3, <1>4, <2>1 DEF WaitedForTimer, TimersInv
<1>7. TimersOfObjects'
  <2>1. With(f)' = With(f) \cup {made + 1} /\ made + 1 \notin With(f)
    BY <1>2, <1>3 DEF With
  <2>2. \A g \in Fds \ {f} : With(g)' = With(g)
    BY <1>2, <1>3 DEF With
  <2>3. Cardinality(With(f)') = Cardinality(With(f)) + 1
    BY <2>1, WithIsFinite, FS_AddElement
  <2> QED
    BY <1>4, <2>2, <2>3, WithIsFinite DEF TimersOfObjects, TimersInv
<1> QED
  BY <1>5, <1>6, <1>7 DEF TimersInv

LEMMA HeartbeatTimers ==
  ASSUME ViewerInv, NEW f \in Fds, HeartbeatTimeout(f)
  PROVE  TimersInv'
<1> USE DEF ViewerInv
<1>1. /\ timers[f] > 0 /\ UNCHANGED <<object, fd>>
      /\ timers' = [timers EXCEPT ![f] = @ - 1 + Cardinality(Restarts(f))]
      /\ lastHeartbeatReceived' = lastHeartbeatReceived \cup {n \in With(f) : object[n] \in {"stopping", "ended"}}
  BY DEF HeartbeatTimeout
<1>2. \A g \in Fds : timers[g] \in Nat
  BY DEF TimersInv
<1>3. /\ Cardinality(Restarts(f)) \in {0, 1}
      /\ Living(f) # {} => Cardinality(Restarts(f)) = 1
  BY OneRestarts
<1>4. /\ timers'[f] \in Nat /\ timers'[f] <= timers[f] /\ (Living(f) # {} => timers'[f] = timers[f])
      /\ \A g \in Fds \ {f} : timers'[g] = timers[g]
  BY <1>1, <1>2, <1>3 DEF TimersInv
<1>5. timers' \in [Fds -> Nat]
  BY <1>1, <1>2, <1>3 DEF TimersInv
<1>6. WaitedForTimer'
  <2> SUFFICES ASSUME NEW n \in Objects, object'[n] \in {"active", "stopping", "ended"}
               PROVE  n \in lastHeartbeatReceived' \/ timers'[fd'[n]] > 0
    BY DEF WaitedForTimer
  <2>1. n \in lastHeartbeatReceived \/ timers[fd[n]] > 0
    BY <1>1 DEF TimersInv, WaitedForTimer
  <2>2. CASE fd[n] = f /\ object[n] = "active"
    <3>1. n \in Living(f)
      BY <2>2 DEF Living, With
    <3> QED
      BY <1>1, <1>4, <2>2, <3>1
  <2>3. CASE fd[n] = f /\ object[n] \in {"stopping", "ended"}
    BY <1>1, <2>3 DEF With
  <2>4. CASE fd[n] # f
    BY <1>1, <1>4, <2>1, <2>4 DEF ObjectsInv
  <2> QED
    BY <1>1, <2>2, <2>3, <2>4
<1>7. TimersOfObjects'
  <2>1. \A g : With(g)' = With(g)
    BY <1>1 DEF With
  <2> QED
    BY <1>2, <1>4, <2>1, WithIsFinite DEF TimersOfObjects, TimersInv
<1> QED
  BY <1>5, <1>6, <1>7 DEF TimersInv

LEMMA TimersStep == ViewerInv /\ [Next]_vars => TimersInv'
<1> SUFFICES ASSUME ViewerInv, [Next]_vars PROVE TimersInv'
  OBVIOUS
<1>1. CASE ConnectService
  BY <1>1, ConnectTimers
<1>2. CASE \/ InitServiceDiscoverySocket \/ FindService \/ EndOfStream
           \/ ReadLength \/ MisreadLength \/ ReadPart \/ ReadLastPart \/ SocketTimeout
           \/ SendImage \/ ReceiveAck \/ Break \/ UNCHANGED vars
  <2>1. UNCHANGED <<timers, fd, object, lastHeartbeatReceived>>
    BY <1>2 DEF InitServiceDiscoverySocket, FindService, EndOfStream, ReadLength, MisreadLength, ReadPart,
       ReadLastPart, SocketTimeout, SendImage, ReceiveAck, Break, vars, objectVars, timerVars
  <2> QED
    BY <2>1, TimersKept
<1>3. ASSUME NEW n \in Objects, NEW o \in {"stopping", "ended", "destroyed"},
             object' = [object EXCEPT ![n] = o], object[n] \in {"active", "stopping", "ended"},
             UNCHANGED <<timers, fd, lastHeartbeatReceived>>
      PROVE  TimersInv'
  <2>1. \A k \in Objects : object'[k] = IF k = n THEN o ELSE object[k]
    BY <1>3 DEF ViewerInv, ObjectsInv
  <2> QED
    BY <1>3, <2>1, TimersKept
<1>4. made > 0 => made \in Objects
  BY BoundsAssumption DEF ViewerInv, ObjectsInv, Objects
<1>5. CASE Deactivate \/ End
  BY <1>3, <1>4, <1>5 DEF Deactivate, End, Active, timerVars
<1>6. ASSUME NEW n \in Objects, Destroy(n) PROVE TimersInv'
  BY <1>3, <1>6 DEF Destroy, timerVars
<1>7. ASSUME NEW f \in Fds, HeartbeatTimeout(f) PROVE TimersInv'
  BY <1>7, HeartbeatTimers
<1> QED
  BY <1>1, <1>2, <1>5, <1>6, <1>7 DEF Next, Viewer

(* However often the viewer comes back, and whichever descriptors its      *)
(* connections get, each object that has not ended has a timer that lets   *)
(* it end, and there are no more timers of a descriptor than objects had   *)
(* it (pivision_ethtermconnection.cpp:64-80, 361-379).                     *)
THEOREM TimersStayInOrder == Spec => []TimersInOrder
<1>1. ViewerInv /\ [Next]_vars => ViewerInv'
  BY ViewerTypeStep, ObjectsStep, TimersStep DEF ViewerInv
<1> QED
  BY <1>1, ViewerInit, ViewerInvSuffices, PTL DEF Spec
-----------------------------------------------------------------------------
(* The images on the way, counted by their lengths.                        *)
ImagesIn(s) == {i \in DOMAIN s : s[i] = "image"}
Images(s) == Cardinality(ImagesIn(s))
OneIf(b) == IF b THEN 1 ELSE 0

LEMMA ImagesAreCounted ==
  ASSUME NEW s \in Seq(WireItems)
  PROVE  IsFiniteSet(ImagesIn(s)) /\ Images(s) \in Nat
<1>1. DOMAIN s = 1..Len(s) /\ Len(s) \in Nat
  BY LenProperties
<1>2. IsFiniteSet(1..Len(s))
  BY <1>1, FS_Interval
<1>3. IsFiniteSet(ImagesIn(s))
  BY <1>1, <1>2, FS_Subset DEF ImagesIn
<1> QED
  BY <1>3, FS_CardinalityType DEF Images

LEMMA NoImages == Images(<< >>) = 0
<1>1. ImagesIn(<< >>) = {}
  BY DEF ImagesIn
<1> QED
  BY <1>1, FS_EmptySet DEF Images

(* Reading an item takes its image away, if it is one.                     *)
LEMMA ImagesOfTail ==
  ASSUME NEW s \in Seq(WireItems), s # << >>
  PROVE  Images(s) = Images(Tail(s)) + OneIf(Head(s) = "image")
<1> DEFINE later == ImagesIn(s) \ {1}
           shift == [i \in ImagesIn(Tail(s)) |-> i + 1]
<1>1. /\ Tail(s) \in Seq(WireItems) /\ Len(s) \in Nat \ {0} /\ Len(Tail(s)) = Len(s) - 1
      /\ Head(s) = s[1] /\ DOMAIN s = 1..Len(s) /\ DOMAIN Tail(s) = 1..(Len(s) - 1)
      /\ \A i \in 1..(Len(s) - 1) : Tail(s)[i] = s[i + 1]
  BY HeadTailProperties, LenProperties, EmptySeq
<1>2. \A i \in ImagesIn(Tail(s)) : i \in Nat /\ i + 1 \in later
  BY <1>1 DEF ImagesIn
<1>3. \A j \in later : j - 1 \in ImagesIn(Tail(s)) /\ j = (j - 1) + 1
  BY <1>1 DEF ImagesIn
<1>4. shift \in Bijection(ImagesIn(Tail(s)), later)
  <2>1. \A i \in ImagesIn(Tail(s)) : shift[i] \in later
    BY <1>2
  <2>2. \A i, j \in ImagesIn(Tail(s)) : shift[i] = shift[j] => i = j
    BY <1>2
  <2>3. \A j \in later : \E i \in ImagesIn(Tail(s)) : shift[i] = j
    BY <1>3
  <2> HIDE DEF later
  <2>4. shift \in [ImagesIn(Tail(s)) -> later]
    BY <2>1
  <2> HIDE DEF shift
  <2> QED
    BY <2>2, <2>3, <2>4, Fun_IsBij
<1>5. Images(Tail(s)) = Cardinality(later)
  <2>1. ExistsBijection(ImagesIn(Tail(s)), later)
    BY <1>4 DEF ExistsBijection
  <2> QED
    BY <1>1, <2>1, ImagesAreCounted, FS_Bijection DEF Images
<1>6. 1 \in ImagesIn(s) <=> Head(s) = "image"
  BY <1>1 DEF ImagesIn
<1>7. Cardinality(later) = IF 1 \in ImagesIn(s) THEN Images(s) - 1 ELSE Images(s)
  <2>1. IsFiniteSet(ImagesIn(s))
    BY ImagesAreCounted
  <2> QED
    BY <2>1, FS_RemoveElement DEF Images
<1>8. Images(s) \in Nat
  BY ImagesAreCounted
<1> HIDE DEF later, shift
<1>9. Images(Tail(s)) = IF Head(s) = "image" THEN Images(s) - 1 ELSE Images(s)
  BY <1>5, <1>6, <1>7
<1> QED
  BY <1>8, <1>9 DEF OneIf

(* A length of which a byte is lost is no image any more.                  *)
LEMMA ImagesOfCut ==
  ASSUME NEW s \in Seq(WireItems), s # << >>
  PROVE  Images(<<"part">> \o Tail(s)) <= Images(s)
<1>1. /\ Tail(s) \in Seq(WireItems) /\ Len(s) \in Nat \ {0} /\ Len(Tail(s)) = Len(s) - 1
      /\ DOMAIN s = 1..Len(s)
      /\ \A i \in 1..(Len(s) - 1) : Tail(s)[i] = s[i + 1]
  BY HeadTailProperties, LenProperties, EmptySeq
<1>2. <<"part">> \in Seq(WireItems) /\ Len(<<"part">>) = 1 /\ <<"part">>[1] = "part"
  BY DEF WireItems
<1> DEFINE cut == <<"part">> \o Tail(s)
<1>3. cut \in Seq(WireItems) /\ DOMAIN cut = 1..Len(s)
  BY <1>1, <1>2, ConcatProperties, LenProperties
<1>4. \A i \in 1..Len(s) : cut[i] = IF i = 1 THEN "part" ELSE s[i]
  BY <1>1, <1>2, ConcatProperties
<1> HIDE DEF cut
<1>5. ImagesIn(cut) \subseteq ImagesIn(s)
  BY <1>1, <1>3, <1>4 DEF ImagesIn
<1>6. Images(cut) <= Images(s)
  BY <1>5, ImagesAreCounted, FS_Subset DEF Images
<1> QED
  BY <1>6 DEF cut

(* A message is its length and then parts.                                 *)
LEMMA ItemsInOrder ==
  ASSUME NEW m \in Messages
  PROVE  /\ PartsOf(m) \in Nat
         /\ Len(Items(m)) = 1 + PartsOf(m)
         /\ Items(m)[1] = m
         /\ \A i \in 2..Len(Items(m)) : Items(m)[i] = "part"
<1>1. PartsOf(m) \in Nat
  BY BoundsAssumption DEF PartsOf
<1>2. /\ Repeat(PartsOf(m)) \in Seq(WireItems) /\ Len(Repeat(PartsOf(m))) = PartsOf(m)
      /\ \A i \in 1..PartsOf(m) : Repeat(PartsOf(m))[i] = "part"
  BY <1>1, IsASeq, LenProperties DEF Repeat, WireItems
<1>3. <<m>> \in Seq(WireItems) /\ Len(<<m>>) = 1 /\ <<m>>[1] = m
  BY DEF WireItems
<1>4. /\ Len(Items(m)) = 1 + PartsOf(m)
      /\ \A i \in 1..(1 + PartsOf(m)) : Items(m)[i] = IF i <= 1 THEN <<m>>[i] ELSE Repeat(PartsOf(m))[i - 1]
  BY <1>2, <1>3, ConcatProperties DEF Items
<1> QED
  BY <1>1, <1>2, <1>3, <1>4

(* Sending a message adds an image, if it is one.                          *)
LEMMA ImagesOfSent ==
  ASSUME NEW s \in Seq(WireItems), NEW m \in Messages
  PROVE  Images(s \o Items(m)) = Images(s) + OneIf(m = "image")
<1> DEFINE new == IF m = "image" THEN {Len(s) + 1} ELSE {}
<1>1. /\ DOMAIN s = 1..Len(s) /\ Len(s) \in Nat
      /\ Items(m) \in Seq(WireItems) /\ Len(Items(m)) \in Nat
  BY ItemsAreItems, LenProperties
<1>2. Len(Items(m)) > 0 /\ Items(m)[1] = m /\ \A i \in 2..Len(Items(m)) : Items(m)[i] = "part"
  BY ItemsInOrder
<1>3. /\ DOMAIN (s \o Items(m)) = 1..(Len(s) + Len(Items(m)))
      /\ \A i \in 1..(Len(s) + Len(Items(m))) :
           (s \o Items(m))[i] = IF i <= Len(s) THEN s[i] ELSE Items(m)[i - Len(s)]
  BY <1>1, ConcatProperties, LenProperties
<1>4. m \in {"image", "beat"}
  BY DEF Messages
<1>5. \A i \in 1..(Len(s) + Len(Items(m))) : i > Len(s) =>
        (s \o Items(m))[i] = IF i = Len(s) + 1 THEN m ELSE "part"
  BY <1>1, <1>2, <1>3
<1>6. ImagesIn(s \o Items(m)) = ImagesIn(s) \cup new
  <2> DEFINE all == s \o Items(m)
             n == Len(s) + Len(Items(m))
  <2>1. DOMAIN all = 1..n /\ n \in Nat /\ Len(s) + 1 \in 1..n
    BY <1>1, <1>2, <1>3
  <2>2. \A i \in 1..n : i <= Len(s) => i \in 1..Len(s) /\ all[i] = s[i]
    BY <1>1, <1>3
  <2>3. \A i \in 1..Len(s) : i \in 1..n /\ i <= Len(s)
    BY <1>1
  <2>4. \A i \in 1..n : i > Len(s) => all[i] = IF i = Len(s) + 1 THEN m ELSE "part"
    BY <1>5
  <2>5. \A i \in 1..n : (i <= Len(s) \/ i > Len(s)) /\ ~(i <= Len(s) /\ i = Len(s) + 1)
    BY <1>1
  <2>6. Len(s) + 1 > Len(s)
    BY <1>1
  <2> HIDE DEF all, n
  <2>7. ASSUME NEW i \in 1..n
        PROVE  all[i] = "image" <=> i \in ImagesIn(s) \/ i \in new
    <3>1. CASE i <= Len(s)
      BY <1>1, <2>2, <2>5, <3>1 DEF ImagesIn
    <3>2. CASE i = Len(s) + 1
      BY <1>1, <2>3, <2>4, <2>5, <2>6, <3>2 DEF ImagesIn
    <3>3. CASE ~(i <= Len(s)) /\ i # Len(s) + 1
      <4>1. all[i] = "part"
        BY <2>4, <2>5, <3>3
      <4>2. i \notin ImagesIn(s)
        BY <1>1, <2>3, <3>3 DEF ImagesIn
      <4> QED
        BY <3>3, <4>1, <4>2
    <3> QED
      BY <3>1, <3>2, <3>3
  <2>8. ImagesIn(s) \cup new \subseteq 1..n
    BY <1>1, <2>1, <2>3 DEF ImagesIn
  <2>9. ImagesIn(all) = {i \in 1..n : all[i] = "image"}
    BY <2>1 DEF ImagesIn
  <2> HIDE DEF new
  <2>10. ImagesIn(all) = ImagesIn(s) \cup new
    BY <2>7, <2>8, <2>9
  <2> QED
    BY <2>10 DEF all
<1>7. Len(s) + 1 \notin ImagesIn(s)
  BY <1>1 DEF ImagesIn
<1>8. CASE m = "image"
  BY <1>6, <1>7, <1>8, ImagesAreCounted, FS_AddElement DEF OneIf, Images
<1>9. CASE m # "image"
  BY <1>6, <1>9, ImagesAreCounted DEF OneIf, Images
<1> QED
  BY <1>8, <1>9
-----------------------------------------------------------------------------
(* How far the server may be ahead.                                        *)
Ahead == Images(wire) + OneIf(length = "image") + acks + OneIf(receivedAck)

LEMMA WindowIsAhead == Window <=> (extra < MaxExtra => Ahead <= 1 + extra)
BY DEF Window, Ahead, Images, ImagesIn, OneIf

(* An acknowledgement answers the image that was read or is counted.       *)
LEMMA WindowAcks ==
  ASSUME ViewerTypeOK, Window, SendAckMessage(length # "image") \/ SendAckMessage(TRUE),
         length' = "none", UNCHANGED receivedAck,
         Images(wire') \in Nat,
         Images(wire') <= Images(wire)
  PROVE  Window'
<1>1. /\ acks \in Nat /\ extra \in Nat /\ MaxExtra \in Nat /\ extra <= MaxExtra
      /\ Images(wire) \in Nat
  BY ImagesAreCounted, BoundsAssumption DEF ViewerTypeOK
<1>2. /\ OneIf(length = "image") \in {0, 1} /\ OneIf(length' = "image") = 0
      /\ OneIf(receivedAck) \in {0, 1} /\ OneIf(receivedAck') = OneIf(receivedAck)
      /\ OneIf(length = "image") = 0 <=> length # "image"
  BY DEF OneIf
<1>3. acks' \in {acks, acks + 1}
  BY DEF SendAckMessage
<1>4. \/ extra' = extra /\ (length = "image" \/ extra = MaxExtra)
      \/ extra' = extra + 1
  BY <1>1 DEF SendAckMessage
<1>5. extra' < MaxExtra => extra < MaxExtra
  BY <1>1, <1>4
<1>6. ASSUME extra' < MaxExtra PROVE Ahead' <= 1 + extra'
  <2>1. Ahead <= 1 + extra
    BY <1>5, <1>6, WindowIsAhead
  <2>2. CASE extra' = extra + 1
    BY <1>1, <1>2, <1>3, <2>1, <2>2 DEF Ahead
  <2>3. CASE extra' = extra /\ length = "image"
    BY <1>1, <1>2, <1>3, <2>1, <2>3 DEF Ahead
  <2>4. extra' # extra \/ extra # MaxExtra
    BY <1>1, <1>6
  <2> QED
    BY <1>4, <2>2, <2>3, <2>4
<1> QED
  BY <1>6 DEF Window, Ahead, Images, ImagesIn, OneIf

LEMMA WindowStep == ViewerInv /\ Window /\ [Next]_vars => Window'
<1> SUFFICES ASSUME ViewerInv, Window, [Next]_vars PROVE Window'
  OBVIOUS
<1>0. ViewerTypeOK /\ wire \in Seq(WireItems) /\ << >> \in Seq(WireItems)
  BY ItemsAreItems DEF ViewerInv, ViewerTypeOK
<1>1. /\ acks \in Nat /\ extra \in Nat /\ Images(wire) \in Nat
      /\ OneIf(length = "image") \in {0, 1} /\ OneIf(receivedAck) \in {0, 1}
  BY <1>0, ImagesAreCounted, BoundsAssumption DEF ViewerTypeOK, OneIf
<1>2. wire # << >> =>
        /\ Images(Tail(wire)) \in Nat
        /\ Images(wire) = Images(Tail(wire)) + OneIf(Head(wire) = "image")
        /\ Images(Tail(wire)) <= Images(wire)
        /\ Images(<<"part">> \o Tail(wire)) \in Nat
        /\ Images(<<"part">> \o Tail(wire)) <= Images(wire)
  <2> SUFFICES ASSUME wire # << >>
               PROVE  /\ Images(Tail(wire)) \in Nat
                      /\ Images(wire) = Images(Tail(wire)) + OneIf(Head(wire) = "image")
                      /\ Images(Tail(wire)) <= Images(wire)
                      /\ Images(<<"part">> \o Tail(wire)) \in Nat
                      /\ Images(<<"part">> \o Tail(wire)) <= Images(wire)
    OBVIOUS
  <2>1. Images(Tail(wire)) \in Nat /\ Images(<<"part">> \o Tail(wire)) \in Nat
    BY <1>0, ItemsAreItems, ImagesAreCounted
  <2>2. Images(wire) = Images(Tail(wire)) + OneIf(Head(wire) = "image")
    BY <1>0, ImagesOfTail
  <2>3. Images(<<"part">> \o Tail(wire)) <= Images(wire)
    BY <1>0, ImagesOfCut
  <2>4. OneIf(Head(wire) = "image") \in {0, 1}
    BY DEF OneIf
  <2> QED
    BY <2>1, <2>2, <2>3, <2>4
<1>3. Images(<< >>) \in Nat /\ Images(<< >>) <= Images(wire)
  BY <1>1, NoImages
<1>4. ASSUME UNCHANGED extra, Ahead' <= Ahead, Ahead \in Nat, Ahead' \in Nat
      PROVE  Window'
  <2>1. extra < MaxExtra => Ahead <= 1 + extra
    BY WindowIsAhead
  <2>2. extra' < MaxExtra => Ahead' <= 1 + extra'
    BY <1>1, <1>4, <2>1
  <2> QED
    BY <2>2 DEF Window, Ahead, Images, ImagesIn, OneIf
<1>5. Ahead \in Nat
  BY <1>1 DEF Ahead
<1>6. CASE ConnectService
  <2>1. /\ wire' = << >> /\ length' = "none" /\ acks' = 0 /\ extra' = 0
        /\ OneIf(receivedAck') = 1
    BY <1>6 DEF ConnectService, OneIf
  <2>2. Ahead' <= 1 + extra'
    BY <2>1, NoImages DEF Ahead, OneIf
  <2> QED
    BY <2>2 DEF Window, Ahead, Images, ImagesIn, OneIf
<1>7. CASE ReadLength
  <2>1. /\ wire # << >> /\ wire' = Tail(wire) /\ length' = Head(wire) /\ length = "none"
        /\ UNCHANGED <<acks, extra, receivedAck>>
    BY <1>0, <1>7 DEF ReadLength, Reads, ViewerTypeOK, objectVars
  <2>2. Ahead' = Ahead
    BY <1>1, <1>2, <2>1 DEF Ahead, OneIf
  <2> QED
    BY <1>4, <1>5, <2>1, <2>2
<1>8. CASE MisreadLength \/ ReadPart
  <2>1. /\ wire # << >> /\ wire' = Tail(wire)
        /\ length' = "image" => length = "image"
        /\ UNCHANGED <<acks, extra, receivedAck>>
    BY <1>8 DEF MisreadLength, ReadPart, Reads, objectVars
  <2>2. OneIf(length' = "image") \in {0, 1} /\ OneIf(length' = "image") <= OneIf(length = "image")
    BY <2>1 DEF OneIf
  <2>3. OneIf(Head(wire) = "image") \in {0, 1}
    BY DEF OneIf
  <2>4. Ahead' <= Ahead /\ Ahead' \in Nat
    BY <1>1, <1>2, <2>1, <2>2, <2>3 DEF Ahead
  <2> QED
    BY <1>4, <1>5, <2>1, <2>4
<1>9. CASE ReadLastPart
  <2>1. wire # << >> /\ (wire' = << >> \/ wire' = Tail(wire))
    BY <1>9 DEF ReadLastPart, Reads
  <2>2. Images(wire') \in Nat /\ Images(wire') <= Images(wire)
    <3>1. CASE wire' = << >>
      BY <1>3, <3>1
    <3>2. CASE wire' = Tail(wire)
      BY <1>2, <2>1, <3>2
    <3> QED
      BY <2>1, <3>1, <3>2
  <2>3. SendAckMessage(length # "image") /\ length' = "none" /\ UNCHANGED receivedAck
    BY <1>9 DEF ReadLastPart, AnswerAny, objectVars
  <2> QED
    BY <1>0, <2>2, <2>3, WindowAcks
<1>10. CASE SocketTimeout
  <2>1. wire' = wire \/ (wire # << >> /\ wire' = <<"part">> \o Tail(wire))
    BY <1>10 DEF SocketTimeout
  <2>2. Images(wire') \in Nat /\ Images(wire') <= Images(wire)
    <3>1. CASE wire' = wire
      BY <1>1, <3>1
    <3>2. CASE wire # << >> /\ wire' = <<"part">> \o Tail(wire)
      BY <1>2, <3>2
    <3> QED
      BY <2>1, <3>1, <3>2
  <2>3. SendAckMessage(TRUE) /\ length' = "none" /\ UNCHANGED receivedAck
    BY <1>10 DEF SocketTimeout, objectVars
  <2> QED
    BY <1>0, <2>2, <2>3, WindowAcks
<1>11. CASE SendImage
  <2>1. /\ wire' = wire \o Items("image") /\ receivedAck /\ ~receivedAck'
        /\ UNCHANGED <<length, acks, extra>>
    BY <1>11 DEF SendImage, UseAck, viewerVars
  <2>2. Images(wire') = Images(wire) + 1
    BY <1>0, <2>1, ImagesOfSent DEF Messages, OneIf
  <2>3. OneIf(receivedAck) = 1 /\ OneIf(receivedAck') = 0 /\ OneIf(length' = "image") = OneIf(length = "image")
    BY <2>1 DEF OneIf
  <2>4. /\ Ahead = Images(wire) + OneIf(length = "image") + acks + 1
        /\ Ahead' = Images(wire) + 1 + OneIf(length = "image") + acks + 0
    BY <2>1, <2>2, <2>3 DEF Ahead
  <2>5. Ahead' = Ahead
    BY <1>1, <2>4
  <2> QED
    BY <1>4, <1>5, <2>1, <2>5
<1>12. CASE ReceiveAck
  <2>1. /\ acks' = acks - 1 /\ acks > 0 /\ OneIf(receivedAck') = 1
        /\ UNCHANGED <<wire, length, extra>>
    BY <1>12 DEF ReceiveAck, viewerVars, OneIf
  <2>2. Ahead' <= Ahead /\ Ahead' \in Nat
    BY <1>1, <2>1 DEF Ahead
  <2> QED
    BY <1>4, <1>5, <2>1, <2>2
<1>13. CASE End \/ Break
  <2>1. wire' \in {wire, << >>} /\ UNCHANGED <<length, acks, extra, receivedAck>>
    BY <1>13 DEF End, Break, viewerVars, objectVars
  <2>2. Ahead' <= Ahead /\ Ahead' \in Nat
    BY <1>1, <1>3, <2>1 DEF Ahead
  <2> QED
    BY <1>4, <1>5, <2>1, <2>2
<1>14. ASSUME NEW f \in Fds, HeartbeatTimeout(f) PROVE Window'
  <2>1. (wire' = wire \/ wire' = wire \o Items("beat")) /\ UNCHANGED <<length, acks, extra, receivedAck>>
    BY <1>14 DEF HeartbeatTimeout, viewerVars
  <2>2. Images(wire \o Items("beat")) = Images(wire) + 0
    BY <1>0, ImagesOfSent DEF Messages, OneIf
  <2>3. Images(wire') = Images(wire)
    <3>1. CASE wire' = wire
      BY <3>1
    <3>2. CASE wire' = wire \o Items("beat")
      BY <1>1, <2>2, <3>2
    <3> QED
      BY <2>1, <3>1, <3>2
  <2>4. Ahead' = Ahead
    BY <2>1, <2>3 DEF Ahead
  <2> QED
    BY <1>4, <1>5, <2>1, <2>4
<1>15. CASE EndOfStream
  <2>1. UNCHANGED <<wire, acks, extra, receivedAck>> /\ length' = "none"
    BY <1>15 DEF EndOfStream, netVars, objectVars
  <2>2. OneIf(length' = "image") = 0
    BY <2>1 DEF OneIf
  <2>3. Ahead' <= Ahead /\ Ahead' \in Nat
    BY <1>1, <2>1, <2>2 DEF Ahead
  <2> QED
    BY <1>4, <1>5, <2>1, <2>3
<1>16. CASE UNCHANGED <<wire, length, acks, extra, receivedAck>>
  BY <1>16 DEF Window
<1>17. \/ ConnectService \/ ReadLength \/ MisreadLength \/ ReadPart \/ ReadLastPart \/ SocketTimeout
       \/ SendImage \/ ReceiveAck \/ End \/ Break \/ EndOfStream
       \/ (\E f \in Fds : HeartbeatTimeout(f))
       \/ UNCHANGED <<wire, length, acks, extra, receivedAck>>
  BY DEF Next, Viewer, InitServiceDiscoverySocket, FindService, Deactivate, Destroy, vars,
         viewerVars, netVars, objectVars
<1> QED
  BY <1>6, <1>7, <1>8, <1>9, <1>10, <1>11, <1>12, <1>13, <1>14, <1>15, <1>16, <1>17

(* However timeouts fall and however a length is misread, the server is    *)
(* ahead of the viewer by one image and one more for every acknowledgement *)
(* that no image was answered with (PiVisClient.java:174, 204,             *)
(* pivision_ethtermconnection.cpp:295, 340-348).                           *)
THEOREM WindowOfTheViewer == Spec => []Window
<1>1. Init => Window
  <2> SUFFICES ASSUME Init PROVE Ahead <= 1 + extra
    BY WindowIsAhead
  <2> QED
    BY NoImages DEF Init, Ahead, OneIf
<1>2. ViewerInv /\ [Next]_vars => ViewerInv'
  BY ViewerTypeStep, ObjectsStep, TimersStep DEF ViewerInv
<1> QED
  BY <1>1, <1>2, ViewerInit, WindowStep, PTL DEF Spec
-----------------------------------------------------------------------------
(* Viewer and stream in step.                                              *)

(* What Follows says, of a stream s and a viewer that still wants w parts. *)
Matches(s, w, left) ==
  /\ left[0] = w /\ left[Len(s)] = 0
  /\ \A i \in DOMAIN s :
       IF left[i - 1] = 0 THEN s[i] \in Messages /\ left[i] = PartsOf(s[i])
                          ELSE s[i] = "part" /\ left[i] = left[i - 1] - 1
Whole(s, w) == \E left \in [0..Len(s) -> 0..Parts] : Matches(s, w, left)

LEMMA InStepIsWhole == InStep <=> (state = "CONNECTED" /\ link # "reset" /\ ~cutInside => Whole(wire, want))
BY DEF InStep, Whole, Follows, Matches

LEMMA PartsAreFew ==
  /\ Parts \in Nat \ {0}
  /\ \A m \in Messages : PartsOf(m) \in 1..Parts
<1>1. Parts \in Nat \ {0}
  BY BoundsAssumption
<1> QED
  BY <1>1 DEF PartsOf

LEMMA NothingIsWhole == Whole(<< >>, 0)
<1> DEFINE left == [i \in 0..0 |-> 0]
<1>1. Len(<< >>) = 0 /\ DOMAIN << >> = {}
  OBVIOUS
<1>2. left \in [0..0 -> 0..Parts] /\ left[0] = 0
  BY PartsAreFew
<1> HIDE DEF left
<1>3. Matches(<< >>, 0, left)
  BY <1>1, <1>2 DEF Matches
<1> QED
  BY <1>1, <1>2, <1>3 DEF Whole

(* The viewer's next item is a length exactly if it wants no part; after   *)
(* it the rest is whole.                                                   *)
LEMMA RestIsWhole ==
  ASSUME NEW s \in Seq(WireItems), s # << >>, NEW w, Whole(s, w)
  PROVE  /\ w = 0 => Head(s) \in Messages /\ Whole(Tail(s), PartsOf(Head(s)))
         /\ w # 0 => Head(s) = "part" /\ Whole(Tail(s), w - 1)
<1>1. PICK left \in [0..Len(s) -> 0..Parts] : Matches(s, w, left)
  BY DEF Whole
<1>2. /\ Tail(s) \in Seq(WireItems) /\ Len(s) \in Nat \ {0} /\ Len(Tail(s)) = Len(s) - 1
      /\ Head(s) = s[1] /\ DOMAIN s = 1..Len(s) /\ DOMAIN Tail(s) = 1..(Len(s) - 1)
      /\ \A i \in 1..(Len(s) - 1) : Tail(s)[i] = s[i + 1]
  BY HeadTailProperties, LenProperties, EmptySeq
<1> DEFINE rest == [i \in 0..Len(Tail(s)) |-> left[i + 1]]
<1>3. rest \in [0..Len(Tail(s)) -> 0..Parts]
  BY <1>2
<1>4. /\ rest[0] = left[1] /\ rest[Len(Tail(s))] = left[Len(s)]
      /\ \A i \in 1..(Len(s) - 1) : rest[i - 1] = left[i] /\ rest[i] = left[i + 1]
  BY <1>2
<1> HIDE DEF rest
<1>5. \A i \in 1..Len(s) :
        IF left[i - 1] = 0 THEN s[i] \in Messages /\ left[i] = PartsOf(s[i])
                           ELSE s[i] = "part" /\ left[i] = left[i - 1] - 1
  BY <1>1, <1>2 DEF Matches
<1>6. \A i \in 1..(Len(s) - 1) :
        IF rest[i - 1] = 0 THEN Tail(s)[i] \in Messages /\ rest[i] = PartsOf(Tail(s)[i])
                           ELSE Tail(s)[i] = "part" /\ rest[i] = rest[i - 1] - 1
  <2> TAKE i \in 1..(Len(s) - 1)
  <2>1. i + 1 \in 1..Len(s) /\ (i + 1) - 1 = i
    BY <1>2
  <2> QED
    BY <1>2, <1>4, <1>5, <2>1
<1>7. Matches(Tail(s), left[1], rest)
  BY <1>1, <1>2, <1>4, <1>6 DEF Matches
<1>8. Whole(Tail(s), left[1])
  BY <1>3, <1>7 DEF Whole
<1>9. left[0] = w /\ 1 \in 1..Len(s) /\ 1 - 1 = 0
  BY <1>1, <1>2 DEF Matches
<1> QED
  BY <1>2, <1>5, <1>8, <1>9

(* A whole message behind what is whole.                                   *)
LEMMA SentIsWhole ==
  ASSUME NEW s \in Seq(WireItems), NEW w, Whole(s, w), NEW m \in Messages
  PROVE  Whole(s \o Items(m), w)
<1>1. PICK left \in [0..Len(s) -> 0..Parts] : Matches(s, w, left)
  BY DEF Whole
<1>2. /\ DOMAIN s = 1..Len(s) /\ Len(s) \in Nat
      /\ Items(m) \in Seq(WireItems) /\ Len(Items(m)) = 1 + PartsOf(m)
      /\ Items(m)[1] = m
      /\ \A i \in 2..(1 + PartsOf(m)) : Items(m)[i] = "part"
  BY ItemsAreItems, ItemsInOrder, LenProperties
<1> DEFINE n == Len(s) + 1 + PartsOf(m)
           long == [i \in 0..n |-> IF i <= Len(s) THEN left[i] ELSE n - i]
<1>3. PartsOf(m) \in 1..Parts /\ Parts \in Nat /\ m # "part"
  BY PartsAreFew DEF Messages
<1>4. n \in Nat /\ n > Len(s) + 1
  BY <1>2, <1>3
<1>5. /\ Len(s \o Items(m)) = n /\ DOMAIN (s \o Items(m)) = 1..n
      /\ \A i \in 1..n : (s \o Items(m))[i] =
           IF i <= Len(s) THEN s[i] ELSE IF i = Len(s) + 1 THEN m ELSE "part"
  <2>1. /\ Len(s \o Items(m)) = n /\ s \o Items(m) \in Seq(WireItems)
        /\ \A i \in 1..n : (s \o Items(m))[i] = IF i <= Len(s) THEN s[i] ELSE Items(m)[i - Len(s)]
    BY <1>2, <1>3, ConcatProperties
  <2>2. \A i \in 1..n : i > Len(s) /\ i # Len(s) + 1 => i - Len(s) \in 2..(1 + PartsOf(m))
    BY <1>2, <1>3
  <2>3. \A i \in 1..n : i > Len(s) => Items(m)[i - Len(s)] = IF i = Len(s) + 1 THEN m ELSE "part"
    <3> TAKE i \in 1..n
    <3>1. CASE i = Len(s) + 1
      <4>1. i - Len(s) = 1
        BY <1>2, <3>1
      <4> QED
        BY <1>2, <3>1, <4>1
    <3>2. CASE i # Len(s) + 1
      BY <1>2, <2>2, <3>2
    <3> QED
      BY <3>1, <3>2
  <2>4. \A i \in 1..n : i <= Len(s) \/ i > Len(s)
    BY <1>2, <1>4
  <2>5. DOMAIN (s \o Items(m)) = 1..n
    BY <2>1, LenProperties
  <2> HIDE DEF n
  <2> QED
    BY <1>2, <1>4, <2>1, <2>3, <2>4, <2>5
<1>6. long \in [0..n -> 0..Parts]
  <2>1. ASSUME NEW i \in 0..n, ~(i <= Len(s))
        PROVE  n - i \in 0..Parts
    BY <1>2, <1>3, <2>1
  <2>2. ASSUME NEW i \in 0..n, i <= Len(s)
        PROVE  left[i] \in 0..Parts
    BY <1>2, <2>2
  <2> HIDE DEF n
  <2> QED
    BY <2>1, <2>2
<1>7. /\ long[0] = left[0] /\ long[n] = 0
      /\ \A i \in 1..Len(s) : long[i - 1] = left[i - 1] /\ long[i] = left[i]
      /\ long[Len(s)] = left[Len(s)] /\ long[Len(s) + 1] = PartsOf(m)
      /\ \A i \in (Len(s) + 2)..n : long[i - 1] = n - i + 1 /\ long[i] = n - i
  <2>1. ASSUME NEW i \in 0..Len(s)
        PROVE  long[i] = left[i]
    BY <1>2, <1>4, i \in 0..n
  <2>2. ASSUME NEW i \in (Len(s) + 1)..n
        PROVE  long[i] = n - i
    BY <1>2, <1>4, i \in 0..n
  <2>3. 0 \in 0..Len(s) /\ Len(s) \in 0..Len(s) /\ n \in (Len(s) + 1)..n /\ Len(s) + 1 \in (Len(s) + 1)..n
    BY <1>2, <1>4
  <2>4. n - n = 0 /\ n - (Len(s) + 1) = PartsOf(m)
    BY <1>2, <1>3
  <2>5. \A i \in 1..Len(s) : i - 1 \in 0..Len(s) /\ i \in 0..Len(s)
    BY <1>2
  <2>6. \A i \in (Len(s) + 2)..n :
          i - 1 \in (Len(s) + 1)..n /\ i \in (Len(s) + 1)..n /\ n - (i - 1) = n - i + 1
    BY <1>2, <1>4
  <2> HIDE DEF long, n
  <2> QED
    BY <2>1, <2>2, <2>3, <2>4, <2>5, <2>6
<1> HIDE DEF long
<1>8. \A i \in 1..n :
        IF long[i - 1] = 0 THEN (s \o Items(m))[i] \in Messages /\ long[i] = PartsOf((s \o Items(m))[i])
                           ELSE (s \o Items(m))[i] = "part" /\ long[i] = long[i - 1] - 1
  <2> TAKE i \in 1..n
  <2>1. CASE i <= Len(s)
    <3>1. i \in DOMAIN s /\ (s \o Items(m))[i] = s[i]
      BY <1>2, <1>5, <2>1
    <3>2. IF left[i - 1] = 0 THEN s[i] \in Messages /\ left[i] = PartsOf(s[i])
                             ELSE s[i] = "part" /\ left[i] = left[i - 1] - 1
      BY <1>1, <3>1 DEF Matches
    <3>3. long[i - 1] = left[i - 1] /\ long[i] = left[i]
      BY <1>2, <1>7, <3>1
    <3> QED
      BY <3>1, <3>2, <3>3, Zenon
  <2>2. CASE i = Len(s) + 1
    <3>1. i - 1 = Len(s) /\ (s \o Items(m))[i] = m
      BY <1>2, <1>5, <2>2
    <3>2. long[i - 1] = 0
      BY <1>1, <1>7, <3>1 DEF Matches
    <3> QED
      BY <1>7, <2>2, <3>1, <3>2
  <2>3. CASE i > Len(s) + 1
    <3>1. i \in (Len(s) + 2)..n /\ (s \o Items(m))[i] = "part"
      BY <1>2, <1>4, <1>5, <2>3
    <3>2. long[i - 1] = n - i + 1 /\ long[i] = n - i /\ n - i + 1 # 0 /\ n - i = (n - i + 1) - 1
      BY <1>4, <1>7, <3>1
    <3> QED
      BY <3>1, <3>2
  <2>4. i <= Len(s) \/ i = Len(s) + 1 \/ i > Len(s) + 1
    BY <1>2, <1>4
  <2> QED
    BY <2>1, <2>2, <2>3, <2>4
<1>9. Matches(s \o Items(m), w, long)
  BY <1>1, <1>5, <1>7, <1>8 DEF Matches
<1> HIDE DEF n
<1> QED
  BY <1>5, <1>6, <1>9 DEF Whole

(* Wherever a timeout may fall, a step keeps viewer and stream in step or  *)
(* cuts a message.                                                         *)
LEMMA InStepStep == ViewerInv /\ InStep /\ [Next]_vars => InStep'
<1> SUFFICES ASSUME ViewerInv, InStep, [Next]_vars,
                    state' = "CONNECTED", link' # "reset", ~cutInside'
             PROVE  Whole(wire', want')
  BY DEF InStep, Whole, Follows, Matches
<1>0. wire \in Seq(WireItems) /\ want \in Nat /\ (want = 0 <=> length = "none")
  BY DEF ViewerInv, ViewerTypeOK
<1>1. ASSUME state = "CONNECTED", link # "reset", ~cutInside
      PROVE  Whole(wire, want)
  BY <1>1, InStepIsWhole
<1>2. CASE ConnectService
  BY <1>2, NothingIsWhole DEF ConnectService
<1>3. CASE ReadLength
  <2>1. /\ state = "CONNECTED" /\ link # "reset" /\ ~cutInside /\ want = 0 /\ wire # << >>
        /\ wire' = Tail(wire) /\ want' = PartsOf(Head(wire))
    BY <1>3 DEF ReadLength, Reads, ToRead
  <2> QED
    BY <1>0, <1>1, <2>1, RestIsWhole
<1>4. CASE MisreadLength
  <2>1. state = "CONNECTED" /\ link # "reset" /\ ~cutInside /\ want = 0 /\ wire # << >> /\ Head(wire) = "part"
    BY <1>4 DEF MisreadLength, Reads
  <2>2. Head(wire) \in Messages
    BY <1>0, <1>1, <2>1, RestIsWhole
  <2> QED
    BY <2>1, <2>2 DEF Messages
<1>5. CASE ReadPart
  <2>1. /\ state = "CONNECTED" /\ link # "reset" /\ ~cutInside /\ want # 0 /\ wire # << >>
        /\ wire' = Tail(wire) /\ want' = want - 1
    BY <1>5 DEF ReadPart, Reads
  <2> QED
    BY <1>0, <1>1, <2>1, RestIsWhole
<1>6. CASE ReadLastPart
  <2>1. /\ state = "CONNECTED" /\ link # "reset" /\ ~cutInside /\ want = 1 /\ wire # << >>
        /\ wire' = Tail(wire) /\ want' = want - 1
    BY <1>6 DEF ReadLastPart, Reads
  <2> QED
    BY <1>0, <1>1, <2>1, RestIsWhole
<1>7. CASE SocketTimeout
  <2>1. /\ state = "CONNECTED" /\ link # "reset" /\ ~cutInside /\ ~(want > 0)
        /\ wire' = wire /\ want' = 0
    BY <1>7 DEF SocketTimeout
  <2> QED
    BY <1>0, <1>1, <2>1
<1>8. CASE EndOfStream
  BY <1>8 DEF EndOfStream, StartAgain
<1>9. CASE SendImage
  <2>1. wire' = wire \o Items("image") /\ UNCHANGED <<state, link, cutInside, want>>
    BY <1>9 DEF SendImage, viewerVars
  <2> QED
    BY <1>0, <1>1, <2>1, SentIsWhole DEF Messages
<1>10. ASSUME NEW f \in Fds, HeartbeatTimeout(f) PROVE Whole(wire', want')
  <2>1. /\ wire' = wire \o Items("beat") \/ wire' = wire
        /\ UNCHANGED <<state, want, cutInside, link>>
    BY <1>10 DEF HeartbeatTimeout, viewerVars
  <2>2. Whole(wire, want)
    BY <1>1, <2>1
  <2>3. Whole(wire \o Items("beat"), want)
    BY <1>0, <2>2, SentIsWhole DEF Messages
  <2> QED
    BY <2>1, <2>2, <2>3
<1>11. CASE End
  <2>1. link = "open" /\ wire' = wire /\ UNCHANGED <<state, cutInside, want>>
    BY <1>11 DEF End, viewerVars
  <2> QED
    BY <1>1, <2>1
<1>12. CASE InitServiceDiscoverySocket \/ FindService
  BY <1>12 DEF InitServiceDiscoverySocket, FindService
<1>13. CASE Break
  BY <1>13 DEF Break
<1>14. CASE UNCHANGED <<state, link, cutInside, wire, want>>
  BY <1>1, <1>14
<1>15. UNCHANGED <<state, link, cutInside, wire, want>>
         \/ InitServiceDiscoverySocket \/ FindService \/ ConnectService
         \/ ReadLength \/ MisreadLength \/ ReadPart \/ ReadLastPart \/ SocketTimeout \/ EndOfStream
         \/ SendImage \/ End \/ Break \/ (\E f \in Fds : HeartbeatTimeout(f))
  BY DEF Next, Viewer, ReceiveAck, Deactivate, Destroy, vars, viewerVars, netVars
<1> QED
  BY <1>2, <1>3, <1>4, <1>5, <1>6, <1>7, <1>8, <1>9, <1>10, <1>11, <1>12, <1>13, <1>14, <1>15

(* As long as no timeout falls inside a message, whatever the server and   *)
(* its timers send and in whatever pieces the viewer reads it, a length is *)
(* read as a length and a part of a message as part of that message        *)
(* (PiVisClient.java:156-161, :199-205).                                   *)
THEOREM ViewerInStep == Spec => []InStep
<1>1. Init => InStep
  BY DEF Init, InStep
<1>2. ViewerInv /\ [Next]_vars => ViewerInv'
  BY ViewerTypeStep, ObjectsStep, TimersStep DEF ViewerInv
<1> QED
  BY <1>1, <1>2, ViewerInit, InStepStep, PTL DEF Spec
=============================================================================
