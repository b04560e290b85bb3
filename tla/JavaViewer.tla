----------------------------- MODULE JavaViewer -----------------------------
(***************************************************************************)
(* The viewer in Java (PiVisClient.java) and the objects that serve it,    *)
(* one PiVisionEthTermConnection after the other.                          *)
(*                                                                         *)
(* The viewer reads a stream: a length, then as many bytes, with a timeout *)
(* of a second that forgets what was read so far.  It acknowledges         *)
(* whatever it reads, and each timeout too.  An object's heartbeat timer   *)
(* carries its file descriptor, which the next object may get while the    *)
(* timer of the last one is pending.                                       *)
(*                                                                         *)
(* An item of the stream is a length, named after its message, or a part   *)
(* of a payload: Parts of them make an image, one a heartbeat.             *)
(* EthTermConnection has the two threads of an object; here each of its    *)
(* calls is one step.                                                      *)
(***************************************************************************)
EXTENDS Integers, FiniteSets, Sequences

CONSTANTS Parts,
          WireSize,      \* bound: items on the way to the viewer
          AckRoom,       \* bound: acknowledgements on the way to the server
          MaxExtra,      \* bound: acknowledgements without an image that are counted
          MaxGarbage,    \* bound: parts that a misread length asks for
          MaxObjects,    \* bound: connections of the viewer
          MaxTimeouts,   \* bound: timeouts of the viewer
          Fds            \* file descriptors

ASSUME BoundsAssumption ==
  /\ {Parts, WireSize, AckRoom, MaxObjects} \subseteq Nat \ {0}
  /\ {MaxExtra, MaxGarbage, MaxTimeouts} \subseteq Nat

ASSUME FdsAssumption == Fds # {}

VARIABLES state,        \* of the viewer
          want,         \* parts it has still to read of this message
          length,       \* the length it has read
          timeouts,
          cutInside,    \* history: a timeout fell inside a message of this connection
          link,         \* the connection, as the viewer's socket sees it
          wire,         \* items sent and not read
          acks,         \* acknowledgements on the way to the server
          extra,        \* history: those of this connection without an image
          receivedAck,  \* of the object
          made,         \* objects so far; the last one has the connection
          object,       \* the life of every object
          fd,
          lastHeartbeatReceived,
          timers        \* pending heartbeat timeouts of a descriptor

viewerVars == <<state, want, length, timeouts, cutInside>>
netVars == <<link, wire, acks, extra>>
timerVars == <<lastHeartbeatReceived, timers>>
objectVars == <<receivedAck, made, object, fd, timerVars>>
vars == <<viewerVars, netVars, objectVars>>

Objects == 1..MaxObjects
Messages == {"image", "beat"}
PartsOf(m) == IF m = "image" THEN Parts ELSE 1
Repeat(n) == [i \in 1..n |-> "part"]
Items(m) == <<m>> \o Repeat(PartsOf(m))
With(f) == {n \in Objects : object[n] # "none" /\ fd[n] = f}

Init == /\ state = "INIT_SERVICE_DISCOVERY_SOCKET"
        /\ want = 0 /\ length = "none"
        /\ timeouts = 0 /\ cutInside = FALSE
        /\ link = "closed" /\ wire = <<>> /\ acks = 0 /\ extra = 0
        /\ receivedAck = TRUE
        /\ made = 0
        /\ object = [n \in Objects |-> "none"]
        /\ fd \in [Objects -> {CHOOSE f \in Fds : TRUE}]
        /\ lastHeartbeatReceived = {}
        /\ timers = [f \in Fds |-> 0]
-----------------------------------------------------------------------------
(* The viewer looks for the service and connects; a failed attempt changes *)
(* nothing.                                                                *)

InitServiceDiscoverySocket ==
  /\ state = "INIT_SERVICE_DISCOVERY_SOCKET" /\ state' = "FIND_SERVICE"
  /\ UNCHANGED <<want, length, timeouts, cutInside, netVars, objectVars>>

FindService ==
  /\ state = "FIND_SERVICE" /\ state' = "CONNECT_SERVICE"
  /\ UNCHANGED <<want, length, timeouts, cutInside, netVars, objectVars>>

(* The listener makes an object for the accepted socket, with a timer.     *)
ConnectService ==
  /\ state = "CONNECT_SERVICE" /\ made < MaxObjects
  /\ state' = "CONNECTED" /\ want' = 0 /\ length' = "none" /\ cutInside' = FALSE
  /\ link' = "open" /\ wire' = <<>> /\ acks' = 0 /\ extra' = 0
  /\ receivedAck' = TRUE
  /\ made' = made + 1
  /\ object' = [object EXCEPT ![made + 1] = "active"]
  /\ \E f \in Fds :
       /\ \A n \in With(f) : object[n] \in {"ended", "destroyed"}
       /\ fd' = [fd EXCEPT ![made + 1] = f]
       /\ timers' = [timers EXCEPT ![f] = @ + 1]
  /\ UNCHANGED <<timeouts, lastHeartbeatReceived>>
-----------------------------------------------------------------------------
(* The viewer is connected                                                 *)

(* sendAckMessage(); a server that has closed may answer with a reset.     *)
SendAckMessage(isExtra) ==
  /\ extra' = IF isExtra /\ extra < MaxExtra THEN extra + 1 ELSE extra
  /\ \/ link = "open" /\ acks < AckRoom /\ acks' = acks + 1 /\ UNCHANGED link
     \/ link = "closed" /\ link' \in {"closed", "reset"} /\ UNCHANGED acks

Reads(isLength) ==
  /\ state = "CONNECTED" /\ link # "reset" /\ wire # <<>>
  /\ isLength <=> want = 0

(* A plausible wrong test: a heartbeat is a length and nothing else.       *)
ToReadOfImage(m) == IF m = "image" THEN Parts ELSE 0
ToRead(m) == PartsOf(m)

ReadLength ==
  /\ Reads(TRUE) /\ Head(wire) \in Messages
  /\ length' = Head(wire) /\ want' = ToRead(length')
  /\ wire' = Tail(wire)
  /\ UNCHANGED <<state, timeouts, cutInside, link, acks, extra, objectVars>>

(* Part of a payload taken for a length: a negative one is skipped, a      *)
(* large one is waited for, or too large for the memory, which ends the    *)
(* thread.                                                                 *)
MisreadLength ==
  /\ Reads(TRUE) /\ Head(wire) = "part"
  /\ \/ \E n \in 0..MaxGarbage :
          want' = n /\ length' = (IF n = 0 THEN "none" ELSE "garbage") /\ UNCHANGED state
     \/ state' = "dead" /\ UNCHANGED <<want, length>>
  /\ wire' = Tail(wire)
  /\ UNCHANGED <<timeouts, cutInside, link, acks, extra, objectVars>>

ReadPart ==
  /\ Reads(FALSE) /\ want > 1
  /\ want' = want - 1
  /\ wire' = Tail(wire)
  /\ UNCHANGED <<state, length, timeouts, cutInside, link, acks, extra, objectVars>>

AnswerAny == SendAckMessage(length # "image")

(* The message is whole.                                                   *)
ReadLastPart ==
  /\ Reads(FALSE) /\ want = 1
  /\ want' = 0 /\ length' = "none"
  /\ AnswerAny
  /\ wire' = IF link' = "reset" THEN <<>> ELSE Tail(wire)
  /\ UNCHANGED <<state, timeouts, cutInside, objectVars>>

(* A timeout forgets a length that was read, or some of its bytes, and     *)
(* acknowledges nothing in particular.                                     *)
SocketTimeout ==
  /\ state = "CONNECTED" /\ link = "open" /\ timeouts < MaxTimeouts
  /\ timeouts' = timeouts + 1
  /\ want' = 0 /\ length' = "none"
  /\ SendAckMessage(TRUE)
  /\ \/ /\ cutInside' = (cutInside \/ want > 0)
        /\ UNCHANGED wire
     \/ /\ want = 0 /\ wire # <<>>
        /\ cutInside' = TRUE
        /\ wire' = <<"part">> \o Tail(wire)
  /\ UNCHANGED <<state, objectVars>>

(* Plausible and wrong: the exception leaves the viewer CONNECTED.         *)
StayConnected == UNCHANGED state
StartAgain == state' = "INIT_SERVICE_DISCOVERY_SOCKET"

(* The end of the stream; any other exception leaves the viewer as it is.  *)
EndOfStream ==
  /\ state = "CONNECTED" /\ link = "closed" /\ wire = <<>>
  /\ StartAgain
  /\ want' = 0 /\ length' = "none"
  /\ UNCHANGED <<timeouts, cutInside, netVars, objectVars>>
-----------------------------------------------------------------------------
(* The object that has the connection                                      *)

Active == made > 0 /\ object[made] = "active"
Fits(m) == link = "open" /\ Len(wire) + Len(Items(m)) <= WireSize

(* A plausible wrong one: the acknowledgement is not used up.              *)
KeepAck == UNCHANGED receivedAck
UseAck == receivedAck' = FALSE

SendImage ==
  /\ Active /\ receivedAck /\ Fits("image")
  /\ UseAck
  /\ wire' = wire \o Items("image")
  /\ UNCHANGED <<viewerVars, link, acks, extra, made, object, fd, timerVars>>

ReceiveAck ==
  /\ Active /\ acks > 0
  /\ acks' = acks - 1 /\ receivedAck' = TRUE
  /\ UNCHANGED <<viewerVars, link, wire, extra, made, object, fd, timerVars>>

(* A stop event, or a failed or silent connection.                         *)
Deactivate ==
  /\ Active
  /\ object' = [object EXCEPT ![made] = "stopping"]
  /\ UNCHANGED <<viewerVars, netVars, receivedAck, made, fd, timerVars>>

(* Execute() returns; unread acknowledgements make its close() a reset.    *)
End ==
  /\ made > 0 /\ object[made] = "stopping"
  /\ object' = [object EXCEPT ![made] = "ended"]
  /\ link' = IF link = "open" /\ acks = 0 THEN "closed" ELSE "reset"
  /\ wire' = IF link' = "closed" THEN wire ELSE <<>>
  /\ UNCHANGED <<viewerVars, acks, extra, receivedAck, made, fd, timerVars>>

Break == /\ link = "open"
         /\ link' = "reset" /\ wire' = <<>>
         /\ UNCHANGED <<viewerVars, acks, extra, objectVars>>
-----------------------------------------------------------------------------
(* The heartbeat timers                                                    *)

Living(f) == {n \in With(f) : object[n] = "active"}

(* Who starts the timer again.  Plausible wrong ones: whoever gets it, and *)
(* nobody as soon as one object has ended with it.                         *)
AnyRestarts(f) == {n \in With(f) : object[n] # "destroyed"}
NoneRestarts(f) == IF AnyRestarts(f) = Living(f) THEN Living(f) ELSE {}
Restarts(f) == Living(f)

(* All objects get the event and compare the descriptor: one that is       *)
(* active sends a heartbeat, one that is not takes it for its last.        *)
HeartbeatTimeout(f) ==
  /\ timers[f] > 0
  /\ timers' = [timers EXCEPT ![f] = @ - 1 + Cardinality(Restarts(f))]
  /\ lastHeartbeatReceived' = lastHeartbeatReceived \cup
                              {n \in With(f) : object[n] \in {"stopping", "ended"}}
  /\ \/ Living(f) # {} /\ Fits("beat") /\ wire' = wire \o Items("beat")
     \/ (Living(f) = {} \/ link # "open") /\ UNCHANGED wire
  /\ UNCHANGED <<viewerVars, link, acks, extra, receivedAck, made, object, fd>>

Destroy(n) ==
  /\ object[n] = "ended" /\ n \in lastHeartbeatReceived
  /\ object' = [object EXCEPT ![n] = "destroyed"]
  /\ UNCHANGED <<viewerVars, netVars, receivedAck, made, fd, timerVars>>
-----------------------------------------------------------------------------
Viewer == \/ InitServiceDiscoverySocket \/ FindService \/ ConnectService
          \/ ReadLength \/ MisreadLength \/ ReadPart \/ ReadLastPart \/ EndOfStream

Next == \/ Viewer \/ SocketTimeout
        \/ SendImage \/ ReceiveAck \/ Deactivate \/ End \/ Break
        \/ \E f \in Fds : HeartbeatTimeout(f)
        \/ \E n \in Objects : Destroy(n)

Spec == Init /\ [][Next]_vars

(* The viewer's thread, the object's threads and the timers go on; a       *)
(* Send() that waits for room gets it before the next one, which waits for *)
(* sendMutex; an object notices a connection that is reset.                *)
FairSpec == /\ Spec
            /\ WF_vars(Viewer) /\ WF_vars(ReceiveAck) /\ WF_vars(End)
            /\ WF_vars(link = "reset" /\ Deactivate)
            /\ \A f \in Fds : SF_vars(HeartbeatTimeout(f))
            /\ \A n \in Objects : WF_vars(Destroy(n))
-----------------------------------------------------------------------------
TypeOK ==
  /\ state \in {"INIT_SERVICE_DISCOVERY_SOCKET", "FIND_SERVICE", "CONNECT_SERVICE",
                "CONNECTED", "dead"}
  /\ want \in Nat /\ length \in Messages \cup {"none", "garbage"}
  /\ want = 0 <=> length = "none"
  /\ timeouts \in 0..MaxTimeouts /\ cutInside \in BOOLEAN
  /\ link \in {"open", "closed", "reset"}
  /\ wire \in Seq(Messages \cup {"part"}) /\ Len(wire) <= WireSize
  /\ acks \in 0..AckRoom /\ extra \in 0..MaxExtra /\ receivedAck \in BOOLEAN
  /\ made \in 0..MaxObjects
  /\ object \in [Objects -> {"none", "active", "stopping", "ended", "destroyed"}]
  /\ fd \in [Objects -> Fds] /\ lastHeartbeatReceived \subseteq Objects
  /\ timers \in [Fds -> 0..MaxObjects]

(* What is still to read of a message after each item on the way, if the   *)
(* first ones are the rest of the viewer's and whole messages follow.      *)
Follows(left) ==
  /\ left[0] = want /\ left[Len(wire)] = 0
  /\ \A i \in DOMAIN wire :
       IF left[i - 1] = 0 THEN wire[i] \in Messages /\ left[i] = PartsOf(wire[i])
                          ELSE wire[i] = "part" /\ left[i] = left[i - 1] - 1

(* Unless a timeout has fallen inside a message, the viewer takes lengths  *)
(* for lengths and pixels for pixels: what is on the way is the rest of    *)
(* its message and whole ones (PiVisClient.java:156-161, :199-205).        *)
InStep ==
  state = "CONNECTED" /\ link # "reset" /\ ~cutInside =>
    \E left \in [0..Len(wire) -> 0..Parts] : Follows(left)

(* Images, acknowledgements and the object's flag are together one, and    *)
(* one more for every acknowledgement of a heartbeat or a timeout: by so   *)
(* many images the server may be ahead (PiVisClient.java:174, :204,        *)
(* pivision_ethtermconnection.cpp:295, :340-348).                          *)
Window ==
  LET images == Cardinality({i \in DOMAIN wire : wire[i] = "image"}) + (IF length = "image" THEN 1 ELSE 0)
      flag == IF receivedAck THEN 1 ELSE 0
  IN  extra < MaxExtra => images + acks + flag <= 1 + extra

(* An object that is not destroyed has a timer that will let it, although  *)
(* other objects take part in timers of its descriptor (:75-80, :361-379). *)
WaitedForTimer ==
  \A n \in Objects : object[n] \in {"active", "stopping", "ended"} =>
    n \in lastHeartbeatReceived \/ timers[fd[n]] > 0

(* A viewer that comes back soon gets heartbeats of the timers of earlier  *)
(* objects too, but of no more timers than objects had the descriptor      *)
(* (:64-65, :371).                                                         *)
TimersOfObjects == \A f \in Fds : timers[f] <= Cardinality(With(f))

(* All values are of their types, and the timers are those the objects     *)
(* need.                                                                   *)
TimersInOrder == TypeOK /\ WaitedForTimer /\ TimersOfObjects

(* An object that has ended is destroyed, unless a Send() of the next one  *)
(* keeps the timers: it has no timeout and waits for a viewer whose thread *)
(* has ended (:76-80, :200).                                               *)
EndedIsDestroyed ==
  \A n \in Objects : object[n] = "ended" ~> object[n] = "destroyed" \/ state = "dead"

(* When its server closes, the viewer looks for a service again, unless    *)
(* an acknowledgement turns the close into a reset, which leaves it        *)
(* CONNECTED for ever (PiVisClient.java:185-214).                          *)
ViewerReturns ==
  state = "CONNECTED" /\ link = "closed" ~> state # "CONNECTED" \/ link = "reset"

(* Both sides get away from a connection that has ended.                   *)
BothSidesGetAway == EndedIsDestroyed /\ ViewerReturns
=============================================================================
