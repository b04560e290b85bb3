------------------------- MODULE EthTermConnection -------------------------
(***************************************************************************)
(* A connection of the C++ program: two PiVisionEthTermConnection objects, *)
(* or one that is connected to the Python camera server.                   *)
(*                                                                         *)
(* An object is used by two threads: the job thread runs Execute(), and    *)
(* the event dispatcher (external) calls HandleEvent(), one call at a      *)
(* time.  `active', `receivedAck' and `isInSameProcess' are shared by the  *)
(* two without a lock.  A Send() holds sendMutex and blocks while TCP has  *)
(* no room.  Images go from the server to the client: every event with     *)
(* image data is raised for PIVISION_SERVER (pivision_framecoord.cpp:54,   *)
(* pivision_grayscaleimagejob.cpp:81).  ackEnabled is TRUE from the        *)
(* constructor on and is left out.                                         *)
(*                                                                         *)
(* A message is whole or cut short; it is cut when its connection ends.    *)
(***************************************************************************)
EXTENDS Integers, Sequences, SequencesExt

CONSTANTS MaxFrames,    \* bound: images that the server is offered room for
          WireSize      \* bound: messages TCP holds in one direction

ASSUME MaxFramesAssumption == MaxFrames \in Nat
ASSUME WireSizeAssumption == WireSize \in Nat \ {0}

VARIABLES server,       \* what the client is connected to; never changes
          link,         \* the connection, as each end's socket sees it
          wire,         \* messages that an end has not read yet
          active,
          pc,           \* the place in Execute(), and after it
          handler,      \* what HandleEvent() is about to send
          lastHeartbeatReceived,
          receivedAck,  \* of the server's object
          isInSameProcess,
          sentPid,      \* of the client's object
          accepted,     \* number of the last image taken by the server
          published     \* images raised as events in the client's process

vars == <<server, link, wire, active, pc, handler, lastHeartbeatReceived,
          receivedAck, isInSameProcess, sentPid, accepted, published>>

Ends == {"server", "client"}
Peer(e) == IF e = "server" THEN "client" ELSE "server"

Message(k, n) == [kind |-> k, frame |-> n]
Data(n) == Message("data", n)
Ack == Message("ack", 0)
Heartbeat == Message("heartbeat", 0)
Pid == Message("pid", 0)
Cut == Message("cut", 0)
CutFrame == 0      \* an image of which only a part was received

Init ==
  /\ server \in {"remote", "local", "camera"}
  /\ link = [e \in Ends |-> "open"]
  /\ wire = [e \in Ends |-> << >>]
  /\ active = [e \in Ends |-> e = "client" \/ server # "camera"]
  /\ pc = [e \in Ends |-> IF active[e] THEN "start" ELSE "destroyed"]
  /\ handler = [e \in Ends |-> "idle"]
  /\ lastHeartbeatReceived = [e \in Ends |-> ~active[e]]
  /\ receivedAck = TRUE
  /\ isInSameProcess = FALSE
  /\ sentPid = FALSE
  /\ accepted = 0
  /\ published = << >>
-----------------------------------------------------------------------------
(* Send(): to a peer that has closed the bytes are taken and lost, and may *)
(* be answered by a reset; on a reset connection the attempts run out.     *)
Transmit(e, m) ==
  \/ /\ link[e] = "open"
     /\ Len(wire[Peer(e)]) < WireSize
     /\ wire' = [wire EXCEPT ![Peer(e)] = Append(@, m)]
     /\ UNCHANGED <<link, active>>
  \/ /\ link[e] = "closed"
     /\ \E l \in {"closed", "reset"} : link' = [link EXCEPT ![e] = l]
     /\ UNCHANGED <<wire, active>>
  \/ /\ link[e] = "reset"
     /\ active' = [active EXCEPT ![e] = FALSE]
     /\ UNCHANGED <<wire, link>>

(* What a Send() of e that is under way leaves when the connection ends.   *)
Begun(e) ==
  IF link[e] = "open" /\ (\/ handler[e] # "idle" \/ pc[e] = "ack"
                          \/ e = "server" /\ server = "camera")
    THEN {<< >>, <<Cut>>} ELSE {<< >>}
-----------------------------------------------------------------------------
(* HandleEvent(): an image                                                 *)

(* An inactive object is not subscribed any more.  An image that finds no  *)
(* acknowledgement is skipped, which changes nothing.                      *)
MayTakeFrame ==
  /\ active["server"] /\ handler["server"] = "idle"
  /\ accepted < MaxFrames

(* A plausible wrong one: receivedAck is cleared after the send only.      *)
AcceptFrameStillAcked ==
  /\ MayTakeFrame
  /\ receivedAck /\ ~isInSameProcess
  /\ accepted' = accepted + 1
  /\ handler' = [handler EXCEPT !["server"] = "data"]
  /\ UNCHANGED <<server, link, wire, active, pc, lastHeartbeatReceived,
                 receivedAck, isInSameProcess, sentPid, published>>

AcceptFrame ==
  /\ MayTakeFrame
  /\ receivedAck /\ ~isInSameProcess
  /\ accepted' = accepted + 1
  /\ receivedAck' = FALSE
  /\ handler' = [handler EXCEPT !["server"] = "data"]
  /\ UNCHANGED <<server, link, wire, active, pc, lastHeartbeatReceived,
                 isInSameProcess, sentPid, published>>

(* In the client's own process the image is raised as an event at once.    *)
ShortcutFrame ==
  /\ MayTakeFrame
  /\ isInSameProcess
  /\ accepted' = accepted + 1
  /\ published' = Append(published, accepted + 1)
  /\ UNCHANGED <<server, link, wire, active, pc, handler, lastHeartbeatReceived,
                 receivedAck, isInSameProcess, sentPid>>

(* A plausible wrong one: the image is not the one that was accepted.      *)
SendNextFrame ==
  /\ handler["server"] = "data"
  /\ Transmit("server", Data(accepted + 1))
  /\ handler' = [handler EXCEPT !["server"] = "idle"]
  /\ UNCHANGED <<server, pc, lastHeartbeatReceived, receivedAck,
                 isInSameProcess, sentPid, accepted, published>>

SendFrame ==
  /\ handler["server"] = "data"
  /\ Transmit("server", Data(accepted))
  /\ handler' = [handler EXCEPT !["server"] = "idle"]
  /\ UNCHANGED <<server, pc, lastHeartbeatReceived, receivedAck,
                 isInSameProcess, sentPid, accepted, published>>

(* The Python camera server sends each image and reads nothing.            *)
CameraSend ==
  /\ server = "camera" /\ link["server"] = "open"
  /\ accepted < MaxFrames /\ Len(wire["client"]) < WireSize
  /\ accepted' = accepted + 1
  /\ wire' = [wire EXCEPT !["client"] = Append(@, Data(accepted + 1))]
  /\ UNCHANGED <<server, link, active, pc, handler, lastHeartbeatReceived,
                 receivedAck, isInSameProcess, sentPid, published>>
-----------------------------------------------------------------------------
(* HandleEvent(): the timer, which is started again while active, and STOP *)

HeartbeatTimeout(e) ==
  /\ handler[e] = "idle" /\ active[e]
  /\ handler' = [handler EXCEPT ![e] = IF e = "client" /\ ~sentPid THEN "pid" ELSE "heartbeat"]
  /\ sentPid' = (sentPid \/ e = "client")
  /\ UNCHANGED <<server, link, wire, active, pc, lastHeartbeatReceived,
                 receivedAck, isInSameProcess, accepted, published>>

LastHeartbeatTimeout(e) ==
  /\ handler[e] = "idle" /\ ~active[e] /\ ~lastHeartbeatReceived[e]
  /\ lastHeartbeatReceived' = [lastHeartbeatReceived EXCEPT ![e] = TRUE]
  /\ UNCHANGED <<server, link, wire, active, pc, handler,
                 receivedAck, isInSameProcess, sentPid, accepted, published>>

SendPid ==
  /\ handler["client"] = "pid"
  /\ Transmit("client", Pid)
  /\ handler' = [handler EXCEPT !["client"] = "heartbeat"]
  /\ UNCHANGED <<server, pc, lastHeartbeatReceived, receivedAck,
                 isInSameProcess, sentPid, accepted, published>>

SendHeartbeat(e) ==
  /\ handler[e] = "heartbeat"
  /\ Transmit(e, Heartbeat)
  /\ handler' = [handler EXCEPT ![e] = "idle"]
  /\ UNCHANGED <<server, pc, lastHeartbeatReceived, receivedAck,
                 isInSameProcess, sentPid, accepted, published>>

Stop(e) ==
  /\ handler[e] = "idle" /\ active[e]
  /\ active' = [active EXCEPT ![e] = FALSE]
  /\ UNCHANGED <<server, link, wire, pc, handler, lastHeartbeatReceived,
                 receivedAck, isInSameProcess, sentPid, accepted, published>>
-----------------------------------------------------------------------------
(* Execute().  A step ends with the test of `active' that begins the next  *)
(* round; what another thread does between the two it may as well do       *)
(* before the step.                                                        *)
Round(e) == IF active'[e] THEN "receive" ELSE "leave"

Start(e) ==
  /\ pc[e] = "start"
  /\ UNCHANGED active
  /\ pc' = [pc EXCEPT ![e] = Round(e)]
  /\ UNCHANGED <<server, link, wire, handler, lastHeartbeatReceived,
                 receivedAck, isInSameProcess, sentPid, accepted, published>>

(* A whole message of kind k is read.                                      *)
Read(e, k) ==
  /\ pc[e] = "receive"
  /\ wire[e] # << >> /\ Head(wire[e]).kind = k
  /\ wire' = [wire EXCEPT ![e] = Tail(@)]
  /\ UNCHANGED active

(* A plausible wrong one: the image is not acknowledged.                   *)
ReceiveDataUnanswered ==
  /\ Read("client", "data")
  /\ published' = Append(published, Head(wire["client"]).frame)
  /\ pc' = [pc EXCEPT !["client"] = Round("client")]
  /\ UNCHANGED <<server, link, handler, lastHeartbeatReceived,
                 receivedAck, isInSameProcess, sentPid, accepted>>

ReceiveData ==
  /\ Read("client", "data")
  /\ published' = Append(published, Head(wire["client"]).frame)
  /\ pc' = [pc EXCEPT !["client"] = "ack"]
  /\ UNCHANGED <<server, link, handler, lastHeartbeatReceived,
                 receivedAck, isInSameProcess, sentPid, accepted>>

SendAck(e) ==
  /\ pc[e] = "ack"
  /\ Transmit(e, Ack)
  /\ pc' = [pc EXCEPT ![e] = Round(e)]
  /\ UNCHANGED <<server, handler, lastHeartbeatReceived, receivedAck,
                 isInSameProcess, sentPid, accepted, published>>

ReceiveAck ==
  /\ Read("server", "ack")
  /\ pc' = [pc EXCEPT !["server"] = Round("server")]
  /\ receivedAck' = TRUE
  /\ UNCHANGED <<server, link, handler, lastHeartbeatReceived,
                 isInSameProcess, sentPid, accepted, published>>

ReceivePid ==
  /\ Read("server", "pid")
  /\ pc' = [pc EXCEPT !["server"] = Round("server")]
  /\ isInSameProcess' = (server = "local")
  /\ UNCHANGED <<server, link, handler, lastHeartbeatReceived,
                 receivedAck, sentPid, accepted, published>>

ReceiveHeartbeat(e) ==
  /\ Read(e, "heartbeat")
  /\ pc' = [pc EXCEPT ![e] = Round(e)]
  /\ UNCHANGED <<server, link, handler, lastHeartbeatReceived,
                 receivedAck, isInSameProcess, sentPid, accepted, published>>

(* A plausible wrong one: the object stays active.                         *)
ReceiveCutStaysActive(e) ==
  /\ pc[e] = "receive"
  /\ wire[e] # << >>
  /\ link[e] = "reset" \/ Head(wire[e]) = Cut
  /\ wire' = [wire EXCEPT ![e] = << >>]
  /\ pc' = [pc EXCEPT ![e] = "ack"]
  /\ published' = IF e = "client" THEN Append(published, CutFrame) ELSE published
  /\ UNCHANGED <<server, link, active, handler, lastHeartbeatReceived, receivedAck,
                 isInSameProcess, sentPid, accepted>>

(* The connection ends inside a message.  What was read of it is no known  *)
(* message, so it is published and acknowledged like an image, unless not  *)
(* even a length was read.  A remote server's events reach nobody here.    *)
ReceiveCut(e) ==
  /\ pc[e] = "receive"
  /\ wire[e] # << >>
  /\ link[e] = "reset" \/ Head(wire[e]) = Cut
  /\ active' = [active EXCEPT ![e] = FALSE]
  /\ wire' = [wire EXCEPT ![e] = << >>]
  /\ \/ /\ pc' = [pc EXCEPT ![e] = "ack"]
        /\ published' = IF e = "client" \/ server = "local"
                          THEN Append(published, CutFrame) ELSE published
     \/ /\ pc' = [pc EXCEPT ![e] = "leave"]
        /\ UNCHANGED published
  /\ UNCHANGED <<server, link, handler, lastHeartbeatReceived, receivedAck,
                 isInSameProcess, sentPid, accepted>>

(* A plausible wrong one: nothing was received, so receive again.          *)
GiveUpNever(e) ==
  /\ pc[e] = "receive"
  /\ wire[e] = << >>
  /\ link[e] # "open" \/ e = "server"
  /\ UNCHANGED vars

(* Eleven receives in a row return nothing: the connection has ended, or   *)
(* they timed out.  Only an accepted socket has a timeout, the client's    *)
(* waits for ever (pivision_ethtermservicelistener.cpp:231).               *)
GiveUp(e) ==
  /\ pc[e] = "receive"
  /\ wire[e] = << >>
  /\ link[e] # "open" \/ e = "server"
  /\ active' = [active EXCEPT ![e] = FALSE]
  /\ pc' = [pc EXCEPT ![e] = "leave"]
  /\ UNCHANGED <<server, link, wire, handler, lastHeartbeatReceived,
                 receivedAck, isInSameProcess, sentPid, accepted, published>>

(* Execute() returns and has closed the socket.  Unread bytes turn the     *)
(* close into a reset; a Send() that is under way is cut.                  *)
End(e) ==
  /\ pc[e] = "leave"
  /\ pc' = [pc EXCEPT ![e] = "ended"]
  /\ link' = [d \in Ends |-> IF d = e THEN "reset"
                             ELSE IF link[d] # "open" THEN link[d]
                             ELSE IF wire[e] = << >> THEN "closed" ELSE "reset"]
  /\ \E rest \in Begun(e) : wire' = [wire EXCEPT ![e] = << >>, ![Peer(e)] = @ \o rest]
  /\ UNCHANGED <<server, active, handler, lastHeartbeatReceived,
                 receivedAck, isInSameProcess, sentPid, accepted, published>>

(* A plausible wrong one: the destructor does not wait.                    *)
DestroyAtOnce(e) ==
  /\ pc[e] = "ended"
  /\ pc' = [pc EXCEPT ![e] = "destroyed"]
  /\ UNCHANGED <<server, link, wire, active, handler, lastHeartbeatReceived,
                 receivedAck, isInSameProcess, sentPid, accepted, published>>

(* The destructor, on the job's thread, waits for the last timer.          *)
Destroy(e) ==
  /\ pc[e] = "ended" /\ lastHeartbeatReceived[e]
  /\ pc' = [pc EXCEPT ![e] = "destroyed"]
  /\ UNCHANGED <<server, link, wire, active, handler, lastHeartbeatReceived,
                 receivedAck, isInSameProcess, sentPid, accepted, published>>

(* The network fails, or the other process ends.                           *)
Break ==
  /\ \E e \in Ends : link[e] = "open"
  /\ link' = [e \in Ends |-> "reset"]
  /\ \E c \in Begun("server"), s \in Begun("client") :
       wire' = [wire EXCEPT !["client"] = @ \o c, !["server"] = @ \o s]
  /\ UNCHANGED <<server, active, pc, handler, lastHeartbeatReceived,
                 receivedAck, isInSameProcess, sentPid, accepted, published>>
-----------------------------------------------------------------------------
ReceiveMessage(e) == \/ ReceiveHeartbeat(e)
                     \/ e = "client" /\ ReceiveData
                     \/ e = "server" /\ (ReceiveAck \/ ReceivePid)

(* The job's thread, but for timeouts while the peer is merely silent.     *)
Execute(e) == \/ Start(e) \/ ReceiveMessage(e) \/ ReceiveCut(e) \/ SendAck(e)
              \/ (link[e] # "open" \/ ~active[e]) /\ GiveUp(e)
              \/ End(e) \/ Destroy(e)

(* The event handler, without the events that need not come.               *)
HandleTimer(e) == \/ HeartbeatTimeout(e) \/ LastHeartbeatTimeout(e) \/ SendHeartbeat(e)
                  \/ e = "client" /\ SendPid
                  \/ e = "server" /\ SendFrame

Next == \/ AcceptFrame \/ ShortcutFrame \/ CameraSend \/ Break
        \/ \E e \in Ends : Execute(e) \/ HandleTimer(e) \/ GiveUp(e) \/ Stop(e)

(* Threads run and timers fire.  A sender that TCP gives room again and    *)
(* again holds sendMutex and gets the room: strong fairness.               *)
Fairness == \A e \in Ends : SF_vars(Execute(e)) /\ SF_vars(HandleTimer(e))

Spec == Init /\ [][Next]_vars
FairSpec == Spec /\ Fairness
-----------------------------------------------------------------------------
Frames == 1..MaxFrames
Messages == {Data(n) : n \in Frames} \cup {Ack, Heartbeat, Pid, Cut}

TypeOK ==
  /\ server \in {"remote", "local", "camera"}
  /\ link \in [Ends -> {"open", "closed", "reset"}]
  /\ wire \in [Ends -> Seq(Messages)]
  /\ \A e \in Ends : Len(wire[e]) <= WireSize + 1
  /\ active \in [Ends -> BOOLEAN]
  /\ pc \in [Ends -> {"start", "receive", "ack", "leave", "ended", "destroyed"}]
  /\ handler \in [Ends -> {"idle", "data", "pid", "heartbeat"}]
  /\ lastHeartbeatReceived \in [Ends -> BOOLEAN]
  /\ receivedAck \in BOOLEAN /\ isInSameProcess \in BOOLEAN /\ sentPid \in BOOLEAN
  /\ accepted \in 0..MaxFrames
  /\ published \in Seq(Frames \cup {CutFrame})

(* The window of one: while the connection stands there is exactly one of  *)
(* an image to send, an image on its way, an acknowledgement to send and   *)
(* one on its way, or the server holds it as receivedAck, which its event  *)
(* handler and its job clear and set without a lock                        *)
(* (pivision_ethtermconnection.cpp:295, 340-349).                          *)
Count(e, k) == Cardinality({i \in DOMAIN wire[e] : wire[e][i].kind = k})
One(holds) == IF holds THEN 1 ELSE 0
ExactlyOneToken ==
  server # "camera" /\ link["server"] = "open" =>
    One(receivedAck) + One(handler["server"] = "data") + Count("client", "data")
      + One(pc["client"] = "ack") + Count("server", "ack") = 1

(* All values are of their types, and the window is one image.             *)
WindowOfOne == TypeOK /\ ExactlyOneToken

(* Between two processes every image is published in order, and an image   *)
(* of which a part is missing is the last of its connection, whose object  *)
(* then ends (:244-287).                                                   *)
CutFrameIsLast ==
  server # "local" =>
    \A i \in DOMAIN published :
      \/ published[i] = i
      \/ published[i] = CutFrame /\ i = Len(published) /\ ~active["client"]

(* In one process the images overtake what is still on the connection when *)
(* the process id arrives (:353).  No image is published twice, and one at *)
(* most is published behind a later one.                                   *)
Overtaken == {i \in DOMAIN published :
                \E j \in 1..(i - 1) : published[i] # CutFrame /\ published[j] > published[i]}
AtMostOneOvertaken ==
  /\ \A i, j \in DOMAIN published : published[i] = published[j] => i = j \/ published[i] = CutFrame
  /\ \A i, j \in Overtaken : i = j

(* What the client publishes is in order, with these two exceptions.       *)
PublishedInOrder == CutFrameIsLast /\ AtMostOneOvertaken

(* The destructor does not return while the event handler uses the object  *)
(* or will be called again (:76-81, 361-379); std::condition_variable is   *)
(* taken not to wake up by itself.                                         *)
DestroyedIsQuiet ==
  \A e \in Ends : pc[e] = "destroyed" => handler[e] = "idle" /\ ~active[e] /\ lastHeartbeatReceived[e]

Broken == \E e \in Ends : \/ link[e] # "open"
                          \/ ~active[e] /\ (e = "client" \/ server # "camera")

(* Every image that the server took is published by the client, and the    *)
(* server is then ready for the next, unless the connection ends.  A       *)
(* camera never reads the acknowledgements: once TCP is full of them and   *)
(* of heartbeats the client blocks in Send() (:290) and receives no image  *)
(* any more.                                                               *)
Published(n) == \E i \in DOMAIN published : published[i] = n
AllAnswered == receivedAck /\ \A n \in 1..accepted : Published(n)
StuckOnCamera == server = "camera" /\ Len(wire["server"]) = WireSize /\ pc["client"] = "ack"
FramesAreAnswered == ~AllAnswered ~> (AllAnswered \/ Broken \/ StuckOnCamera)

(* When a connection has ended, or an object of it was stopped, both       *)
(* objects end and are destroyed.  (A stopped client of a camera waits for *)
(* one more image, which may not come.)                                    *)
NeedsToEnd == \E e \in Ends : link[e] # "open" \/ (~active[e] /\ server # "camera")
BothEndsEnd == NeedsToEnd ~> \A e \in Ends : pc[e] = "destroyed"
=============================================================================
