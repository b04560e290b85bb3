---------------------------- MODULE ImageDataTL ----------------------------
(***************************************************************************)
(* The grayscale image service of the C program: the transport of          *)
(* PiVisImageDataTL.c over the single-client server of PiVisServer.c, and  *)
(* the clients of Python/PiVisClient.py that it serves.                    *)
(*                                                                         *)
(* The server sends one frame and waits for the acknowledgement that       *)
(* carries the frame's number before it sends the next.  All of it runs    *)
(* on the scheduler's one thread, in the order the callbacks were          *)
(* registered (main.c:16-26): answer a discovery request, accept a         *)
(* connection, send, receive.  Between any two of these the clients run.   *)
(*                                                                         *)
(* A connection is known by its client.  A frame in transit is a token: a  *)
(* client reads exactly the bytes of one frame before it acknowledges.     *)
(* An acknowledgement is its bytes, because TCP may deliver any part of it *)
(* first and the server takes what recv returns for a whole one.           *)
(***************************************************************************)
EXTENDS Integers, Sequences, SequencesExt

CONSTANTS Clients,     \* the clients that ever run
          NoClient,    \* clientSocket before the first accept
          FrameMod,    \* number of values of a frame number (an unsigned char)
          AckHeader    \* the bytes of an acknowledgement before the number

ASSUME NoClientAssumption == NoClient \notin Clients
ASSUME FrameModAssumption == FrameMod \in Nat /\ FrameMod > 1
ASSUME AckHeaderAssumption == AckHeader \in Seq(Nat) /\ AckHeader # << >> /\ AckHeader[1] # 0

VARIABLES turn,           \* the callback the scheduler runs next
          alive,          \* the process has not been killed by SIGPIPE
          connected,      \* serverContext.connected
          clientSocket,   \* serverContext.serverContext.clientSocket
          backlog,        \* connections that wait for accept
          state,          \* the transport's state
          frameNo,        \* the number it waits for
          ackBuf,         \* the buffer it receives acknowledgements in
          stage,          \* where every client stands
          link,           \* every connection, as the server's socket sees it
          down,           \* frames sent on a connection and not read yet
          up,             \* bytes sent by a client and not read yet
          clientFrameNo,  \* frameNo of every client
          split           \* history: recv has returned a part of an acknowledgement

serverVars == <<turn, alive, connected, clientSocket, backlog>>
tlVars == <<state, frameNo, ackBuf>>
clientVars == <<stage, link, down, up, clientFrameNo>>
vars == <<serverVars, tlVars, clientVars, split>>

AckLen == Len(AckHeader) + 1
Ack(n) == Append(AckHeader, n)
NoBytes == [i \in 1..AckLen |-> 0]
FrameNos == 0..(FrameMod - 1)
NextFrameNo(n) == (n + 1) % FrameMod
Bytes == FrameNos \cup {AckHeader[i] : i \in 1..Len(AckHeader)}

Init == /\ turn = "discovery"
        /\ alive = TRUE
        /\ connected = FALSE
        /\ clientSocket = NoClient
        /\ backlog = << >>
        /\ state = "SEND_DATA"
        /\ frameNo = 0
        /\ ackBuf = NoBytes
        /\ stage = [c \in Clients |-> "seeking"]
        /\ link = [c \in Clients |-> "none"]
        /\ down = [c \in Clients |-> 0]
        /\ up = [c \in Clients |-> << >>]
        /\ clientFrameNo = [c \in Clients |-> 0]
        /\ split = FALSE
-----------------------------------------------------------------------------
(* PiVisServer.c: run()                                                    *)

(* A discovery request is answered as long as nobody has ever connected.   *)
AnswerDiscovery(c) ==
  /\ alive /\ turn = "discovery"
  /\ ~connected
  /\ stage[c] = "seeking"
  /\ stage' = [stage EXCEPT ![c] = "found"]
  /\ turn' = "accept"
  /\ UNCHANGED <<alive, connected, clientSocket, backlog, tlVars,
                 link, down, up, clientFrameNo, split>>

(* Nobody asks, the request or the answer is lost, or nobody listens.      *)
NoDiscovery ==
  /\ alive /\ turn = "discovery"
  /\ turn' = "accept"
  /\ UNCHANGED <<alive, connected, clientSocket, backlog, tlVars, clientVars, split>>

(* The new connection replaces the previous one, which is not closed.      *)
Accept ==
  /\ alive /\ turn = "accept"
  /\ backlog # << >>
  /\ clientSocket' = Head(backlog)
  /\ backlog' = Tail(backlog)
  /\ connected' = TRUE
  /\ turn' = "send"
  /\ UNCHANGED <<alive, tlVars, clientVars, split>>

NothingToAccept ==
  /\ alive /\ turn = "accept"
  /\ backlog = << >>
  /\ turn' = "send"
  /\ UNCHANGED <<alive, connected, clientSocket, backlog, tlVars, clientVars, split>>
-----------------------------------------------------------------------------
(* IMGDATATL_sendGrayscaleImage and SERVER_send, called by ALGOCTRL        *)

(* A plausible wrong send: the transport goes on without an answer.        *)
SendFrameUnanswered ==
  /\ alive /\ turn = "send"
  /\ state = "SEND_DATA" /\ connected
  /\ link[clientSocket] = "open"
  /\ down' = [down EXCEPT ![clientSocket] = @ + 1]
  /\ turn' = "receive"
  /\ UNCHANGED <<alive, connected, clientSocket, backlog, tlVars,
                 stage, link, up, clientFrameNo, split>>

(* SERVER_send returns when TCP has taken all of the frame.  It waits for  *)
(* that on a blocking socket, whose send comes back short or failed only   *)
(* when the connection ends (SendToReset); here the frame is sent at once. *)
SendFrame ==
  /\ alive /\ turn = "send"
  /\ state = "SEND_DATA" /\ connected
  /\ link[clientSocket] = "open"
  /\ down' = [down EXCEPT ![clientSocket] = @ + 1]
  /\ state' = "WAIT_FOR_ACK"
  /\ turn' = "receive"
  /\ UNCHANGED <<alive, connected, clientSocket, backlog, frameNo, ackBuf,
                 stage, link, up, clientFrameNo, split>>

(* The peer has closed: the kernel takes the bytes and the peer's answer   *)
(* to them resets the connection, at once or later.                        *)
SendToClosed ==
  /\ alive /\ turn = "send"
  /\ state = "SEND_DATA" /\ connected
  /\ link[clientSocket] = "closed"
  /\ \E l \in {"closed", "reset"} : link' = [link EXCEPT ![clientSocket] = l]
  /\ state' = "WAIT_FOR_ACK"
  /\ turn' = "receive"
  /\ UNCHANGED <<alive, connected, clientSocket, backlog, frameNo, ackBuf,
                 stage, down, up, clientFrameNo, split>>

(* The connection is reset: send fails, is repeated, and SIGPIPE, whose    *)
(* disposition nobody changes, ends the process.                           *)
SendToReset ==
  /\ alive /\ turn = "send"
  /\ state = "SEND_DATA" /\ connected
  /\ link[clientSocket] = "reset"
  /\ alive' = FALSE
  /\ UNCHANGED <<turn, connected, clientSocket, backlog, tlVars, clientVars, split>>

(* No image this tick, none connected, or an acknowledgement is awaited:   *)
(* at most a counter of dropped frames changes.                            *)
NothingSent ==
  /\ alive /\ turn = "send"
  /\ turn' = "receive"
  /\ UNCHANGED <<alive, connected, clientSocket, backlog, tlVars, clientVars, split>>
-----------------------------------------------------------------------------
(* PiVisImageDataTL.c: run(), with SERVER_receive                          *)

(* What recv may return: no more than it is asked for or has been sent.    *)
Arrived(c) == 1..(IF Len(up[c]) < AckLen THEN Len(up[c]) ELSE AckLen)

(* A plausible wrong handling: the number is not moved on.                 *)
HandleAckKeepNo(buf) ==
  /\ ackBuf' = buf
  /\ state' = IF buf[AckLen] = frameNo THEN "SEND_DATA" ELSE state
  /\ UNCHANGED frameNo

(* Anything but -1 is taken for an acknowledgement: the last byte of the   *)
(* buffer is compared, whether it was received now or is older.            *)
HandleAck(buf) ==
  /\ ackBuf' = buf
  /\ IF buf[AckLen] = frameNo
       THEN state' = "SEND_DATA" /\ frameNo' = NextFrameNo(frameNo)
       ELSE UNCHANGED <<state, frameNo>>

ReceiveBytes ==
  /\ alive /\ turn = "receive"
  /\ connected
  /\ up[clientSocket] # << >>
  /\ \E n \in Arrived(clientSocket) :
       /\ HandleAck([i \in 1..AckLen |-> IF i <= n THEN up[clientSocket][i] ELSE ackBuf[i]])
       /\ up' = [up EXCEPT ![clientSocket] = SubSeq(@, n + 1, Len(@))]
       /\ split' = (split \/ n < AckLen)
  /\ turn' = "discovery"
  /\ UNCHANGED <<alive, connected, clientSocket, backlog, stage, link, down, clientFrameNo>>

(* recv returns 0: the peer has closed and everything was read.            *)
ReceiveEndOfStream ==
  /\ alive /\ turn = "receive"
  /\ connected
  /\ up[clientSocket] = << >>
  /\ link[clientSocket] # "open"
  /\ HandleAck(ackBuf)
  /\ turn' = "discovery"
  /\ UNCHANGED <<alive, connected, clientSocket, backlog, clientVars, split>>

(* -1: not connected, nothing arrived within the timeout, or a reset.      *)
ReceiveNothing ==
  /\ alive /\ turn = "receive"
  /\ connected => up[clientSocket] = << >> /\ link[clientSocket] # "closed"
  /\ turn' = "discovery"
  /\ UNCHANGED <<alive, connected, clientSocket, backlog, tlVars, clientVars, split>>
-----------------------------------------------------------------------------
(* PiVisClient.py                                                          *)

Connect(c) ==
  /\ alive
  /\ stage[c] = "found"
  /\ stage' = [stage EXCEPT ![c] = "receive"]
  /\ link' = [link EXCEPT ![c] = "open"]
  /\ backlog' = Append(backlog, c)
  /\ UNCHANGED <<turn, alive, connected, clientSocket, tlVars, down, up, clientFrameNo, split>>

(* __receiveInternal, for the header and for the image.                    *)
TakeFrame(c) ==
  /\ stage[c] = "receive"
  /\ down[c] > 0
  /\ down' = [down EXCEPT ![c] = @ - 1]
  /\ stage' = [stage EXCEPT ![c] = "acknowledge"]
  /\ UNCHANGED <<serverVars, tlVars, link, up, clientFrameNo, split>>

SendAck(c) ==
  /\ stage[c] = "acknowledge"
  /\ up' = [up EXCEPT ![c] = @ \o Ack(clientFrameNo[c])]
  /\ clientFrameNo' = [clientFrameNo EXCEPT ![c] = NextFrameNo(@)]
  /\ stage' = [stage EXCEPT ![c] = "receive"]
  /\ UNCHANGED <<serverVars, tlVars, link, down, split>>

(* The client process ends.  With unread data its kernel resets the        *)
(* connection, otherwise it closes it.                                     *)
Leave(c) ==
  /\ stage[c] \in {"receive", "acknowledge"}
  /\ stage' = [stage EXCEPT ![c] = "gone"]
  /\ link' = [link EXCEPT ![c] = IF down[c] > 0 THEN "reset" ELSE "closed"]
  /\ down' = [down EXCEPT ![c] = 0]
  /\ UNCHANGED <<serverVars, tlVars, up, clientFrameNo, split>>
-----------------------------------------------------------------------------
ServerStep == \/ NoDiscovery \/ (\E c \in Clients : AnswerDiscovery(c))
              \/ Accept \/ NothingToAccept
              \/ SendFrame \/ SendToClosed \/ SendToReset \/ NothingSent
              \/ ReceiveBytes \/ ReceiveEndOfStream \/ ReceiveNothing

Next == \/ ServerStep
        \/ \E c \in Clients : Connect(c) \/ TakeFrame(c) \/ SendAck(c) \/ Leave(c)

(* The scheduler loops; there is an image infinitely often when the        *)
(* transport could send it (AlgoCtrl's CompletesUnlessStranded); a request *)
(* repeated for ever is answered if it can be; a client goes on reading,   *)
(* answering and connecting, but may leave, or not, at any time.           *)
Fairness == /\ WF_vars(ServerStep)
            /\ SF_vars(SendFrame)
            /\ \A c \in Clients : /\ SF_vars(AnswerDiscovery(c))
                                  /\ WF_vars(Connect(c))
                                  /\ WF_vars(TakeFrame(c) \/ SendAck(c))

Spec == Init /\ [][Next]_vars
FairSpec == Spec /\ Fairness
-----------------------------------------------------------------------------
TypeOK ==
  /\ turn \in {"discovery", "accept", "send", "receive"}
  /\ alive \in BOOLEAN
  /\ connected \in BOOLEAN
  /\ clientSocket \in Clients \cup {NoClient}
  /\ connected <=> clientSocket # NoClient
  /\ backlog \in Seq(Clients)
  /\ state \in {"SEND_DATA", "WAIT_FOR_ACK"}
  /\ frameNo \in FrameNos
  /\ ackBuf \in [1..AckLen -> Bytes \cup {0}]
  /\ stage \in [Clients -> {"seeking", "found", "receive", "acknowledge", "gone"}]
  /\ link \in [Clients -> {"none", "open", "closed", "reset"}]
  /\ down \in [Clients -> Nat]
  /\ up \in [Clients -> Seq(Bytes)]
  /\ clientFrameNo \in [Clients -> FrameNos]
  /\ split \in BOOLEAN

(* Stop and wait: the server never has two frames under way to a client,   *)
(* whatever pieces of acknowledgements it reads and whoever comes or goes  *)
(* (PiVisImageDataTL.c:72-86).                                             *)
OneFrameInFlight == \A c \in Clients : down[c] <= 1

(* recv's result is not looked at, so run() compares an old byte again and *)
(* again when the peer has closed or sent only a part (:38-40).  The       *)
(* comparison is false every time, except for the very first frame, which  *)
(* has the number a static buffer starts with.                             *)
NoStaleAck == ackBuf[AckLen] = frameNo => ackBuf = NoBytes /\ frameNo = 0

(* Nobody but c has connected so far.                                      *)
Alone(c) == \A d \in Clients \ {c} : link[d] = "none"

(* Client and server agree on the next number while the first client is    *)
(* served, and exactly one of frame, client and acknowledgement is under   *)
(* way while the server waits (PiVisImageDataTL.c:40-44, PiVisClient.py:   *)
(* 96-104), until an acknowledgement is read in pieces: the position in it *)
(* is not kept, and the number never stands at the buffer's end again.     *)
InStep ==
  \A c \in Clients : clientSocket = c /\ link[c] = "open" /\ Alone(c) /\ ~split =>
    \/ /\ up[c] = << >>
       /\ clientFrameNo[c] = frameNo
       /\ down[c] = IF state = "WAIT_FOR_ACK" /\ stage[c] = "receive" THEN 1 ELSE 0
       /\ state = "SEND_DATA" => stage[c] = "receive"
    \/ /\ state = "WAIT_FOR_ACK"
       /\ down[c] = 0 /\ stage[c] = "receive"
       /\ up[c] = Ack(frameNo)
       /\ clientFrameNo[c] = NextFrameNo(frameNo)

(* A client that the server has accepted and that waits for an image gets  *)
(* one, unless it leaves or is replaced.  The code keeps this for the      *)
(* first client only, and until an acknowledgement is read in pieces.      *)
Served(c) == \/ down[c] > 0
             \/ stage[c] # "receive"
             \/ clientSocket # c
FirstClientIsServed == \A c \in Clients : clientSocket = c ~> Served(c) \/ ~Alone(c) \/ split
=============================================================================
