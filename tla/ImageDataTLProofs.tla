------------------------- MODULE ImageDataTLProofs -------------------------
(***************************************************************************)
(* Theorems about ImageDataTL, for every set of clients, every form of an  *)
(* acknowledgement, and acknowledgements that are cut anywhere.            *)
(*                                                                         *)
(* The transport sends again when a comparison succeeds, so stop and wait  *)
(* rests on this: while a frame is unanswered, too few bytes are on their  *)
(* way for the last place of the buffer to be written (TooLittle).  A      *)
(* client that takes the place of another has carried nothing (BacklogInv).*)
(*                                                                         *)
(* Until an acknowledgement is read in pieces, the first client is in step *)
(* with the server: InStep is kept by every step of the two, given that    *)
(* nothing was counted before the first connection (QuietBefore).          *)
(***************************************************************************)
EXTENDS ImageDataTL, SequenceTheorems, TLAPS

(* The buffer shows the awaited number although nothing was received.      *)
Untouched == ackBuf[AckLen] = frameNo

(* A frame that the client has not answered.                               *)
Pending(c) == down[c] = 1 \/ stage[c] = "acknowledge"

(* A connection on which nothing has been sent yet.                        *)
Fresh(c) == /\ down[c] = 0 /\ up[c] = << >>
            /\ stage[c] \in {"receive", "gone"}

(* No match can follow from what the client has sent so far.               *)
TooLittle(c) == Len(up[c]) < AckLen /\ (Untouched => up[c] = << >>)

ClientsInv ==
  \A c \in Clients :
    /\ down[c] \in {0, 1}
    /\ stage[c] \in {"seeking", "found"} => down[c] = 0 /\ up[c] = << >>
    /\ stage[c] \in {"receive", "acknowledge"} => link[c] = "open"
    /\ stage[c] \in {"acknowledge", "gone"} => down[c] = 0
    /\ stage[c] = "gone" => link[c] # "open"

BacklogInv ==
  \A i \in DOMAIN backlog :
    /\ Fresh(backlog[i])
    /\ backlog[i] # clientSocket
    /\ \A j \in DOMAIN backlog : backlog[i] = backlog[j] => i = j

ServedInv ==
  connected =>
    /\ stage[clientSocket] \in {"receive", "acknowledge", "gone"}
    /\ Pending(clientSocket) => state = "WAIT_FOR_ACK" /\ TooLittle(clientSocket)
    /\ state = "SEND_DATA" => TooLittle(clientSocket)
    /\ Len(up[clientSocket]) < 2 * AckLen
    /\ Untouched => Len(up[clientSocket]) <= AckLen

OneFrameInv == ClientsInv /\ BacklogInv /\ ServedInv
-----------------------------------------------------------------------------
(* Lemmas about the operators                                              *)

LEMMA AckLength == AckLen \in Nat /\ AckLen > 1
<1>1. Len(AckHeader) \in Nat /\ Len(AckHeader) # 0
  BY AckHeaderAssumption, EmptySeq, LenProperties
<1> QED
  BY <1>1 DEF AckLen

LEMMA NextDiffers ==
  ASSUME NEW n \in FrameNos
  PROVE  NextFrameNo(n) \in FrameNos /\ NextFrameNo(n) # n
<1>1. CASE n + 1 = FrameMod
  BY <1>1, FrameModAssumption DEF FrameNos, NextFrameNo
<1>2. CASE n + 1 # FrameMod
  BY <1>2, FrameModAssumption DEF FrameNos, NextFrameNo
<1> QED
  BY <1>1, <1>2

LEMMA AckIsBytes ==
  ASSUME NEW n \in FrameNos
  PROVE  Ack(n) \in Seq(Bytes) /\ Len(Ack(n)) = AckLen
<1>1. AckHeader \in Seq(Bytes)
  BY AckHeaderAssumption DEF Bytes
<1>2. n \in Bytes
  BY DEF Bytes
<1> QED
  BY <1>1, <1>2, AppendProperties DEF Ack, AckLen

LEMMA RestOfBytes ==
  ASSUME NEW s \in Seq(Bytes), NEW n \in 1..Len(s)
  PROVE  SubSeq(s, n + 1, Len(s)) \in Seq(Bytes) /\ Len(SubSeq(s, n + 1, Len(s))) = Len(s) - n
BY SubSeqProperties, LenProperties

LEMMA MoreBytes ==
  ASSUME NEW s \in Seq(Bytes), NEW t \in Seq(Bytes)
  PROVE  s \o t \in Seq(Bytes) /\ Len(s \o t) = Len(s) + Len(t)
BY ConcatProperties

LEMMA PoppedBacklog ==
  ASSUME NEW q \in Seq(Clients), q # << >>
  PROVE  /\ Tail(q) \in Seq(Clients)
         /\ Len(q) \in Nat \ {0}
         /\ Len(Tail(q)) = Len(q) - 1
         /\ Head(q) = q[1]
         /\ Head(q) \in Clients
         /\ \A i \in 1..Len(Tail(q)) : Tail(q)[i] = q[i + 1]
BY HeadTailProperties, EmptySeq

LEMMA PushedBacklog ==
  ASSUME NEW q \in Seq(Clients), NEW c \in Clients
  PROVE  /\ Append(q, c) \in Seq(Clients)
         /\ Len(Append(q, c)) = Len(q) + 1
         /\ Append(q, c)[Len(q) + 1] = c
         /\ \A i \in 1..Len(q) : Append(q, c)[i] = q[i]
BY AppendProperties

(* What a receive leaves in the buffer: at most AckLen new bytes in front. *)
Received(n) == [i \in 1..AckLen |-> IF i <= n THEN up[clientSocket][i] ELSE ackBuf[i]]

LEMMA SomeArrive ==
  ASSUME TypeOK, NEW c \in Clients, up[c] # << >>, NEW n \in Arrived(c)
  PROVE  n \in 1..Len(up[c]) /\ n <= AckLen
<1>1. up[c] \in Seq(Bytes) /\ Len(up[c]) \in Nat \ {0}
  BY EmptySeq DEF TypeOK
<1> QED
  BY <1>1, AckLength DEF Arrived

LEMMA ReceivedIsBuffer ==
  ASSUME TypeOK, connected, up[clientSocket] # << >>, NEW n \in Arrived(clientSocket)
  PROVE  Received(n) \in [1..AckLen -> Bytes \cup {0}]
<1>1. clientSocket \in Clients /\ up[clientSocket] \in Seq(Bytes)
  BY DEF TypeOK
<1>2. n \in 1..Len(up[clientSocket])
  BY <1>1, SomeArrive
<1>3. \A i \in 1..Len(up[clientSocket]) : up[clientSocket][i] \in Bytes
  BY <1>1, ElementOfSeq
<1>4. \A i \in 1..AckLen : i <= n => i \in 1..Len(up[clientSocket])
  BY <1>1, <1>2, AckLength, LenProperties
<1>5. \A i \in 1..AckLen : ackBuf[i] \in Bytes \cup {0}
  BY DEF TypeOK
<1> QED
  BY <1>3, <1>4, <1>5 DEF Received
-----------------------------------------------------------------------------
(* The type invariant, one step per action.                                *)
LEMMA TypeInit == Init => TypeOK
<1> SUFFICES ASSUME Init PROVE TypeOK
  OBVIOUS
<1>1. ackBuf \in [1..AckLen -> Bytes \cup {0}]
  BY AckLength DEF Init, NoBytes
<1>2. 0 \in FrameNos
  BY FrameModAssumption DEF FrameNos
<1>3. << >> \in Seq(Clients) /\ << >> \in Seq(Bytes)
  BY EmptySeq
<1> QED
  BY <1>1, <1>2, <1>3, NoClientAssumption DEF Init, TypeOK

LEMMA HandledAckType ==
  ASSUME TypeOK, NEW buf \in [1..AckLen -> Bytes \cup {0}], HandleAck(buf)
  PROVE  /\ ackBuf' \in [1..AckLen -> Bytes \cup {0}]
         /\ state' \in {"SEND_DATA", "WAIT_FOR_ACK"}
         /\ frameNo' \in FrameNos
BY NextDiffers DEF HandleAck, TypeOK

LEMMA TypeStep == TypeOK /\ [Next]_vars => TypeOK'
<1> SUFFICES ASSUME TypeOK, [Next]_vars
             PROVE  TypeOK'
  OBVIOUS
<1> USE NoClientAssumption DEF serverVars, tlVars, clientVars
<1>1. ASSUME NEW c \in Clients, AnswerDiscovery(c)
      PROVE  TypeOK'
  BY <1>1 DEF AnswerDiscovery, TypeOK
<1>2. CASE NoDiscovery
  BY <1>2 DEF NoDiscovery, TypeOK
<1>3. CASE Accept
  <2>1. Tail(backlog) \in Seq(Clients) /\ Head(backlog) \in Clients
    BY <1>3, PoppedBacklog DEF Accept, TypeOK
  <2> QED
    BY <1>3, <2>1 DEF Accept, TypeOK
<1>4. CASE NothingToAccept
  BY <1>4 DEF NothingToAccept, TypeOK
<1>5. CASE SendFrame
  BY <1>5 DEF SendFrame, TypeOK
<1>6. CASE SendToClosed
  BY <1>6 DEF SendToClosed, TypeOK
<1>7. CASE SendToReset
  BY <1>7 DEF SendToReset, TypeOK
<1>8. CASE NothingSent
  BY <1>8 DEF NothingSent, TypeOK
<1>9. CASE ReceiveBytes
  <2>1. PICK n \in Arrived(clientSocket) :
          /\ HandleAck(Received(n))
          /\ up' = [up EXCEPT ![clientSocket] = SubSeq(@, n + 1, Len(@))]
          /\ split' = (split \/ n < AckLen)
    BY <1>9 DEF ReceiveBytes, Received
  <2>2. clientSocket \in Clients /\ up[clientSocket] # << >> /\ connected
    BY <1>9 DEF ReceiveBytes, TypeOK
  <2>3. Received(n) \in [1..AckLen -> Bytes \cup {0}]
    BY <2>2, ReceivedIsBuffer
  <2>4. /\ ackBuf' \in [1..AckLen -> Bytes \cup {0}]
        /\ state' \in {"SEND_DATA", "WAIT_FOR_ACK"}
        /\ frameNo' \in FrameNos
    BY <2>1, <2>3, HandledAckType
  <2>5. SubSeq(up[clientSocket], n + 1, Len(up[clientSocket])) \in Seq(Bytes)
    BY <2>2, SomeArrive, RestOfBytes DEF TypeOK
  <2>6. up' \in [Clients -> Seq(Bytes)]
    BY <2>1, <2>2, <2>5 DEF TypeOK
  <2>7. split' \in BOOLEAN
    BY <2>1 DEF TypeOK
  <2> QED
    BY <1>9, <2>4, <2>6, <2>7 DEF ReceiveBytes, TypeOK
<1>10. CASE ReceiveEndOfStream
  <2>1. ackBuf \in [1..AckLen -> Bytes \cup {0}]
    BY DEF TypeOK
  <2>2. /\ ackBuf' \in [1..AckLen -> Bytes \cup {0}]
        /\ state' \in {"SEND_DATA", "WAIT_FOR_ACK"}
        /\ frameNo' \in FrameNos
    BY <1>10, <2>1, HandledAckType DEF ReceiveEndOfStream
  <2> QED
    BY <1>10, <2>2 DEF ReceiveEndOfStream, TypeOK
<1>11. CASE ReceiveNothing
  BY <1>11 DEF ReceiveNothing, TypeOK
<1>12. ASSUME NEW c \in Clients, Connect(c)
       PROVE  TypeOK'
  <2>1. Append(backlog, c) \in Seq(Clients)
    BY PushedBacklog DEF TypeOK
  <2> QED
    BY <1>12, <2>1 DEF Connect, TypeOK
<1>13. ASSUME NEW c \in Clients, TakeFrame(c)
       PROVE  TypeOK'
  BY <1>13 DEF TakeFrame, TypeOK
<1>14. ASSUME NEW c \in Clients, SendAck(c)
       PROVE  TypeOK'
  <2>1. up[c] \o Ack(clientFrameNo[c]) \in Seq(Bytes)
    BY AckIsBytes, MoreBytes DEF TypeOK
  <2>2. NextFrameNo(clientFrameNo[c]) \in FrameNos
    BY NextDiffers DEF TypeOK
  <2> QED
    BY <1>14, <2>1, <2>2 DEF SendAck, TypeOK
<1>15. ASSUME NEW c \in Clients, Leave(c)
       PROVE  TypeOK'
  BY <1>15 DEF Leave, TypeOK
<1>16. CASE UNCHANGED vars
  BY <1>16 DEF vars, TypeOK
<1> QED
  BY <1>1, <1>2, <1>3, <1>4, <1>5, <1>6, <1>7, <1>8, <1>9, <1>10, <1>11,
     <1>12, <1>13, <1>14, <1>15, <1>16 DEF Next, ServerStep

(* Every value keeps its type, in particular frame numbers their width:    *)
(* the type invariant that the model's runs check.                         *)
THEOREM TransportTypeCorrect == Spec => []TypeOK
BY TypeInit, TypeStep, PTL DEF Spec

-----------------------------------------------------------------------------
(* No old acknowledgement passes for the awaited one.                      *)

(* After a comparison the number that is awaited is not in the buffer.     *)
LEMMA HandledAckDiffers ==
  ASSUME TypeOK, NEW buf, HandleAck(buf)
  PROVE  ~Untouched'
<1>1. NextFrameNo(frameNo) # frameNo
  BY NextDiffers DEF TypeOK
<1> QED
  BY <1>1 DEF HandleAck, Untouched

LEMMA NoStaleAckStep == TypeOK /\ NoStaleAck /\ [Next]_vars => NoStaleAck'
<1> SUFFICES ASSUME TypeOK, NoStaleAck, [Next]_vars
             PROVE  NoStaleAck'
  OBVIOUS
<1>1. CASE ReceiveBytes
  <2>1. PICK n \in Arrived(clientSocket) : HandleAck(Received(n))
    BY <1>1 DEF ReceiveBytes, Received
  <2> QED
    BY <2>1, HandledAckDiffers DEF Untouched, NoStaleAck
<1>2. CASE ReceiveEndOfStream
  BY <1>2, HandledAckDiffers DEF ReceiveEndOfStream, Untouched, NoStaleAck
<1>3. CASE UNCHANGED <<frameNo, ackBuf>>
  BY <1>3 DEF NoStaleAck
<1>4. ~ReceiveBytes /\ ~ReceiveEndOfStream => UNCHANGED <<frameNo, ackBuf>>
  BY DEF Next, ServerStep, vars, tlVars, AnswerDiscovery, NoDiscovery, Accept,
         NothingToAccept, SendFrame, SendToClosed, SendToReset, NothingSent,
         ReceiveNothing, Connect, TakeFrame, SendAck, Leave
<1> QED
  BY <1>1, <1>2, <1>3, <1>4

(* run() compares the last byte of the buffer whatever recv returned; the  *)
(* comparison can succeed on an old byte before the first acknowledgement  *)
(* only, however acknowledgements are cut (PiVisImageDataTL.c:36-45).      *)
THEOREM OldAcksDoNotMatch == Spec => []NoStaleAck
<1>1. Init => NoStaleAck
  BY DEF Init, NoStaleAck
<1> QED
  BY <1>1, TypeInit, TypeStep, NoStaleAckStep, PTL DEF Spec
-----------------------------------------------------------------------------
(* Stop and wait.                                                          *)

LEMMA OneFrameInit == Init => OneFrameInv
<1> SUFFICES ASSUME Init PROVE OneFrameInv
  OBVIOUS
<1>1. ClientsInv
  BY DEF Init, ClientsInv
<1>2. BacklogInv
  BY EmptySeq DEF Init, BacklogInv
<1>3. ServedInv
  BY DEF Init, ServedInv
<1> QED
  BY <1>1, <1>2, <1>3 DEF OneFrameInv

(* Only the client that is served gets a frame, and it has none pending.   *)
LEMMA ClientsStep == TypeOK /\ OneFrameInv /\ [Next]_vars => ClientsInv'
<1> SUFFICES ASSUME TypeOK, OneFrameInv, [Next]_vars
             PROVE  ClientsInv'
  OBVIOUS
<1> USE DEF OneFrameInv, ClientsInv, TypeOK
<1>1. ASSUME NEW c \in Clients, AnswerDiscovery(c)
      PROVE  ClientsInv'
  BY <1>1 DEF AnswerDiscovery
<1>2. CASE SendFrame
  <2>1. clientSocket \in Clients
    BY <1>2 DEF SendFrame
  <2>2. ~Pending(clientSocket) /\ stage[clientSocket] \in {"receive", "gone"}
    BY <1>2 DEF SendFrame, ServedInv, Pending
  <2>3. stage[clientSocket] = "receive" /\ down[clientSocket] = 0
    BY <1>2, <2>1, <2>2 DEF SendFrame, Pending
  <2> QED
    BY <1>2, <2>1, <2>3 DEF SendFrame
<1>3. CASE SendToClosed
  <2>1. clientSocket \in Clients
    BY <1>3 DEF SendToClosed
  <2> QED
    BY <1>3, <2>1 DEF SendToClosed
<1>4. CASE ReceiveBytes
  <2>1. clientSocket \in Clients /\ stage[clientSocket] \notin {"seeking", "found"}
    BY <1>4 DEF ReceiveBytes, ServedInv
  <2>2. \A c \in Clients : c # clientSocket => up'[c] = up[c]
    BY <1>4, <2>1 DEF ReceiveBytes
  <2> QED
    BY <1>4, <2>1, <2>2 DEF ReceiveBytes
<1>5. ASSUME NEW c \in Clients, Connect(c)
      PROVE  ClientsInv'
  BY <1>5 DEF Connect
<1>6. ASSUME NEW c \in Clients, TakeFrame(c)
      PROVE  ClientsInv'
  BY <1>6 DEF TakeFrame
<1>7. ASSUME NEW c \in Clients, SendAck(c)
      PROVE  ClientsInv'
  BY <1>7 DEF SendAck
<1>8. ASSUME NEW c \in Clients, Leave(c)
      PROVE  ClientsInv'
  BY <1>8 DEF Leave
<1>9. CASE UNCHANGED clientVars
  BY <1>9 DEF clientVars
<1>10. \/ SendFrame \/ SendToClosed \/ ReceiveBytes \/ UNCHANGED clientVars
       \/ \E c \in Clients : AnswerDiscovery(c) \/ Connect(c) \/ TakeFrame(c) \/ SendAck(c) \/ Leave(c)
  BY DEF Next, ServerStep, vars, NoDiscovery, Accept, NothingToAccept, SendToReset,
         NothingSent, ReceiveEndOfStream, ReceiveNothing, clientVars
<1> QED
  BY <1>1, <1>2, <1>3, <1>4, <1>5, <1>6, <1>7, <1>8, <1>9, <1>10

(* Nothing happens on a connection that waits for accept, but that its     *)
(* client may leave.                                                       *)
LEMMA FreshStays ==
  ASSUME TypeOK, [Next]_vars, NEW d \in Clients, d # clientSocket, Fresh(d)
  PROVE  Fresh(d)'
<1> USE DEF Fresh, TypeOK
<1>1. ASSUME NEW c \in Clients, AnswerDiscovery(c)
      PROVE  Fresh(d)'
  BY <1>1 DEF AnswerDiscovery
<1>2. CASE SendFrame
  BY <1>2 DEF SendFrame
<1>3. CASE SendToClosed
  BY <1>3 DEF SendToClosed
<1>4. CASE ReceiveBytes
  <2>1. up'[d] = up[d]
    BY <1>4 DEF ReceiveBytes
  <2> QED
    BY <1>4, <2>1 DEF ReceiveBytes
<1>5. ASSUME NEW c \in Clients, Connect(c)
      PROVE  Fresh(d)'
  BY <1>5 DEF Connect
<1>6. ASSUME NEW c \in Clients, TakeFrame(c)
      PROVE  Fresh(d)'
  BY <1>6 DEF TakeFrame
<1>7. ASSUME NEW c \in Clients, SendAck(c)
      PROVE  Fresh(d)'
  <2>1. c # d
    BY <1>7 DEF SendAck
  <2> QED
    BY <1>7, <2>1 DEF SendAck
<1>8. ASSUME NEW c \in Clients, Leave(c)
      PROVE  Fresh(d)'
  BY <1>8 DEF Leave
<1>9. CASE UNCHANGED clientVars
  BY <1>9 DEF clientVars
<1>10. \/ SendFrame \/ SendToClosed \/ ReceiveBytes \/ UNCHANGED clientVars
       \/ \E c \in Clients : AnswerDiscovery(c) \/ Connect(c) \/ TakeFrame(c) \/ SendAck(c) \/ Leave(c)
  BY DEF Next, ServerStep, vars, NoDiscovery, Accept, NothingToAccept, SendToReset,
         NothingSent, ReceiveEndOfStream, ReceiveNothing, clientVars
<1> QED
  BY <1>1, <1>2, <1>3, <1>4, <1>5, <1>6, <1>7, <1>8, <1>9, <1>10

(* A connection that waits for accept is there once and has carried        *)
(* nothing.                                                                *)
LEMMA BacklogStep == TypeOK /\ OneFrameInv /\ [Next]_vars => BacklogInv'
<1> SUFFICES ASSUME TypeOK, OneFrameInv, [Next]_vars
             PROVE  BacklogInv'
  OBVIOUS
<1>1. DOMAIN backlog = 1..Len(backlog) /\ Len(backlog) \in Nat
  BY LenProperties DEF TypeOK
<1>2. \A i \in DOMAIN backlog : backlog[i] \in Clients
  BY <1>1, ElementOfSeq DEF TypeOK
<1>3. \A i \in DOMAIN backlog : backlog[i] # clientSocket /\ Fresh(backlog[i])
  BY DEF OneFrameInv, BacklogInv
<1>4. \A i, j \in DOMAIN backlog : backlog[i] = backlog[j] => i = j
  BY DEF OneFrameInv, BacklogInv
<1>5. ASSUME NEW d \in Clients, \E i \in DOMAIN backlog : backlog[i] = d
      PROVE  Fresh(d)'
  BY <1>3, <1>5, FreshStays
<1>6. SUFFICES /\ \A i \in DOMAIN backlog' : backlog'[i] # clientSocket'
               /\ \A i, j \in DOMAIN backlog' : backlog'[i] = backlog'[j] => i = j
               /\ \A i \in DOMAIN backlog' : backlog'[i] \in Clients
               /\ \A d \in Clients : (\E i \in DOMAIN backlog' : backlog'[i] = d) => Fresh(d)'
  BY DEF BacklogInv, Fresh
<1>7. CASE Accept
  <2>1. /\ Len(Tail(backlog)) = Len(backlog) - 1
        /\ Head(backlog) = backlog[1]
        /\ 1 \in DOMAIN backlog
        /\ \A i \in 1..Len(Tail(backlog)) : Tail(backlog)[i] = backlog[i + 1]
        /\ DOMAIN Tail(backlog) = 1..Len(Tail(backlog))
    BY <1>1, <1>7, PoppedBacklog, LenProperties DEF Accept, TypeOK
  <2>2. \A i \in DOMAIN backlog' : /\ i \in Int
                                   /\ i + 1 \in DOMAIN backlog
                                   /\ i + 1 # 1
                                   /\ backlog'[i] = backlog[i + 1]
    BY <1>1, <1>7, <2>1 DEF Accept
  <2>3. clientSocket' = backlog[1]
    BY <1>7, <2>1 DEF Accept
  <2>4. \A i \in DOMAIN backlog' : backlog'[i] # clientSocket'
    BY <1>4, <2>1, <2>2, <2>3
  <2>5. \A i, j \in DOMAIN backlog' : backlog'[i] = backlog'[j] => i = j
    BY <1>4, <2>2
  <2> QED
    BY <1>2, <1>5, <2>2, <2>4, <2>5
<1>8. CASE \E c \in Clients : Connect(c)
  <2>0. PICK c \in Clients : Connect(c)
    BY <1>8
  <2>1. /\ Len(Append(backlog, c)) = Len(backlog) + 1
        /\ Append(backlog, c)[Len(backlog) + 1] = c
        /\ \A i \in 1..Len(backlog) : Append(backlog, c)[i] = backlog[i]
        /\ DOMAIN Append(backlog, c) = 1..Len(Append(backlog, c))
    BY PushedBacklog, LenProperties DEF TypeOK
  <2>2. c # clientSocket
    BY <2>0, NoClientAssumption DEF Connect, TypeOK, OneFrameInv, ServedInv
  <2>3. \A i \in DOMAIN backlog : backlog[i] # c
    BY <1>3, <2>0 DEF Connect, Fresh
  <2>4. \A i \in DOMAIN backlog' : \/ backlog'[i] = c /\ i = Len(backlog) + 1
                                   \/ i \in DOMAIN backlog /\ backlog'[i] = backlog[i]
    BY <1>1, <2>0, <2>1 DEF Connect
  <2>5. clientSocket' = clientSocket
    BY <2>0 DEF Connect
  <2>6. \A i \in DOMAIN backlog' : backlog'[i] # clientSocket'
    BY <1>3, <2>2, <2>4, <2>5
  <2>7. \A i, j \in DOMAIN backlog' : backlog'[i] = backlog'[j] => i = j
    BY <1>4, <2>3, <2>4
  <2>8. Fresh(c)'
    BY <2>0 DEF Connect, Fresh, OneFrameInv, ClientsInv, TypeOK
  <2> QED
    BY <1>2, <1>5, <2>4, <2>6, <2>7, <2>8
<1>9. CASE UNCHANGED <<backlog, clientSocket>>
  BY <1>2, <1>3, <1>4, <1>5, <1>9
<1>10. \/ Accept \/ UNCHANGED <<backlog, clientSocket>>
       \/ \E c \in Clients : Connect(c)
  BY DEF Next, ServerStep, vars, serverVars, AnswerDiscovery, NoDiscovery, NothingToAccept,
         SendFrame, SendToClosed, SendToReset, NothingSent, ReceiveBytes, ReceiveEndOfStream,
         ReceiveNothing, TakeFrame, SendAck, Leave
<1> QED
  BY <1>7, <1>8, <1>9, <1>10

(* Steps that leave the transport and the served client as they are.       *)
LEMMA ServedKept ==
  ASSUME TypeOK, OneFrameInv,
         UNCHANGED <<connected, clientSocket, state, frameNo, ackBuf>>,
         connected => /\ stage'[clientSocket] \in {"receive", "acknowledge", "gone"}
                      /\ up'[clientSocket] = up[clientSocket]
                      /\ Pending(clientSocket)' => Pending(clientSocket)
  PROVE  ServedInv'
BY DEF OneFrameInv, ServedInv, TooLittle, Untouched

(* What a receive does to a client's unread bytes and to the transport.    *)
LEMMA ServedReceives == TypeOK /\ OneFrameInv /\ ReceiveBytes => ServedInv'
<1> SUFFICES ASSUME TypeOK, OneFrameInv, ReceiveBytes
             PROVE  ServedInv'
  OBVIOUS
<1> DEFINE c == clientSocket
<1>1. c \in Clients /\ up[c] \in Seq(Bytes) /\ up[c] # << >> /\ connected
  BY DEF ReceiveBytes, TypeOK
<1>2. PICK n \in Arrived(c) :
        /\ HandleAck(Received(n))
        /\ up' = [up EXCEPT ![c] = SubSeq(@, n + 1, Len(@))]
  BY DEF ReceiveBytes, Received
<1>3. n \in 1..Len(up[c]) /\ n <= AckLen /\ Len(up[c]) \in Nat
  BY <1>1, SomeArrive, LenProperties
<1>4. Len(up'[c]) = Len(up[c]) - n
  BY <1>1, <1>2, <1>3, RestOfBytes DEF TypeOK
<1>5. UNCHANGED <<connected, clientSocket, stage, down>>
  BY DEF ReceiveBytes
<1>6. ~Untouched'
  BY <1>2, HandledAckDiffers
<1>7. n < AckLen => Received(n)[AckLen] = ackBuf[AckLen]
  BY <1>3, AckLength DEF Received
<1>8. n < AckLen /\ ~Untouched => state' = state
  BY <1>2, <1>7 DEF HandleAck, Untouched
<1>9. state' = "SEND_DATA" \/ state' = state
  BY <1>2 DEF HandleAck
<1>10. /\ stage[c] \in {"receive", "acknowledge", "gone"}
       /\ Pending(c) => state = "WAIT_FOR_ACK" /\ TooLittle(c)
       /\ state = "SEND_DATA" => TooLittle(c)
       /\ Len(up[c]) < 2 * AckLen
       /\ Untouched => Len(up[c]) <= AckLen
  BY <1>1 DEF OneFrameInv, ServedInv
<1>11. TooLittle(c) => n < AckLen /\ ~Untouched
  BY <1>1, <1>3, AckLength DEF TooLittle
<1>12. Pending(c)' <=> Pending(c)
  BY <1>5 DEF Pending
<1>13. Len(up'[c]) < AckLen => TooLittle(c)'
  BY <1>5, <1>6 DEF TooLittle
<1>14. Pending(c) => state' = "WAIT_FOR_ACK" /\ TooLittle(c)'
  BY <1>3, <1>4, <1>8, <1>10, <1>11, <1>13, AckLength DEF TooLittle
<1>15. ASSUME state' = "SEND_DATA" PROVE TooLittle(c)'
  <2>1. CASE n < AckLen /\ ~Untouched
    BY <1>3, <1>4, <1>8, <1>10, <1>13, <1>15, <2>1, AckLength DEF TooLittle
  <2>2. CASE n < AckLen /\ Untouched
    BY <1>3, <1>4, <1>10, <1>13, <2>2, AckLength
  <2>3. CASE n = AckLen
    BY <1>3, <1>4, <1>10, <1>13, <2>3, AckLength
  <2> QED
    BY <1>3, <2>1, <2>2, <2>3, AckLength
<1>16. Len(up'[c]) < 2 * AckLen
  BY <1>3, <1>4, <1>10, AckLength
<1> HIDE DEF c
<1> QED
  BY <1>5, <1>6, <1>10, <1>12, <1>14, <1>15, <1>16 DEF ServedInv, c

LEMMA ServedStep == TypeOK /\ OneFrameInv /\ [Next]_vars => ServedInv'
<1> SUFFICES ASSUME TypeOK, OneFrameInv, [Next]_vars
             PROVE  ServedInv'
  OBVIOUS
<1>1. connected => /\ clientSocket \in Clients
                   /\ stage[clientSocket] \in {"receive", "acknowledge", "gone"}
                   /\ Pending(clientSocket) => state = "WAIT_FOR_ACK" /\ TooLittle(clientSocket)
                   /\ state = "SEND_DATA" => TooLittle(clientSocket)
                   /\ Len(up[clientSocket]) < 2 * AckLen
                   /\ Untouched => Len(up[clientSocket]) <= AckLen
  BY DEF OneFrameInv, ServedInv, TypeOK
<1>2. ASSUME NEW c \in Clients, AnswerDiscovery(c)
      PROVE  ServedInv'
  <2>1. ~connected /\ UNCHANGED connected
    BY <1>2 DEF AnswerDiscovery
  <2> QED
    BY <2>1 DEF ServedInv
<1>3. CASE Accept
  <2>1. Head(backlog) \in Clients /\ Fresh(Head(backlog))
    <3>1. Head(backlog) = backlog[1] /\ 1 \in DOMAIN backlog
      BY <1>3, PoppedBacklog, LenProperties DEF Accept, TypeOK
    <3>2. Head(backlog) \in Clients
      BY <1>3, PoppedBacklog DEF Accept, TypeOK
    <3> QED
      BY <3>1, <3>2 DEF OneFrameInv, BacklogInv
  <2>2. /\ clientSocket' = Head(backlog)
        /\ UNCHANGED <<stage, down, up, state, frameNo, ackBuf>>
    BY <1>3 DEF Accept, clientVars, tlVars
  <2>3. /\ stage'[clientSocket'] \in {"receive", "gone"}
        /\ down'[clientSocket'] = 0
        /\ up'[clientSocket'] = << >>
    BY <2>1, <2>2 DEF Fresh
  <2>4. Len(up'[clientSocket']) = 0
    BY <2>3
  <2> QED
    BY <2>3, <2>4, AckLength DEF ServedInv, Pending, TooLittle
<1>4. CASE SendFrame
  <2>1. /\ connected /\ state = "SEND_DATA"
        /\ state' = "WAIT_FOR_ACK"
        /\ UNCHANGED <<connected, clientSocket, stage, up, frameNo, ackBuf>>
    BY <1>4 DEF SendFrame
  <2>2. TooLittle(clientSocket)'
    BY <1>1, <2>1 DEF TooLittle, Untouched
  <2> QED
    BY <1>1, <2>1, <2>2 DEF ServedInv, Untouched
<1>5. CASE SendToClosed
  <2>1. /\ connected /\ state = "SEND_DATA"
        /\ state' = "WAIT_FOR_ACK"
        /\ UNCHANGED <<connected, clientSocket, stage, down, up, frameNo, ackBuf>>
    BY <1>5 DEF SendToClosed
  <2>2. TooLittle(clientSocket)'
    BY <1>1, <2>1 DEF TooLittle, Untouched
  <2> QED
    BY <1>1, <2>1, <2>2 DEF ServedInv, Untouched
<1>6. CASE ReceiveBytes
  BY <1>6, ServedReceives
<1>7. CASE ReceiveEndOfStream
  <2>1. /\ connected /\ up[clientSocket] = << >>
        /\ link[clientSocket] # "open"
        /\ HandleAck(ackBuf)
        /\ UNCHANGED <<connected, clientSocket, stage, down, up>>
    BY <1>7 DEF ReceiveEndOfStream, clientVars
  <2>2. ~Untouched'
    BY <2>1, HandledAckDiffers
  <2>3. ~Pending(clientSocket)'
    BY <1>1, <2>1 DEF Pending, OneFrameInv, ClientsInv
  <2>4. Len(up'[clientSocket']) = 0
    BY <2>1
  <2> QED
    BY <1>1, <2>1, <2>2, <2>3, <2>4, AckLength DEF ServedInv, TooLittle
<1>8. ASSUME NEW c \in Clients, Connect(c)
      PROVE  ServedInv'
  <2>1. connected => c # clientSocket
    BY <1>1, <1>8 DEF Connect
  <2> QED
    BY <1>1, <1>8, <2>1, ServedKept DEF Connect, tlVars, Pending, TypeOK
<1>9. ASSUME NEW c \in Clients, TakeFrame(c)
      PROVE  ServedInv'
  <2>1. connected => /\ stage'[clientSocket] \in {"receive", "acknowledge", "gone"}
                     /\ Pending(clientSocket)' => Pending(clientSocket)
    BY <1>1, <1>9 DEF TakeFrame, Pending, TypeOK, OneFrameInv, ClientsInv, serverVars
  <2> QED
    BY <1>9, <2>1, ServedKept DEF TakeFrame, serverVars, tlVars
<1>10. ASSUME NEW c \in Clients, SendAck(c)
       PROVE  ServedInv'
  <2>1. CASE ~connected \/ c # clientSocket
    <3>1. connected => /\ stage'[clientSocket] = stage[clientSocket]
                       /\ up'[clientSocket] = up[clientSocket]
                       /\ Pending(clientSocket)' = Pending(clientSocket)
      BY <1>1, <1>10, <2>1 DEF SendAck, Pending, TypeOK, serverVars
    <3> QED
      BY <1>1, <1>10, <3>1, ServedKept DEF SendAck, serverVars, tlVars
  <2>2. CASE connected /\ c = clientSocket
    <3>1. /\ UNCHANGED <<connected, clientSocket, state, frameNo, ackBuf, down>>
          /\ stage[c] = "acknowledge" /\ stage'[c] = "receive"
          /\ up'[c] = up[c] \o Ack(clientFrameNo[c])
      BY <1>10 DEF SendAck, serverVars, tlVars, TypeOK
    <3>2. state = "WAIT_FOR_ACK" /\ TooLittle(c) /\ down[c] = 0
      BY <1>1, <2>2, <3>1 DEF Pending, OneFrameInv, ClientsInv
    <3>3. Len(up'[c]) = Len(up[c]) + AckLen /\ Len(up[c]) \in Nat
      BY <3>1, AckIsBytes, MoreBytes, LenProperties DEF TypeOK
    <3>4. ~Pending(c)'
      BY <3>1, <3>2 DEF Pending
    <3>5. Len(up'[c]) < 2 * AckLen
      BY <3>2, <3>3, AckLength DEF TooLittle
    <3>6. Untouched' => Len(up'[c]) <= AckLen
      BY <3>1, <3>2, <3>3, AckLength DEF TooLittle, Untouched
    <3> QED
      BY <2>2, <3>1, <3>2, <3>4, <3>5, <3>6 DEF ServedInv
  <2> QED
    BY <2>1, <2>2
<1>11. ASSUME NEW c \in Clients, Leave(c)
       PROVE  ServedInv'
  <2>1. connected => /\ stage'[clientSocket] \in {"receive", "acknowledge", "gone"}
                     /\ Pending(clientSocket)' => Pending(clientSocket)
    BY <1>1, <1>11 DEF Leave, Pending, TypeOK, serverVars
  <2> QED
    BY <1>11, <2>1, ServedKept DEF Leave, serverVars, tlVars
<1>12. CASE UNCHANGED <<connected, clientSocket, tlVars, clientVars>>
  BY <1>1, <1>12, ServedKept DEF tlVars, clientVars, Pending
<1>13. \/ Accept \/ SendFrame \/ SendToClosed \/ ReceiveBytes \/ ReceiveEndOfStream
       \/ UNCHANGED <<connected, clientSocket, tlVars, clientVars>>
       \/ \E c \in Clients : AnswerDiscovery(c) \/ Connect(c) \/ TakeFrame(c) \/ SendAck(c) \/ Leave(c)
  BY DEF Next, ServerStep, vars, serverVars, NoDiscovery, NothingToAccept, SendToReset,
         NothingSent, ReceiveNothing
<1> QED
  BY <1>2, <1>3, <1>4, <1>5, <1>6, <1>7, <1>8, <1>9, <1>10, <1>11, <1>12, <1>13

(* Stop and wait (PiVisImageDataTL.c:72-86): no client ever has two frames *)
(* to read, however acknowledgements are cut and whoever connects, leaves  *)
(* or is replaced.                                                         *)
THEOREM StopAndWait == Spec => []OneFrameInFlight
<1>1. TypeOK /\ OneFrameInv /\ [Next]_vars => (TypeOK /\ OneFrameInv)'
  BY TypeStep, ClientsStep, BacklogStep, ServedStep DEF OneFrameInv
<1>2. OneFrameInv => OneFrameInFlight
  BY DEF OneFrameInv, ClientsInv, OneFrameInFlight
<1> QED
  BY <1>1, <1>2, TypeInit, OneFrameInit, PTL DEF Spec
-----------------------------------------------------------------------------
(* Client and server in step, until an acknowledgement is read in pieces.  *)

(* Every connection is known to the server's side from connect on.         *)
LinkInv == \A c \in Clients : stage[c] \notin {"seeking", "found"} => link[c] # "none"

(* Nothing has been sent or counted before the first connection is         *)
(* accepted.                                                               *)
QuietBefore ==
  ~connected => /\ state = "SEND_DATA" /\ frameNo = 0
                /\ \A c \in Clients : /\ down[c] = 0
                                      /\ stage[c] # "acknowledge"
                                      /\ clientFrameNo[c] = 0

(* The first client, while no other has connected and no acknowledgement   *)
(* was read in pieces.                                                     *)
First(c) == clientSocket = c /\ link[c] = "open" /\ Alone(c) /\ ~split

(* What First and InStep say of c depends on these alone.                  *)
SideOf(c) == <<clientSocket, state, frameNo, link[c], stage[c], down[c], up[c], clientFrameNo[c], split>>

Answering(c) == /\ up[c] = << >>
                /\ clientFrameNo[c] = frameNo
                /\ down[c] = IF state = "WAIT_FOR_ACK" /\ stage[c] = "receive" THEN 1 ELSE 0
                /\ state = "SEND_DATA" => stage[c] = "receive"

Answered(c) == /\ state = "WAIT_FOR_ACK"
               /\ down[c] = 0 /\ stage[c] = "receive"
               /\ up[c] = Ack(frameNo)
               /\ clientFrameNo[c] = NextFrameNo(frameNo)

LEMMA InStepIsEither == InStep <=> \A c \in Clients : First(c) => Answering(c) \/ Answered(c)
BY DEF InStep, First, Answering, Answered

InStepInv == LinkInv /\ QuietBefore /\ InStep

LEMMA AckEndsWithNo ==
  ASSUME NEW n \in FrameNos
  PROVE  Ack(n)[AckLen] = n
BY AckHeaderAssumption, AppendProperties DEF Ack, AckLen

LEMMA NothingBefore ==
  ASSUME NEW s \in Seq(Bytes)
  PROVE  << >> \o s = s
BY ConcatProperties, EmptySeq, SMTT(30)

LEMMA LinkStep == TypeOK /\ LinkInv /\ [Next]_vars => LinkInv'
<1> SUFFICES ASSUME TypeOK, LinkInv, [Next]_vars
             PROVE  LinkInv'
  OBVIOUS
<1> USE DEF LinkInv, TypeOK
<1>1. ASSUME NEW c \in Clients, AnswerDiscovery(c)
      PROVE  LinkInv'
  BY <1>1 DEF AnswerDiscovery
<1>2. CASE SendToClosed
  BY <1>2 DEF SendToClosed
<1>3. ASSUME NEW c \in Clients, Connect(c)
      PROVE  LinkInv'
  BY <1>3 DEF Connect
<1>4. ASSUME NEW c \in Clients, TakeFrame(c)
      PROVE  LinkInv'
  BY <1>4 DEF TakeFrame
<1>5. ASSUME NEW c \in Clients, SendAck(c)
      PROVE  LinkInv'
  BY <1>5 DEF SendAck
<1>6. ASSUME NEW c \in Clients, Leave(c)
      PROVE  LinkInv'
  BY <1>6 DEF Leave
<1>7. CASE UNCHANGED <<stage, link>>
  BY <1>7
<1>8. \/ SendToClosed \/ UNCHANGED <<stage, link>>
      \/ \E c \in Clients : AnswerDiscovery(c) \/ Connect(c) \/ TakeFrame(c) \/ SendAck(c) \/ Leave(c)
  BY DEF Next, ServerStep, vars, NoDiscovery, Accept, NothingToAccept, SendFrame, SendToReset,
         NothingSent, ReceiveBytes, ReceiveEndOfStream, ReceiveNothing, clientVars
<1> QED
  BY <1>1, <1>2, <1>3, <1>4, <1>5, <1>6, <1>7, <1>8

LEMMA QuietStep == TypeOK /\ QuietBefore /\ [Next]_vars => QuietBefore'
<1> SUFFICES ASSUME TypeOK, QuietBefore, [Next]_vars, ~connected'
             PROVE  QuietBefore'
  BY DEF QuietBefore
<1>1. ~connected
  BY DEF Next, ServerStep, vars, serverVars, AnswerDiscovery, NoDiscovery, Accept,
         NothingToAccept, SendFrame, SendToClosed, SendToReset, NothingSent, ReceiveBytes,
         ReceiveEndOfStream, ReceiveNothing, Connect, TakeFrame, SendAck, Leave
<1>2. /\ state = "SEND_DATA" /\ frameNo = 0
      /\ \A c \in Clients : down[c] = 0 /\ stage[c] # "acknowledge" /\ clientFrameNo[c] = 0
  BY <1>1 DEF QuietBefore
<1>3. UNCHANGED tlVars
  BY <1>1, <1>2 DEF Next, ServerStep, vars, AnswerDiscovery, NoDiscovery, Accept,
         NothingToAccept, SendFrame, SendToClosed, SendToReset, NothingSent, ReceiveBytes,
         ReceiveEndOfStream, ReceiveNothing, Connect, TakeFrame, SendAck, Leave
<1>4. ASSUME NEW c \in Clients, AnswerDiscovery(c) \/ Connect(c) \/ Leave(c)
      PROVE  \A d \in Clients : down'[d] = 0 /\ stage'[d] # "acknowledge" /\ clientFrameNo'[d] = 0
  BY <1>2, <1>4 DEF AnswerDiscovery, Connect, Leave, TypeOK
<1>5. \A c \in Clients : ~TakeFrame(c) /\ ~SendAck(c)
  <2>1. \A c \in Clients : TakeFrame(c) => down[c] > 0
    BY DEF TakeFrame
  <2>2. \A c \in Clients : SendAck(c) => stage[c] = "acknowledge"
    BY DEF SendAck
  <2> QED
    BY <1>2, <2>1, <2>2
<1>6. \/ UNCHANGED <<stage, down, clientFrameNo>>
      \/ \E c \in Clients : AnswerDiscovery(c) \/ Connect(c) \/ Leave(c)
  BY <1>1, <1>5 DEF Next, ServerStep, vars, NoDiscovery, Accept, NothingToAccept, SendFrame,
         SendToClosed, SendToReset, NothingSent, ReceiveBytes, ReceiveEndOfStream,
         ReceiveNothing, clientVars
<1> QED
  BY <1>2, <1>3, <1>4, <1>6 DEF QuietBefore, tlVars

(* A step that changes nothing of c's connection and of the transport.     *)
LEMMA InStepKept ==
  ASSUME InStep, NEW c \in Clients, First(c)', UNCHANGED SideOf(c),
         \A d \in Clients : link'[d] = "none" => link[d] = "none"
  PROVE  Answering(c)' \/ Answered(c)'
<1>1. First(c)
  BY DEF First, Alone, SideOf
<1>2. Answering(c) \/ Answered(c)
  BY <1>1, InStepIsEither
<1>3. CASE Answering(c)
  BY <1>3 DEF Answering, SideOf
<1>4. CASE Answered(c)
  BY <1>4 DEF Answered, SideOf
<1> QED
  BY <1>2, <1>3, <1>4

(* The first connection is accepted before anything was sent.              *)
LEMMA InStepAccepts ==
  ASSUME TypeOK, OneFrameInv, LinkInv, QuietBefore, Accept, NEW c \in Clients, First(c)'
  PROVE  Answering(c)'
<1>1. /\ Head(backlog) = backlog[1] /\ 1 \in DOMAIN backlog
      /\ clientSocket' = Head(backlog)
      /\ UNCHANGED <<tlVars, clientVars, split>>
  BY PoppedBacklog, LenProperties DEF Accept, TypeOK
<1>2. Head(backlog) = c
  BY <1>1 DEF First
<1>3. Fresh(c) /\ c # clientSocket
  BY <1>1, <1>2 DEF OneFrameInv, BacklogInv
<1>4. link[c] = "open" /\ \A d \in Clients \ {c} : link[d] = "none"
  BY <1>1 DEF First, Alone, clientVars
<1>5. ~connected
  <2>1. connected => clientSocket \in Clients \ {c} /\ link[clientSocket] # "none"
    BY <1>3 DEF OneFrameInv, ServedInv, LinkInv, TypeOK
  <2> QED
    BY <1>4, <2>1
<1>6. state = "SEND_DATA" /\ frameNo = 0 /\ clientFrameNo[c] = 0
  BY <1>5 DEF QuietBefore
<1>7. stage[c] = "receive" /\ up[c] = << >> /\ down[c] = 0
  BY <1>3, <1>4 DEF Fresh, OneFrameInv, ClientsInv
<1> QED
  BY <1>1, <1>6, <1>7 DEF Answering, tlVars, clientVars

(* The acknowledgement is read whole, so the number is compared.           *)
LEMMA InStepReceives ==
  ASSUME TypeOK, InStep, ReceiveBytes, NEW c \in Clients, First(c)'
  PROVE  Answering(c)'
<1>1. /\ clientSocket = c /\ up[c] # << >>
      /\ UNCHANGED <<clientSocket, stage, link, down, clientFrameNo>>
  BY DEF ReceiveBytes, First
<1>2. First(c)
  BY <1>1 DEF ReceiveBytes, First, Alone
<1>3. Answered(c)
  BY <1>1, <1>2, InStepIsEither DEF Answering
<1>4. frameNo \in FrameNos /\ up[c] = Ack(frameNo) /\ Len(up[c]) = AckLen /\ up[c] \in Seq(Bytes)
  BY <1>3, AckIsBytes DEF Answered, TypeOK
<1>5. PICK n \in Arrived(c) :
        /\ HandleAck(Received(n))
        /\ up' = [up EXCEPT ![c] = SubSeq(@, n + 1, Len(@))]
        /\ split' = (split \/ n < AckLen)
  BY <1>1 DEF ReceiveBytes, Received
<1>6. /\ HandleAck(Received(AckLen))
      /\ up' = [up EXCEPT ![c] = SubSeq(@, AckLen + 1, Len(@))]
  <2>1. ~(n < AckLen)
    BY <1>5 DEF First
  <2>2. n = AckLen
    BY <1>4, <2>1, AckLength DEF Arrived
  <2> QED
    BY <1>5, <2>2
<1>7. Received(AckLen)[AckLen] = frameNo
  BY <1>1, <1>4, AckEndsWithNo, AckLength DEF Received
<1>8. state' = "SEND_DATA" /\ frameNo' = NextFrameNo(frameNo)
  BY <1>6, <1>7 DEF HandleAck
<1>9. up'[c] = << >>
  <2>1. /\ up'[c] = SubSeq(up[c], AckLen + 1, Len(up[c]))
        /\ up'[c] \in Seq(Bytes) /\ Len(up'[c]) = 0
    BY <1>4, <1>6, AckLength, RestOfBytes DEF TypeOK
  <2> QED
    BY <2>1, EmptySeq
<1> QED
  BY <1>1, <1>3, <1>8, <1>9 DEF Answering, Answered

LEMMA InStepStep == TypeOK /\ OneFrameInv /\ InStepInv /\ [Next]_vars => InStep'
<1> SUFFICES ASSUME TypeOK, OneFrameInv, LinkInv, QuietBefore, InStep, [Next]_vars,
                    NEW c \in Clients, First(c)'
             PROVE  Answering(c)' \/ Answered(c)'
  BY InStepIsEither DEF InStepInv, InStep, First, Answering, Answered
<1>1. CASE Accept
  BY <1>1, InStepAccepts
<1>2. CASE SendFrame
  <2>1. /\ clientSocket = c /\ state = "SEND_DATA" /\ state' = "WAIT_FOR_ACK"
        /\ down'[c] = down[c] + 1
        /\ UNCHANGED <<clientSocket, frameNo, stage, link, up, clientFrameNo, split>>
    BY <1>2 DEF SendFrame, First, TypeOK
  <2>2. First(c)
    BY <2>1 DEF First, Alone
  <2>3. Answering(c)
    BY <2>1, <2>2, InStepIsEither DEF Answered
  <2> QED
    BY <2>1, <2>3 DEF Answering
<1>3. CASE SendToClosed
  BY <1>3 DEF SendToClosed, First, TypeOK
<1>4. CASE ReceiveBytes
  BY <1>4, InStepReceives
<1>5. CASE ReceiveEndOfStream
  BY <1>5 DEF ReceiveEndOfStream, First, clientVars
<1>6. ASSUME NEW d \in Clients, AnswerDiscovery(d)
      PROVE  FALSE
  BY <1>6, NoClientAssumption DEF AnswerDiscovery, First, TypeOK
<1>7. ASSUME NEW d \in Clients, Connect(d)
      PROVE  FALSE
  <2>1. CASE d = c
    BY <1>7, <2>1, NoClientAssumption DEF Connect, First, OneFrameInv, ServedInv, TypeOK
  <2>2. CASE d # c
    BY <1>7, <2>2 DEF Connect, First, Alone, TypeOK
  <2> QED
    BY <2>1, <2>2
<1>8. ASSUME NEW d \in Clients, TakeFrame(d)
      PROVE  Answering(c)' \/ Answered(c)'
  <2>1. UNCHANGED <<clientSocket, state, frameNo, link, up, clientFrameNo, split>>
    BY <1>8 DEF TakeFrame, serverVars, tlVars
  <2>2. CASE d # c
    BY <1>8, <2>1, <2>2, InStepKept DEF TakeFrame, SideOf, TypeOK
  <2>3. CASE d = c
    <3>1. /\ stage[c] = "receive" /\ stage'[c] = "acknowledge"
          /\ down[c] # 0 /\ down'[c] = down[c] - 1
      BY <1>8, <2>3 DEF TakeFrame, TypeOK
    <3>2. First(c)
      BY <2>1 DEF First, Alone
    <3>3. Answering(c)
      BY <3>1, <3>2, InStepIsEither DEF Answered
    <3>4. down[c] = 1 /\ state = "WAIT_FOR_ACK"
      BY <3>1, <3>3 DEF Answering
    <3> QED
      BY <2>1, <3>1, <3>3, <3>4 DEF Answering
  <2> QED
    BY <2>2, <2>3
<1>9. ASSUME NEW d \in Clients, SendAck(d)
      PROVE  Answering(c)' \/ Answered(c)'
  <2>1. UNCHANGED <<clientSocket, state, frameNo, link, down, split>>
    BY <1>9 DEF SendAck, serverVars, tlVars
  <2>2. CASE d # c
    BY <1>9, <2>1, <2>2, InStepKept DEF SendAck, SideOf, TypeOK
  <2>3. CASE d = c
    <3>1. /\ stage[c] = "acknowledge" /\ stage'[c] = "receive"
          /\ up'[c] = up[c] \o Ack(clientFrameNo[c])
          /\ clientFrameNo'[c] = NextFrameNo(clientFrameNo[c])
          /\ clientFrameNo[c] \in FrameNos
          /\ state \in {"SEND_DATA", "WAIT_FOR_ACK"}
      BY <1>9, <2>3 DEF SendAck, TypeOK
    <3>2. First(c)
      BY <2>1 DEF First, Alone
    <3>3. Answering(c)
      BY <3>1, <3>2, InStepIsEither DEF Answered
    <3>4. up'[c] = Ack(frameNo)
      BY <3>1, <3>3, AckIsBytes, NothingBefore DEF Answering
    <3> QED
      BY <2>1, <3>1, <3>3, <3>4 DEF Answering, Answered
  <2> QED
    BY <2>2, <2>3
<1>10. ASSUME NEW d \in Clients, Leave(d)
       PROVE  Answering(c)' \/ Answered(c)'
  <2>1. link'[d] \in {"reset", "closed"}
    BY <1>10 DEF Leave, TypeOK
  <2> QED
    BY <2>1 DEF First, Alone
<1>11. CASE UNCHANGED <<clientSocket, tlVars, clientVars, split>>
  BY <1>11, InStepKept DEF tlVars, clientVars, SideOf
<1>12. \/ Accept \/ SendFrame \/ SendToClosed \/ ReceiveBytes \/ ReceiveEndOfStream
       \/ UNCHANGED <<clientSocket, tlVars, clientVars, split>>
       \/ \E d \in Clients : AnswerDiscovery(d) \/ Connect(d) \/ TakeFrame(d) \/ SendAck(d) \/ Leave(d)
  BY DEF Next, ServerStep, vars, serverVars, NoDiscovery, NothingToAccept, SendToReset,
         NothingSent, ReceiveNothing
<1> QED
  BY <1>1, <1>2, <1>3, <1>4, <1>5, <1>6, <1>7, <1>8, <1>9, <1>10, <1>11, <1>12

(* Until an acknowledgement is read in pieces, the first client and the    *)
(* server agree on the next number, and frame, client and acknowledgement  *)
(* take turns (PiVisImageDataTL.c:40-44, PiVisClient.py:96-104).           *)
THEOREM FirstClientInStep == Spec => []InStep
<1>1. Init => LinkInv /\ QuietBefore /\ InStep
  BY NoClientAssumption DEF Init, LinkInv, QuietBefore, InStep
<1>2. TypeOK /\ OneFrameInv /\ InStepInv /\ [Next]_vars => (TypeOK /\ OneFrameInv /\ InStepInv)'
  BY TypeStep, ClientsStep, BacklogStep, ServedStep, LinkStep, QuietStep, InStepStep
     DEF OneFrameInv, InStepInv
<1>3. Init => InStepInv
  BY <1>1 DEF InStepInv
<1>4. InStepInv => InStep
  BY DEF InStepInv
<1> QED
  BY <1>2, <1>3, <1>4, TypeInit, OneFrameInit, PTL DEF Spec
=============================================================================
