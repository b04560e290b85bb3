---------------------- MODULE EthTermConnectionProofs ----------------------
(***************************************************************************)
(* Proofs about EthTermConnection, for every number of images and every    *)
(* room on the connection: the window is one image as long as the          *)
(* connection stands, nothing runs in an object that is destroyed, and the *)
(* images are published in order, but for one that the shortcut overtakes  *)
(* and for a part of one at the end.                                       *)
(*                                                                         *)
(* OrderInv, from which the order follows, is about each kind of server: a *)
(* camera, whose images are numbered along the connection; an object of    *)
(* another process, which sends one image at a time; and an object of the  *)
(* same process, where the one image that is on its way when the shortcut  *)
(* opens is the last of the connection.                                    *)
(***************************************************************************)
EXTENDS EthTermConnection, FiniteSetTheorems, SequenceTheorems, TLAPS

Holds(s, k) == \E i \in 1..Len(s) : s[i].kind = k
Once(s, k) == \A i, j \in 1..Len(s) : s[i].kind = k /\ s[j].kind = k => i = j

LEMMA Appended ==
  ASSUME NEW s \in Seq(Messages), NEW m \in Messages
  PROVE  /\ Append(s, m) \in Seq(Messages) /\ Len(Append(s, m)) = Len(s) + 1
         /\ \A k : Holds(Append(s, m), k) <=> Holds(s, k) \/ m.kind = k
         /\ \A k : Once(s, k) /\ (m.kind = k => ~Holds(s, k)) => Once(Append(s, m), k)
<1> DEFINE t == Append(s, m)
<1>1. /\ t \in Seq(Messages) /\ Len(s) \in Nat /\ Len(t) = Len(s) + 1
      /\ \A i \in 1..Len(s) : t[i] = s[i]
      /\ t[Len(s) + 1] = m
  BY AppendProperties, LenProperties
<1>2. 1..Len(t) = 1..Len(s) \cup {Len(s) + 1}
  BY <1>1
<1> HIDE DEF t
<1>3. \A k : Holds(t, k) <=> Holds(s, k) \/ m.kind = k
  BY <1>1, <1>2 DEF Holds
<1>4. \A k : Once(s, k) /\ (m.kind = k => ~Holds(s, k)) => Once(t, k)
  BY <1>1, <1>2 DEF Holds, Once
<1> QED
  BY <1>1, <1>3, <1>4 DEF t

LEMMA Taken ==
  ASSUME NEW s \in Seq(Messages), s # << >>
  PROVE  /\ Head(s) \in Messages /\ Tail(s) \in Seq(Messages) /\ Len(Tail(s)) = Len(s) - 1
         /\ \A k : Once(s, k) => Once(Tail(s), k)
         /\ \A k : Head(s).kind # k => (Holds(Tail(s), k) <=> Holds(s, k))
         /\ \A k : Head(s).kind = k => Holds(s, k) /\ (Once(s, k) => ~Holds(Tail(s), k))
<1> DEFINE t == Tail(s)
           h == Head(s)
<1>1. /\ h \in Messages /\ t \in Seq(Messages) /\ Len(s) \in Nat \ {0} /\ Len(t) = Len(s) - 1
      /\ \A i \in 1..Len(t) : t[i] = s[i + 1]
      /\ h = s[1]
  BY HeadTailProperties, EmptySeq
<1> HIDE DEF t, h
<1>2. \A i \in 1..Len(t) : i + 1 \in 1..Len(s) /\ i + 1 # 1
  BY <1>1
<1>3. \A i \in 1..Len(s) : i = 1 \/ (i - 1 \in 1..Len(t) /\ t[i - 1] = s[i])
  BY <1>1
<1>4. 1 \in 1..Len(s)
  BY <1>1
<1>5. \A k : Once(s, k) => Once(t, k)
  <2> SUFFICES ASSUME NEW k, Once(s, k), NEW i \in 1..Len(t), NEW j \in 1..Len(t),
                      t[i].kind = k, t[j].kind = k
               PROVE  i = j
    BY DEF Once
  <2>1. i + 1 = j + 1
    BY <1>1, <1>2 DEF Once
  <2> QED
    BY <2>1
<1>6. \A k : h.kind # k => (Holds(t, k) <=> Holds(s, k))
  BY <1>1, <1>2, <1>3 DEF Holds
<1>7. \A k : h.kind = k => Holds(s, k) /\ (Once(s, k) => ~Holds(t, k))
  BY <1>1, <1>2, <1>4 DEF Holds, Once
<1> QED
  BY <1>1, <1>5, <1>6, <1>7 DEF t, h

(* What is in the two directions of a connection.  It is open at both ends *)
(* or at none, and only its end cuts a message.                            *)
WireInv ==
  /\ link \in [Ends -> {"open", "closed", "reset"}]
  /\ wire \in [Ends -> Seq(Messages)]
  /\ link["server"] = "open" <=> link["client"] = "open"
  /\ \A e \in Ends : /\ Len(wire[e]) <= WireSize + 1
                     /\ link[e] = "open" => Len(wire[e]) <= WireSize /\ ~Holds(wire[e], "cut")

BasicInv == TypeOK /\ WireInv /\ (handler["server"] = "data" => accepted > 0)

LEMMA MessageKinds ==
  /\ {Ack, Heartbeat, Pid, Cut} \subseteq Messages
  /\ \A n \in Frames : Data(n) \in Messages /\ Data(n).kind = "data" /\ Data(n).frame = n
  /\ Ack.kind = "ack" /\ Heartbeat.kind = "heartbeat" /\ Pid.kind = "pid" /\ Cut.kind = "cut"
  /\ \A m \in Messages : m.kind = "data" => m.frame \in Frames
BY DEF Messages, Data, Ack, Heartbeat, Pid, Cut, Message

(* What a connection looks like when nothing is left, or a part is added.  *)
LEMMA WireEnds ==
  /\ << >> \in Seq(Messages) /\ Len(<< >>) = 0 /\ \A k : ~Holds(<< >>, k) /\ Once(<< >>, k)
  /\ \A s \in Seq(Messages) : s \o << >> = s /\ s \o <<Cut>> = Append(s, Cut) /\ Len(s) \in Nat
  /\ \A s \in Seq(Messages) : s \o <<Cut>> \in Seq(Messages) /\ Len(s \o <<Cut>>) = Len(s) + 1
<1>1. << >> \in Seq(Messages) /\ Len(<< >>) = 0
  BY EmptySeq
<1>2. \A k : ~Holds(<< >>, k) /\ Once(<< >>, k)
  BY <1>1 DEF Holds, Once
<1>3. \A s \in Seq(Messages) : s \o << >> = s /\ s \o <<Cut>> = Append(s, Cut) /\ Len(s) \in Nat
  BY ConcatEmptySeq, AppendIsConcat, LenProperties, MessageKinds
<1> QED
  BY <1>1, <1>2, <1>3, Appended, MessageKinds

LEMMA PartAdded ==
  ASSUME NEW s \in Seq(Messages), NEW rest \in {<< >>, <<Cut>>}
  PROVE  /\ s \o rest \in Seq(Messages)
         /\ Len(s) \in Nat /\ Len(s \o rest) \in Nat /\ Len(s \o rest) <= Len(s) + 1
<1>1. CASE rest = << >>
  BY <1>1, WireEnds, LenProperties
<1>2. CASE rest = <<Cut>>
  <2>1. s \o rest = Append(s, Cut) /\ Cut \in Messages
    BY <1>2, AppendIsConcat, MessageKinds
  <2>2. Append(s, Cut) \in Seq(Messages) /\ Len(Append(s, Cut)) = Len(s) + 1 /\ Len(s) \in Nat
    BY <2>1, Appended, LenProperties
  <2> QED
    BY <2>1, <2>2
<1> QED
  BY <1>1, <1>2

(* A Send() keeps the connection well-formed.                              *)
LEMMA TransmitKeepsWire ==
  ASSUME WireInv, active \in [Ends -> BOOLEAN], NEW e \in Ends, NEW m \in Messages, m.kind # "cut",
         Transmit(e, m)
  PROVE  WireInv' /\ active' \in [Ends -> BOOLEAN]
<1>1. Peer(e) \in Ends /\ WireSize \in Nat
  BY WireSizeAssumption DEF Peer, Ends
<1>2. CASE /\ link[e] = "open" /\ Len(wire[Peer(e)]) < WireSize
           /\ wire' = [wire EXCEPT ![Peer(e)] = Append(@, m)]
           /\ UNCHANGED <<link, active>>
  <2>1. wire[Peer(e)] \in Seq(Messages) /\ Len(wire[Peer(e)]) \in Nat
    BY <1>1, WireEnds DEF WireInv
  <2>2. Append(wire[Peer(e)], m) \in Seq(Messages) /\ Len(Append(wire[Peer(e)], m)) = Len(wire[Peer(e)]) + 1
    BY <2>1, Appended
  <2>3. ~Holds(wire[Peer(e)], "cut") => ~Holds(Append(wire[Peer(e)], m), "cut")
    BY <2>1, Appended
  <2>4. \A d \in Ends : wire'[d] = IF d = Peer(e) THEN Append(wire[d], m) ELSE wire[d]
    BY <1>2 DEF WireInv
  <2> QED
    BY <1>1, <1>2, <2>1, <2>2, <2>3, <2>4 DEF WireInv
<1>3. CASE /\ link[e] = "closed"
           /\ \E l \in {"closed", "reset"} : link' = [link EXCEPT ![e] = l]
           /\ UNCHANGED <<wire, active>>
  BY <1>3 DEF WireInv, Ends
<1>4. CASE /\ link[e] = "reset"
           /\ active' = [active EXCEPT ![e] = FALSE]
           /\ UNCHANGED <<wire, link>>
  BY <1>4 DEF WireInv
<1> QED
  BY <1>2, <1>3, <1>4 DEF Transmit

(* The first message is read.                                              *)
LEMMA ReadKeepsWire ==
  ASSUME WireInv, NEW e \in Ends, wire[e] # << >>,
         wire' = [wire EXCEPT ![e] = Tail(@)], UNCHANGED link
  PROVE  WireInv'
<1>1. wire[e] \in Seq(Messages) /\ Len(wire[e]) \in Nat
  BY WireEnds DEF WireInv
<1>2. /\ Tail(wire[e]) \in Seq(Messages) /\ Len(Tail(wire[e])) = Len(wire[e]) - 1
      /\ ~Holds(wire[e], "cut") => ~Holds(Tail(wire[e]), "cut")
  BY <1>1, Taken
<1>3. \A d \in Ends : wire'[d] = IF d = e THEN Tail(wire[d]) ELSE wire[d]
  BY DEF WireInv
<1> QED
  BY <1>1, <1>2, <1>3, WireSizeAssumption DEF WireInv

(* Nothing that is received is left.                                       *)
LEMMA DropKeepsWire ==
  ASSUME WireInv, NEW e \in Ends, wire' = [wire EXCEPT ![e] = << >>], UNCHANGED link
  PROVE  WireInv'
<1>1. \A d \in Ends : wire'[d] = IF d = e THEN << >> ELSE wire[d]
  BY DEF WireInv
<1> QED
  BY <1>1, WireEnds, WireSizeAssumption DEF WireInv

(* A connection ends, with what Begun() says of a message under way.       *)
LEMMA EndKeepsWire ==
  ASSUME WireInv, NEW e \in Ends, End(e)
  PROVE  WireInv'
<1>1. Peer(e) \in Ends /\ Peer(e) # e /\ \A d \in Ends : d = e \/ d = Peer(e)
  BY DEF Peer, Ends
<1>2. link' \in [Ends -> {"open", "closed", "reset"}] /\ \A d \in Ends : link'[d] # "open"
  BY <1>1 DEF End, WireInv, Ends
<1>3. PICK rest \in Begun(e) : wire' = [wire EXCEPT ![e] = << >>, ![Peer(e)] = @ \o rest]
  BY DEF End
<1>4. rest \in {<< >>, <<Cut>>} /\ (rest = << >> \/ link[Peer(e)] = "open")
  BY <1>1 DEF Begun, WireInv, Ends, Peer
<1>5. wire[Peer(e)] \o rest \in Seq(Messages) /\ Len(wire[Peer(e)] \o rest) <= WireSize + 1
  <2>1. wire[Peer(e)] \in Seq(Messages) /\ Len(wire[Peer(e)]) <= WireSize + 1
        /\ (link[Peer(e)] = "open" => Len(wire[Peer(e)]) <= WireSize)
    BY <1>1 DEF WireInv
  <2>2. CASE rest = << >>
    BY <2>1, <2>2, WireEnds
  <2>3. CASE link[Peer(e)] = "open"
    <3>1. /\ wire[Peer(e)] \o rest \in Seq(Messages)
          /\ Len(wire[Peer(e)] \o rest) \in Nat /\ Len(wire[Peer(e)]) \in Nat
          /\ Len(wire[Peer(e)] \o rest) <= Len(wire[Peer(e)]) + 1
      BY <1>4, <2>1, PartAdded
    <3> QED
      BY <2>1, <2>3, <3>1, WireSizeAssumption
  <2> QED
    BY <1>4, <2>2, <2>3
<1>6. \A d \in Ends : wire'[d] = IF d = e THEN << >> ELSE wire[d] \o rest
  BY <1>1, <1>3 DEF WireInv
<1>7. wire' \in [Ends -> Seq(Messages)]
  BY <1>1, <1>3, <1>5, WireEnds DEF WireInv
<1> QED
  BY <1>1, <1>2, <1>5, <1>6, <1>7, WireEnds, WireSizeAssumption DEF WireInv, Ends

LEMMA BreakKeepsWire ==
  ASSUME WireInv, Break
  PROVE  WireInv'
<1>1. link' \in [Ends -> {"open", "closed", "reset"}] /\ \A d \in Ends : link'[d] # "open"
  BY DEF Break, WireInv
<1>2. \A e \in Ends : link[e] = "open"
  BY DEF Break, WireInv, Ends
<1>3. PICK c \in Begun("server"), s \in Begun("client") :
        wire' = [wire EXCEPT !["client"] = @ \o c, !["server"] = @ \o s]
  BY DEF Break
<1>4. c \in {<< >>, <<Cut>>} /\ s \in {<< >>, <<Cut>>}
  BY DEF Begun
<1>5. \A w \in Seq(Messages), r \in {<< >>, <<Cut>>} :
        w \o r \in Seq(Messages) /\ (Len(w) <= WireSize => Len(w \o r) <= WireSize + 1)
  <2> SUFFICES ASSUME NEW w \in Seq(Messages), NEW r \in {<< >>, <<Cut>>}
               PROVE  w \o r \in Seq(Messages) /\ (Len(w) <= WireSize => Len(w \o r) <= WireSize + 1)
    OBVIOUS
  <2>1. w \o r \in Seq(Messages) /\ Len(w \o r) <= Len(w) + 1 /\ Len(w) \in Nat /\ Len(w \o r) \in Nat
    BY PartAdded, LenProperties
  <2> QED
    BY <2>1, WireSizeAssumption
<1>6. wire' \in [Ends -> Seq(Messages)]
  BY <1>3, <1>4, <1>5 DEF WireInv, Ends
<1>7. wire'["client"] = wire["client"] \o c /\ wire'["server"] = wire["server"] \o s
  BY <1>3 DEF WireInv, Ends
<1>8. \A e \in Ends : Len(wire'[e]) <= WireSize + 1
  BY <1>2, <1>4, <1>5, <1>7 DEF WireInv, Ends
<1> QED
  BY <1>1, <1>6, <1>8 DEF WireInv, Ends

LEMMA BasicInit == Init => BasicInv
<1> SUFFICES ASSUME Init PROVE BasicInv
  OBVIOUS
<1>1. WireInv
  BY WireEnds, WireSizeAssumption DEF Init, WireInv, Ends
<1>2. TypeOK
  <2>1. published \in Seq(Frames \cup {CutFrame})
    BY EmptySeq DEF Init
  <2> QED
    <3>1. active \in [Ends -> BOOLEAN] /\ lastHeartbeatReceived \in [Ends -> BOOLEAN]
      BY DEF Init
    <3>2. pc \in [Ends -> {"start", "receive", "ack", "leave", "ended", "destroyed"}]
      BY DEF Init
    <3>3. receivedAck \in BOOLEAN /\ isInSameProcess \in BOOLEAN /\ sentPid \in BOOLEAN
      BY DEF Init
    <3>4. /\ server \in {"remote", "local", "camera"}
          /\ handler \in [Ends -> {"idle", "data", "pid", "heartbeat"}]
          /\ accepted \in 0..MaxFrames
      BY MaxFramesAssumption DEF Init
    <3> QED
      BY <1>1, <2>1, <3>1, <3>2, <3>3, <3>4 DEF TypeOK, WireInv
<1> QED
  BY <1>1, <1>2 DEF Init, BasicInv, Ends

(* What is published are images and parts of them.                         *)
LEMMA PublishedImages ==
  ASSUME TypeOK, NEW n \in Frames \cup {CutFrame}
  PROVE  Append(published, n) \in Seq(Frames \cup {CutFrame})
BY AppendProperties DEF TypeOK

LEMMA BasicStep == BasicInv /\ [Next]_vars => BasicInv'
<1> SUFFICES ASSUME BasicInv, [Next]_vars PROVE BasicInv'
  OBVIOUS
<1>1. TypeOK /\ WireInv /\ (handler["server"] = "data" => accepted > 0)
  BY DEF BasicInv
<1>2. MaxFrames \in Nat /\ Ends = {"server", "client"}
  BY MaxFramesAssumption DEF Ends
<1> DEFINE Places == {"start", "receive", "ack", "leave", "ended", "destroyed"}
<1>3. \A e \in Ends : Round(e) \in Places
  BY DEF Round
<1>4. CASE AcceptFrame
  <2>1. accepted' \in 1..MaxFrames
    BY <1>1, <1>2, <1>4 DEF AcceptFrame, MayTakeFrame, TypeOK
  <2>2. handler' \in [Ends -> {"idle", "data", "pid", "heartbeat"}]
    BY <1>1, <1>4 DEF AcceptFrame, TypeOK
  <2>3. receivedAck' \in BOOLEAN
    BY <1>4 DEF AcceptFrame
  <2>4. UNCHANGED <<server, link, wire, active, pc, lastHeartbeatReceived, isInSameProcess, sentPid, published>>
    BY <1>4 DEF AcceptFrame
  <2>5. TypeOK'
    BY <1>1, <2>1, <2>2, <2>3, <2>4 DEF TypeOK
  <2> QED
    BY <1>1, <2>1, <2>4, <2>5 DEF BasicInv, WireInv
<1>5. CASE ShortcutFrame
  <2>1. accepted' \in 1..MaxFrames /\ accepted' = accepted + 1
    BY <1>1, <1>2, <1>5 DEF ShortcutFrame, MayTakeFrame, TypeOK
  <2>2. published' \in Seq(Frames \cup {CutFrame})
    BY <1>1, <1>5, <2>1, PublishedImages DEF ShortcutFrame, Frames
  <2> QED
    BY <1>1, <1>5, <2>1, <2>2 DEF ShortcutFrame, BasicInv, TypeOK, WireInv
<1>6. CASE CameraSend
  <2>1. accepted' \in 1..MaxFrames /\ accepted' = accepted + 1
    BY <1>1, <1>2, <1>6 DEF CameraSend, TypeOK
  <2>2. Data(accepted + 1) \in Messages /\ Data(accepted + 1).kind # "cut"
    BY <2>1, MessageKinds DEF Frames
  <2>3. Transmit("server", Data(accepted + 1)) /\ UNCHANGED <<link, active>>
    BY <1>6 DEF CameraSend, Transmit, Peer
  <2>4. WireInv'
    BY <1>1, <1>2, <2>2, <2>3, TransmitKeepsWire DEF TypeOK
  <2> QED
    BY <1>1, <1>6, <2>1, <2>4 DEF CameraSend, BasicInv, TypeOK, WireInv
<1>7. CASE Break
  BY <1>1, <1>7, BreakKeepsWire DEF Break, BasicInv, TypeOK, WireInv
<1>8. CASE SendFrame
  <2>1. Data(accepted) \in Messages /\ Data(accepted).kind # "cut"
    BY <1>1, <1>8, MessageKinds DEF SendFrame, TypeOK, Frames
  <2>2. WireInv' /\ active' \in [Ends -> BOOLEAN]
    BY <1>1, <1>2, <1>8, <2>1, TransmitKeepsWire DEF SendFrame, TypeOK
  <2> QED
    BY <1>1, <1>8, <2>2 DEF SendFrame, BasicInv, TypeOK, WireInv
<1>9. CASE SendPid
  <2>1. WireInv' /\ active' \in [Ends -> BOOLEAN]
    BY <1>1, <1>2, <1>9, MessageKinds, TransmitKeepsWire DEF SendPid, TypeOK
  <2>2. handler' \in [Ends -> {"idle", "data", "pid", "heartbeat"}] /\ handler'["server"] = handler["server"]
    BY <1>1, <1>2, <1>9 DEF SendPid, TypeOK
  <2>3. UNCHANGED <<server, pc, lastHeartbeatReceived, receivedAck, isInSameProcess, sentPid, accepted, published>>
    BY <1>9 DEF SendPid
  <2> QED
    BY <1>1, <1>9, <2>1, <2>2, <2>3 DEF BasicInv, TypeOK, WireInv
<1>10. CASE ReceiveData
  <2>1. wire["client"] \in Seq(Messages) /\ wire["client"] # << >>
    BY <1>1, <1>2, <1>10 DEF ReceiveData, Read, WireInv
  <2>2. Head(wire["client"]).frame \in Frames
    BY <1>10, <2>1, Taken, MessageKinds DEF ReceiveData, Read
  <2>3. WireInv'
    BY <1>1, <1>2, <1>10, ReadKeepsWire DEF ReceiveData, Read
  <2>4. published' \in Seq(Frames \cup {CutFrame})
    BY <1>1, <1>10, <2>2, PublishedImages DEF ReceiveData
  <2> QED
    BY <1>1, <1>10, <2>3, <2>4 DEF ReceiveData, Read, BasicInv, TypeOK, WireInv
<1>11. CASE ReceiveAck \/ ReceivePid
  <2>1. WireInv'
    BY <1>1, <1>2, <1>11, ReadKeepsWire DEF ReceiveAck, ReceivePid, Read
  <2>2. pc' \in [Ends -> Places]
    <3>1. pc' = [pc EXCEPT !["server"] = Round("server")]
      BY <1>11 DEF ReceiveAck, ReceivePid
    <3> QED
      BY <1>1, <1>3, <3>1 DEF TypeOK
  <2>3. receivedAck' \in BOOLEAN /\ isInSameProcess' \in BOOLEAN
    BY <1>1, <1>11 DEF ReceiveAck, ReceivePid, TypeOK
  <2>4. UNCHANGED <<server, link, active, handler, lastHeartbeatReceived, sentPid, accepted, published>>
    BY <1>11 DEF ReceiveAck, ReceivePid, Read
  <2> QED
    BY <1>1, <2>1, <2>2, <2>3, <2>4 DEF BasicInv, TypeOK, WireInv
<1>12. ASSUME NEW e \in Ends, \/ LastHeartbeatTimeout(e) \/ Stop(e) \/ Start(e)
                              \/ GiveUp(e) \/ Destroy(e)
       PROVE  BasicInv'
  <2>1. pc' \in [Ends -> Places]
    <3>1. pc' \in {pc, [pc EXCEPT ![e] = Round(e)], [pc EXCEPT ![e] = "leave"], [pc EXCEPT ![e] = "destroyed"]}
      BY <1>12 DEF LastHeartbeatTimeout, Stop, Start, GiveUp, Destroy
    <3>2. pc \in [Ends -> Places] /\ Round(e) \in Places /\ "leave" \in Places /\ "destroyed" \in Places
      BY <1>1, <1>3 DEF TypeOK, Places
    <3> QED
      BY <3>1, <3>2
  <2>2. active' \in [Ends -> BOOLEAN]
    BY <1>1, <1>12 DEF LastHeartbeatTimeout, Stop, Start, GiveUp, Destroy, TypeOK
  <2>3. lastHeartbeatReceived' \in [Ends -> BOOLEAN]
    BY <1>1, <1>12 DEF LastHeartbeatTimeout, Stop, Start, GiveUp, Destroy, TypeOK
  <2>4. UNCHANGED <<server, link, wire, handler, receivedAck, isInSameProcess, sentPid, accepted, published>>
    BY <1>12 DEF LastHeartbeatTimeout, Stop, Start, GiveUp, Destroy
  <2> QED
    BY <1>1, <2>1, <2>2, <2>3, <2>4 DEF BasicInv, TypeOK, WireInv
<1>13. ASSUME NEW e \in Ends, HeartbeatTimeout(e)
       PROVE  BasicInv'
  <2>1. handler' \in [Ends -> {"idle", "data", "pid", "heartbeat"}]
        /\ (handler'["server"] = "data" => handler["server"] = "data")
    BY <1>1, <1>2, <1>13 DEF HeartbeatTimeout, TypeOK
  <2>2. sentPid' \in BOOLEAN
    BY <1>13 DEF HeartbeatTimeout
  <2>3. UNCHANGED <<server, link, wire, active, pc, lastHeartbeatReceived, receivedAck, isInSameProcess, accepted, published>>
    BY <1>13 DEF HeartbeatTimeout
  <2> QED
    BY <1>1, <2>1, <2>2, <2>3 DEF BasicInv, TypeOK, WireInv
<1>14. ASSUME NEW e \in Ends, SendHeartbeat(e)
       PROVE  BasicInv'
  <2>1. WireInv' /\ active' \in [Ends -> BOOLEAN]
    BY <1>1, <1>14, MessageKinds, TransmitKeepsWire DEF SendHeartbeat, TypeOK
  <2>2. handler' \in [Ends -> {"idle", "data", "pid", "heartbeat"}]
        /\ (handler'["server"] = "data" => handler["server"] = "data")
    BY <1>1, <1>2, <1>14 DEF SendHeartbeat, TypeOK
  <2>3. UNCHANGED <<server, pc, lastHeartbeatReceived, receivedAck, isInSameProcess, sentPid, accepted, published>>
    BY <1>14 DEF SendHeartbeat
  <2> QED
    BY <1>1, <2>1, <2>2, <2>3 DEF BasicInv, TypeOK, WireInv
<1>15. ASSUME NEW e \in Ends, SendAck(e)
       PROVE  BasicInv'
  <2>1. WireInv' /\ active' \in [Ends -> BOOLEAN]
    BY <1>1, <1>15, MessageKinds, TransmitKeepsWire DEF SendAck, TypeOK
  <2> QED
    BY <1>1, <1>3, <1>15, <2>1 DEF SendAck, BasicInv, TypeOK, WireInv
<1>16. ASSUME NEW e \in Ends, ReceiveHeartbeat(e)
       PROVE  BasicInv'
  <2>1. WireInv'
    BY <1>1, <1>16, ReadKeepsWire DEF ReceiveHeartbeat, Read
  <2> QED
    BY <1>1, <1>3, <1>16, <2>1 DEF ReceiveHeartbeat, Read, BasicInv, TypeOK, WireInv
<1>17. ASSUME NEW e \in Ends, ReceiveCut(e)
       PROVE  BasicInv'
  <2>1. WireInv'
    BY <1>1, <1>17, DropKeepsWire DEF ReceiveCut
  <2>2. published' \in Seq(Frames \cup {CutFrame})
    <3>1. published' \in {published, Append(published, CutFrame)}
      BY <1>17 DEF ReceiveCut
    <3> QED
      BY <1>1, <3>1, PublishedImages DEF TypeOK
  <2> QED
    BY <1>1, <1>17, <2>1, <2>2 DEF ReceiveCut, BasicInv, TypeOK, WireInv
<1>18. ASSUME NEW e \in Ends, End(e)
       PROVE  BasicInv'
  BY <1>1, <1>18, EndKeepsWire DEF End, BasicInv, TypeOK, WireInv
<1>19. CASE UNCHANGED vars
  BY <1>1, <1>19 DEF vars, BasicInv, TypeOK, WireInv
<1> QED
  BY <1>4, <1>5, <1>6, <1>7, <1>8, <1>9, <1>10, <1>11, <1>12, <1>13, <1>14, <1>15, <1>16, <1>17, <1>18, <1>19
     DEF Next, Execute, HandleTimer, ReceiveMessage
-----------------------------------------------------------------------------
(* The window                                                              *)

Token == One(receivedAck) + One(handler["server"] = "data") + One(Holds(wire["client"], "data"))
           + One(pc["client"] = "ack") + One(Holds(wire["server"], "ack"))

TokenInv ==
  server # "camera" /\ link["server"] = "open" =>
    Once(wire["client"], "data") /\ Once(wire["server"], "ack") /\ Token = 1

WindowInv == BasicInv /\ TokenInv

(* A sequence with at most one message of a kind has one or none.          *)
LEMMA CountsOnce ==
  ASSUME NEW s \in Seq(Messages), NEW k, Once(s, k)
  PROVE  Cardinality({i \in DOMAIN s : s[i].kind = k}) = One(Holds(s, k))
<1> DEFINE P == {i \in DOMAIN s : s[i].kind = k}
<1>1. DOMAIN s = 1..Len(s)
  BY LenProperties
<1>2. CASE Holds(s, k)
  <2>1. PICK i \in 1..Len(s) : s[i].kind = k
    BY <1>2 DEF Holds
  <2>2. P = {i}
    BY <1>1, <2>1 DEF Once
  <2> QED
    BY <1>2, <2>2, FS_Singleton DEF One
<1>3. CASE ~Holds(s, k)
  <2>1. P = {}
    BY <1>1, <1>3 DEF Holds
  <2> QED
    BY <1>3, <2>1, FS_EmptySet DEF One
<1> QED
  BY <1>2, <1>3

LEMMA WindowInvSuffices == WindowInv => WindowOfOne
<1> SUFFICES ASSUME WindowInv, server # "camera", link["server"] = "open"
             PROVE  Token = One(receivedAck) + One(handler["server"] = "data") + Count("client", "data")
                              + One(pc["client"] = "ack") + Count("server", "ack")
  BY DEF WindowInv, BasicInv, TokenInv, WindowOfOne, ExactlyOneToken
<1>1. wire["client"] \in Seq(Messages) /\ wire["server"] \in Seq(Messages)
  BY DEF WindowInv, BasicInv, WireInv, Ends
<1>2. Once(wire["client"], "data") /\ Once(wire["server"], "ack")
  BY DEF WindowInv, TokenInv
<1>3. Count("client", "data") = One(Holds(wire["client"], "data"))
  BY <1>1, <1>2, CountsOnce DEF Count
<1>4. Count("server", "ack") = One(Holds(wire["server"], "ack"))
  BY <1>1, <1>2, CountsOnce DEF Count
<1> QED
  BY <1>3, <1>4 DEF Token

(* A Send() while the connection stands.                                   *)
LEMMA SentWhileOpen ==
  ASSUME WireInv, NEW e \in Ends, NEW m \in Messages, Transmit(e, m), link'["server"] = "open"
  PROVE  /\ link["server"] = "open" /\ UNCHANGED active
         /\ wire'[e] = wire[e]
         /\ \A k : Holds(wire'[Peer(e)], k) <=> Holds(wire[Peer(e)], k) \/ m.kind = k
         /\ \A k : Once(wire[Peer(e)], k) /\ (m.kind = k => ~Holds(wire[Peer(e)], k))
                     => Once(wire'[Peer(e)], k)
<1>1. Peer(e) \in Ends /\ Peer(e) # e
  BY DEF Peer, Ends
<1>2. link["server"] = "open" /\ link[e] = "open"
  BY DEF Transmit, WireInv, Ends
<1>3. UNCHANGED active /\ wire' = [wire EXCEPT ![Peer(e)] = Append(@, m)]
  BY <1>2 DEF Transmit
<1>4. wire'[e] = wire[e] /\ wire'[Peer(e)] = Append(wire[Peer(e)], m) /\ wire[Peer(e)] \in Seq(Messages)
  BY <1>1, <1>3 DEF WireInv
<1> QED
  BY <1>2, <1>3, <1>4, Appended

LEMMA ReadOfWire ==
  ASSUME WireInv, NEW e \in Ends, NEW k, Read(e, k)
  PROVE  /\ wire'[Peer(e)] = wire[Peer(e)] /\ UNCHANGED active /\ pc[e] = "receive"
         /\ \A l : Once(wire[e], l) => Once(wire'[e], l)
         /\ \A l : l # k => (Holds(wire'[e], l) <=> Holds(wire[e], l))
         /\ Holds(wire[e], k) /\ (Once(wire[e], k) => ~Holds(wire'[e], k))
<1>1. Peer(e) \in Ends /\ Peer(e) # e
  BY DEF Peer, Ends
<1>2. wire[e] \in Seq(Messages) /\ wire[e] # << >> /\ Head(wire[e]).kind = k
  BY DEF Read, WireInv
<1>3. wire'[Peer(e)] = wire[Peer(e)] /\ wire'[e] = Tail(wire[e])
  BY <1>1 DEF Read, WireInv
<1> QED
  BY <1>2, <1>3, Taken DEF Read

LEMMA WindowInit == Init => WindowInv
<1> SUFFICES ASSUME Init PROVE TokenInv
  BY BasicInit DEF WindowInv
<1>1. wire["client"] = << >> /\ wire["server"] = << >> /\ handler["server"] = "idle" /\ receivedAck
      /\ pc["client"] # "ack"
  BY DEF Init, Ends
<1> QED
  BY <1>1, WireEnds DEF TokenInv, Token, One

LEMMA WindowStep == WindowInv /\ [Next]_vars => WindowInv'
<1> SUFFICES ASSUME WindowInv, [Next]_vars, server' # "camera", link'["server"] = "open"
             PROVE  Once(wire["client"], "data")' /\ Once(wire["server"], "ack")' /\ Token' = 1
  BY BasicStep DEF WindowInv, TokenInv
<1>1. TypeOK /\ WireInv /\ TokenInv /\ Ends = {"server", "client"}
      /\ Peer("server") = "client" /\ Peer("client") = "server"
  BY DEF WindowInv, BasicInv, Ends, Peer
<1>2. ASSUME link["server"] = "open"
      PROVE  Once(wire["client"], "data") /\ Once(wire["server"], "ack") /\ Token = 1
  <2>1. UNCHANGED server
    BY DEF Next, AcceptFrame, ShortcutFrame, CameraSend, Break, Execute, HandleTimer, GiveUp, Stop,
           Start, ReceiveMessage, ReceiveHeartbeat, ReceiveData, ReceiveAck, ReceivePid, ReceiveCut,
           SendAck, End, Destroy, HeartbeatTimeout, LastHeartbeatTimeout, SendHeartbeat, SendPid,
           SendFrame, vars
  <2> QED
    BY <1>1, <1>2, <2>1 DEF TokenInv
<1> USE DEF Token, One
<1>3. CASE AcceptFrame
  <2>1. /\ receivedAck /\ ~receivedAck' /\ handler["server"] # "data" /\ handler'["server"] = "data"
        /\ UNCHANGED <<link, wire, pc>>
    BY <1>1, <1>3 DEF AcceptFrame, MayTakeFrame, TypeOK
  <2> QED
    BY <1>2, <2>1
<1>4. CASE ShortcutFrame
  BY <1>2, <1>4 DEF ShortcutFrame
<1>5. CASE CameraSend
  BY <1>5 DEF CameraSend
<1>6. CASE Break
  BY <1>1, <1>6 DEF Break
<1>7. CASE SendFrame
  <2>1. Data(accepted) \in Messages /\ Data(accepted).kind = "data"
    BY <1>7, MessageKinds DEF SendFrame, WindowInv, BasicInv, TypeOK, Frames
  <2>2. Transmit("server", Data(accepted)) /\ UNCHANGED <<receivedAck, pc>>
        /\ handler["server"] = "data" /\ handler'["server"] # "data"
    BY <1>1, <1>7 DEF SendFrame, TypeOK
  <2>3. /\ link["server"] = "open" /\ wire'["server"] = wire["server"]
        /\ Holds(wire'["client"], "data")
        /\ Once(wire["client"], "data") /\ ~Holds(wire["client"], "data") => Once(wire'["client"], "data")
    BY <1>1, <2>1, <2>2, SentWhileOpen
  <2> QED
    BY <1>2, <2>2, <2>3
<1>8. CASE SendPid
  <2>1. Transmit("client", Pid) /\ UNCHANGED <<receivedAck, pc>> /\ handler'["server"] = handler["server"]
    BY <1>1, <1>8 DEF SendPid, TypeOK
  <2>2. /\ link["server"] = "open" /\ wire'["client"] = wire["client"]
        /\ Holds(wire'["server"], "ack") <=> Holds(wire["server"], "ack")
        /\ Once(wire["server"], "ack") => Once(wire'["server"], "ack")
    BY <1>1, <2>1, SentWhileOpen, MessageKinds
  <2> QED
    BY <1>2, <2>1, <2>2
<1>9. CASE ReceiveData
  <2>1. Read("client", "data") /\ UNCHANGED <<link, handler, receivedAck>> /\ pc'["client"] = "ack"
    BY <1>1, <1>9 DEF ReceiveData, TypeOK
  <2>2. /\ wire'["server"] = wire["server"] /\ pc["client"] = "receive"
        /\ Once(wire["client"], "data") => Once(wire'["client"], "data")
        /\ Holds(wire["client"], "data") /\ (Once(wire["client"], "data") => ~Holds(wire'["client"], "data"))
    BY <1>1, <2>1, ReadOfWire
  <2> QED
    BY <1>2, <2>1, <2>2
<1>10. CASE ReceiveAck
  <2>1. Read("server", "ack") /\ UNCHANGED <<link, handler>> /\ pc'["client"] = pc["client"] /\ receivedAck'
    BY <1>1, <1>10 DEF ReceiveAck, TypeOK
  <2>2. /\ wire'["client"] = wire["client"]
        /\ Once(wire["server"], "ack") => Once(wire'["server"], "ack")
        /\ Holds(wire["server"], "ack") /\ (Once(wire["server"], "ack") => ~Holds(wire'["server"], "ack"))
    BY <1>1, <2>1, ReadOfWire
  <2> QED
    BY <1>2, <2>1, <2>2
<1>11. CASE ReceivePid
  <2>1. Read("server", "pid") /\ UNCHANGED <<link, handler, receivedAck>> /\ pc'["client"] = pc["client"]
    BY <1>1, <1>11 DEF ReceivePid, TypeOK
  <2>2. /\ wire'["client"] = wire["client"]
        /\ Once(wire["server"], "ack") => Once(wire'["server"], "ack")
        /\ Holds(wire["server"], "ack") <=> Holds(wire'["server"], "ack")
    BY <1>1, <2>1, ReadOfWire
  <2> QED
    BY <1>2, <2>1, <2>2
<1>12. ASSUME NEW e \in Ends, LastHeartbeatTimeout(e) \/ Stop(e) \/ HeartbeatTimeout(e)
       PROVE  Once(wire["client"], "data")' /\ Once(wire["server"], "ack")' /\ Token' = 1
  <2>1. UNCHANGED <<link, wire, pc, receivedAck>> /\ (handler'["server"] = "data" <=> handler["server"] = "data")
    BY <1>1, <1>12 DEF LastHeartbeatTimeout, Stop, HeartbeatTimeout, TypeOK
  <2> QED
    BY <1>2, <2>1
<1>13. ASSUME NEW e \in Ends, Start(e) \/ GiveUp(e) \/ Destroy(e)
       PROVE  Once(wire["client"], "data")' /\ Once(wire["server"], "ack")' /\ Token' = 1
  <2>1. /\ UNCHANGED <<link, wire, handler, receivedAck>>
        /\ pc[e] # "ack" /\ pc'[e] # "ack" /\ \A d \in Ends : d # e => pc'[d] = pc[d]
    BY <1>1, <1>13 DEF Start, GiveUp, Destroy, Round, TypeOK
  <2> QED
    BY <1>1, <1>2, <2>1
<1>14. ASSUME NEW e \in Ends, SendHeartbeat(e)
       PROVE  Once(wire["client"], "data")' /\ Once(wire["server"], "ack")' /\ Token' = 1
  <2>1. /\ Transmit(e, Heartbeat) /\ UNCHANGED <<receivedAck, pc>>
        /\ handler'["server"] = "data" <=> handler["server"] = "data"
    BY <1>1, <1>14 DEF SendHeartbeat, TypeOK
  <2>2. /\ link["server"] = "open"
        /\ \A d \in Ends, k \in {"data", "ack"} :
             /\ Holds(wire'[d], k) <=> Holds(wire[d], k)
             /\ Once(wire[d], k) => Once(wire'[d], k)
    BY <1>1, <2>1, SentWhileOpen, MessageKinds
  <2> QED
    BY <1>1, <1>2, <2>1, <2>2
<1>15. ASSUME NEW e \in Ends, ReceiveHeartbeat(e)
       PROVE  Once(wire["client"], "data")' /\ Once(wire["server"], "ack")' /\ Token' = 1
  <2>1. /\ Read(e, "heartbeat") /\ UNCHANGED <<link, receivedAck, handler>>
        /\ pc'[e] # "ack" /\ \A d \in Ends : d # e => pc'[d] = pc[d]
    BY <1>1, <1>15 DEF ReceiveHeartbeat, Round, TypeOK
  <2>2. /\ pc[e] = "receive"
        /\ \A d \in Ends, k \in {"data", "ack"} :
             /\ Holds(wire'[d], k) <=> Holds(wire[d], k)
             /\ Once(wire[d], k) => Once(wire'[d], k)
    BY <1>1, <2>1, ReadOfWire
  <2> QED
    BY <1>1, <1>2, <2>1, <2>2
<1>16. ASSUME NEW e \in Ends, SendAck(e)
       PROVE  Once(wire["client"], "data")' /\ Once(wire["server"], "ack")' /\ Token' = 1
  <2>1. /\ Transmit(e, Ack) /\ UNCHANGED <<receivedAck, handler>> /\ pc[e] = "ack"
        /\ pc'[e] # "ack" /\ \A d \in Ends : d # e => pc'[d] = pc[d]
    BY <1>1, <1>16 DEF SendAck, Round, TypeOK
  <2>2. /\ link["server"] = "open" /\ wire'[e] = wire[e]
        /\ Holds(wire'[Peer(e)], "data") <=> Holds(wire[Peer(e)], "data")
        /\ Once(wire[Peer(e)], "data") => Once(wire'[Peer(e)], "data")
        /\ Holds(wire'[Peer(e)], "ack")
        /\ Once(wire[Peer(e)], "ack") /\ ~Holds(wire[Peer(e)], "ack") => Once(wire'[Peer(e)], "ack")
    BY <1>1, <2>1, SentWhileOpen, MessageKinds
  <2>3. CASE e = "client"
    BY <1>1, <1>2, <2>1, <2>2, <2>3
  <2>4. CASE e = "server"
    BY <1>1, <1>2, <2>1, <2>2, <2>4
  <2> QED
    BY <1>1, <2>3, <2>4
<1>17. ASSUME NEW e \in Ends, ReceiveCut(e)
       PROVE  FALSE
  <2>1. link[e] = "open" /\ wire[e] # << >> /\ Head(wire[e]) = Cut
    BY <1>1, <1>17 DEF ReceiveCut, WireInv
  <2>2. wire[e] \in Seq(Messages) /\ ~Holds(wire[e], "cut")
    BY <1>1, <2>1 DEF WireInv
  <2> QED
    BY <2>1, <2>2, Taken, MessageKinds
<1>18. ASSUME NEW e \in Ends, End(e)
       PROVE  FALSE
  BY <1>1, <1>18 DEF End
<1>19. CASE UNCHANGED vars
  BY <1>2, <1>19 DEF vars
<1> QED
  BY <1>3, <1>4, <1>5, <1>6, <1>7, <1>8, <1>9, <1>10, <1>11, <1>12, <1>13, <1>14, <1>15, <1>16, <1>17,
     <1>18, <1>19
     DEF Next, Execute, HandleTimer, ReceiveMessage

(* As long as the connection stands, the event handler and the job's       *)
(* thread, which clear and set receivedAck without a lock, let at most one *)
(* image be on its way to be answered, and never none for ever: the one    *)
(* right to send is at one place (pivision_ethtermconnection.cpp:295,      *)
(* 340-349).                                                               *)
THEOREM WindowStaysOne == Spec => []WindowOfOne
BY WindowInit, WindowStep, WindowInvSuffices, PTL DEF Spec
-----------------------------------------------------------------------------
(* The end of an object                                                    *)

(* An object that leaves Execute() is inactive; its last timer came when   *)
(* it was, and nothing has been sent by the handler since.                 *)
LastTimerInv ==
  \A e \in Ends :
    /\ pc[e] \in {"leave", "ended", "destroyed"} => ~active[e]
    /\ lastHeartbeatReceived[e] => ~active[e] /\ handler[e] = "idle"
    /\ pc[e] = "destroyed" => lastHeartbeatReceived[e]

LEMMA LastTimerStep == TypeOK /\ LastTimerInv /\ [Next]_vars => LastTimerInv'
<1> SUFFICES ASSUME TypeOK, LastTimerInv, [Next]_vars PROVE LastTimerInv'
  OBVIOUS
<1>0. /\ pc \in [Ends -> {"start", "receive", "ack", "leave", "ended", "destroyed"}]
      /\ active \in [Ends -> BOOLEAN]
      /\ handler \in [Ends -> {"idle", "data", "pid", "heartbeat"}]
      /\ lastHeartbeatReceived \in [Ends -> BOOLEAN]
  BY DEF TypeOK
<1> USE <1>0 DEF LastTimerInv
<1>1. CASE AcceptFrame \/ ShortcutFrame \/ CameraSend \/ Break
  BY <1>1 DEF AcceptFrame, ShortcutFrame, CameraSend, Break, MayTakeFrame, Ends
<1>2. CASE SendFrame \/ SendPid
  BY <1>2 DEF SendFrame, SendPid, Transmit, Ends
<1>3. CASE ReceiveData \/ ReceiveAck \/ ReceivePid
  BY <1>3 DEF ReceiveData, ReceiveAck, ReceivePid, Read, Round, Ends
<1>4. ASSUME NEW e \in Ends, HeartbeatTimeout(e) \/ LastHeartbeatTimeout(e) \/ Stop(e) \/ Destroy(e)
      PROVE  LastTimerInv'
  <2>1. CASE HeartbeatTimeout(e)
    BY <2>1 DEF HeartbeatTimeout
  <2>2. CASE LastHeartbeatTimeout(e)
    BY <2>2 DEF LastHeartbeatTimeout
  <2>3. CASE Stop(e)
    BY <2>3 DEF Stop
  <2>4. CASE Destroy(e)
    BY <2>4 DEF Destroy
  <2> QED
    BY <1>4, <2>1, <2>2, <2>3, <2>4
<1>5. ASSUME NEW e \in Ends, Start(e) \/ GiveUp(e) \/ End(e)
      PROVE  LastTimerInv'
  <2>1. CASE Start(e)
    BY <2>1 DEF Start, Round
  <2>2. CASE GiveUp(e)
    BY <2>2 DEF GiveUp
  <2>3. CASE End(e)
    BY <2>3 DEF End
  <2> QED
    BY <1>5, <2>1, <2>2, <2>3
<1>6. ASSUME NEW e \in Ends, SendHeartbeat(e) \/ SendAck(e)
      PROVE  LastTimerInv'
  <2>1. UNCHANGED lastHeartbeatReceived /\ (active' = active \/ active' = [active EXCEPT ![e] = FALSE])
    BY <1>6 DEF SendHeartbeat, SendAck, Transmit
  <2>2. CASE handler[e] = "heartbeat" /\ handler' = [handler EXCEPT ![e] = "idle"] /\ UNCHANGED pc
    BY <2>1, <2>2
  <2>3. CASE pc' = [pc EXCEPT ![e] = Round(e)] /\ UNCHANGED handler
    BY <2>1, <2>3 DEF Round
  <2> QED
    BY <1>6, <2>2, <2>3 DEF SendHeartbeat, SendAck
<1>7. ASSUME NEW e \in Ends, ReceiveHeartbeat(e) \/ ReceiveCut(e)
      PROVE  LastTimerInv'
  BY <1>7 DEF ReceiveHeartbeat, ReceiveCut, Read, Round
<1>8. CASE UNCHANGED vars
  BY <1>8 DEF vars
<1> QED
  BY <1>1, <1>2, <1>3, <1>4, <1>5, <1>6, <1>7, <1>8
     DEF Next, Execute, HandleTimer, ReceiveMessage

(* When the destructor returns, the event handler is not inside the object *)
(* and no timer will call it again, whoever stopped the object and however *)
(* its connection ended (pivision_ethtermconnection.cpp:76-81, 361-379).   *)
THEOREM DestroyedStaysQuiet == Spec => []DestroyedIsQuiet
<1>1. Init => LastTimerInv
  BY DEF Init, LastTimerInv
<1>2. LastTimerInv => DestroyedIsQuiet
  BY DEF LastTimerInv, DestroyedIsQuiet
<1>3. BasicInv => TypeOK
  BY DEF BasicInv
<1> QED
  BY <1>1, <1>2, <1>3, BasicInit, BasicStep, LastTimerStep, PTL DEF Spec
-----------------------------------------------------------------------------
(* The order in which images are published                                 *)

(* An image of number n is in a direction of the connection.               *)
Carries(s, n) == \E i \in 1..Len(s) : s[i].kind = "data" /\ s[i].frame = n

SameImages(s, t) == /\ \A n : Carries(t, n) <=> Carries(s, n)
                    /\ Holds(t, "data") <=> Holds(s, "data")
                    /\ Once(s, "data") => Once(t, "data")

LEMMA CarriedImages ==
  ASSUME NEW s \in Seq(Messages)
  PROVE  \A n : Carries(s, n) => n \in Frames /\ Holds(s, "data")
<1>1. \A i \in 1..Len(s) : s[i] \in Messages
  BY ElementOfSeq
<1> QED
  BY <1>1, MessageKinds DEF Carries, Holds

LEMMA AppendedImages ==
  ASSUME NEW s \in Seq(Messages), NEW m \in Messages
  PROVE  /\ \A n : Carries(Append(s, m), n) <=> Carries(s, n) \/ (m.kind = "data" /\ m.frame = n)
         /\ m.kind # "data" => SameImages(s, Append(s, m))
<1> DEFINE t == Append(s, m)
<1>1. /\ Len(s) \in Nat /\ Len(t) = Len(s) + 1
      /\ \A i \in 1..Len(s) : t[i] = s[i]
      /\ t[Len(s) + 1] = m
  BY AppendProperties, LenProperties
<1>2. 1..Len(t) = 1..Len(s) \cup {Len(s) + 1}
  BY <1>1
<1> HIDE DEF t
<1>3. \A n : Carries(t, n) <=> Carries(s, n) \/ (m.kind = "data" /\ m.frame = n)
  BY <1>1, <1>2 DEF Carries
<1>4. m.kind # "data" => (Holds(t, "data") <=> Holds(s, "data")) /\ (Once(s, "data") => Once(t, "data"))
  BY Appended DEF t
<1> QED
  BY <1>3, <1>4 DEF t, SameImages

LEMMA TakenImages ==
  ASSUME NEW s \in Seq(Messages), s # << >>
  PROVE  /\ \A n : Carries(Tail(s), n) => Carries(s, n)
         /\ Head(s).kind = "data" => Carries(s, Head(s).frame)
         /\ Head(s).kind # "data" => SameImages(s, Tail(s))
<1> DEFINE t == Tail(s)
           h == Head(s)
<1>1. /\ Len(s) \in Nat \ {0} /\ Len(t) = Len(s) - 1
      /\ \A i \in 1..Len(t) : t[i] = s[i + 1]
      /\ h = s[1]
  BY HeadTailProperties, EmptySeq
<1> HIDE DEF t, h
<1>2. \A i \in 1..Len(t) : i + 1 \in 1..Len(s)
  BY <1>1
<1>3. \A i \in 1..Len(s) : i = 1 \/ (i - 1 \in 1..Len(t) /\ t[i - 1] = s[i])
  BY <1>1
<1>4. 1 \in 1..Len(s)
  BY <1>1
<1>5. \A n : Carries(t, n) => Carries(s, n)
  BY <1>1, <1>2 DEF Carries
<1>6. h.kind = "data" => Carries(s, h.frame)
  BY <1>1, <1>4 DEF Carries
<1>7. h.kind # "data" => \A n : Carries(s, n) => Carries(t, n)
  BY <1>1, <1>3 DEF Carries
<1>8. h.kind # "data" => (Holds(t, "data") <=> Holds(s, "data"))
  BY Taken DEF t, h
<1>9. Once(s, "data") => Once(t, "data")
  BY Taken DEF t
<1> QED
  BY <1>5, <1>6, <1>7, <1>8, <1>9 DEF t, h, SameImages

(* What a Send() and the end of a connection do to its two directions.     *)
LEMMA TransmittedWire ==
  ASSUME WireInv, NEW e \in Ends, NEW m, Transmit(e, m)
  PROVE  /\ wire'[e] = wire[e]
         /\ \/ wire'[Peer(e)] = wire[Peer(e)] /\ link[e] # "open"
            \/ wire'[Peer(e)] = Append(wire[Peer(e)], m) /\ link[e] = "open" /\ UNCHANGED link
BY DEF Transmit, WireInv, Ends, Peer

LEMMA EndedWire ==
  ASSUME WireInv, NEW e \in Ends, End(e)
  PROVE  /\ wire'[e] = << >>
         /\ wire'[Peer(e)] = wire[Peer(e)] \/ wire'[Peer(e)] = Append(wire[Peer(e)], Cut)
         /\ link'["server"] # "open"
<1>1. Peer(e) \in Ends /\ Peer(e) # e
  BY DEF Peer, Ends
<1>2. PICK rest \in {<< >>, <<Cut>>} : wire' = [wire EXCEPT ![e] = << >>, ![Peer(e)] = @ \o rest]
  BY DEF End, Begun
<1>3. wire'[e] = << >> /\ wire'[Peer(e)] = wire[Peer(e)] \o rest /\ wire[Peer(e)] \in Seq(Messages)
  BY <1>1, <1>2 DEF WireInv
<1>4. link'["server"] # "open"
  BY DEF End, Ends
<1> QED
  BY <1>3, <1>4, WireEnds

LEMMA BrokenWire ==
  ASSUME WireInv, NEW e \in Ends, Break
  PROVE  /\ wire'[e] = wire[e] \/ wire'[e] = Append(wire[e], Cut)
         /\ link'["server"] # "open"
<1>1. PICK c \in {<< >>, <<Cut>>}, s \in {<< >>, <<Cut>>} :
        wire' = [wire EXCEPT !["client"] = @ \o c, !["server"] = @ \o s]
  BY DEF Break, Begun
<1>2. wire'[e] = IF e = "client" THEN wire[e] \o c ELSE wire[e] \o s
  BY <1>1 DEF WireInv, Ends
<1>3. wire[e] \in Seq(Messages)
  BY DEF WireInv
<1>4. link'["server"] # "open"
  BY DEF Break, Ends
<1> QED
  BY <1>2, <1>3, <1>4, WireEnds

LEMMA KeptImages == ASSUME NEW s PROVE SameImages(s, s)
BY DEF SameImages

(* What a step may do to the images on their way.                          *)
LEMMA ClientsWire ==
  ASSUME BasicInv, [Next]_vars
  PROVE  \/ CameraSend
         \/ ReceiveData
         \/ SendFrame /\ link["server"] = "open"
         \/ SameImages(wire["client"], wire'["client"])
         \/ wire'["client"] = << >> /\ link'["server"] # "open"
<1> DEFINE w == wire["client"]
           Same == SameImages(w, wire'["client"])
           Gone == wire'["client"] = << >> /\ link'["server"] # "open"
<1>1. /\ TypeOK /\ WireInv /\ Ends = {"server", "client"}
      /\ Peer("server") = "client" /\ Peer("client") = "server" /\ w \in Seq(Messages)
  BY DEF BasicInv, WireInv, Ends, Peer
<1>2. /\ SameImages(w, w)
      /\ \A m \in Messages : m.kind # "data" => SameImages(w, Append(w, m))
      /\ SameImages(w, Append(w, Cut)) /\ SameImages(w, Append(w, Heartbeat)) /\ SameImages(w, Append(w, Ack))
  BY <1>1, KeptImages, AppendedImages, MessageKinds
<1>3. CASE Break
  BY <1>1, <1>2, <1>3, BrokenWire
<1>4. CASE SendFrame /\ link["server"] # "open"
  BY <1>1, <1>2, <1>4, TransmittedWire DEF SendFrame
<1>5. CASE SendPid
  BY <1>1, <1>2, <1>5, TransmittedWire DEF SendPid
<1>6. ASSUME NEW e \in Ends, SendHeartbeat(e) PROVE Same
  BY <1>1, <1>2, <1>6, TransmittedWire DEF SendHeartbeat
<1>7. ASSUME NEW e \in Ends, SendAck(e) PROVE Same
  BY <1>1, <1>2, <1>7, TransmittedWire DEF SendAck
<1>8. ASSUME NEW e \in Ends, End(e) PROVE Same \/ Gone
  BY <1>1, <1>2, <1>8, EndedWire
<1>9. ASSUME NEW e \in Ends, ReceiveHeartbeat(e) PROVE Same
  <2>1. CASE e = "server"
    BY <1>1, <1>2, <1>9, <2>1 DEF ReceiveHeartbeat, Read, WireInv
  <2>2. CASE e = "client"
    <3>1. w # << >> /\ Head(w).kind = "heartbeat" /\ wire'["client"] = Tail(w)
      BY <1>1, <1>9, <2>2 DEF ReceiveHeartbeat, Read, WireInv
    <3> QED
      BY <1>1, <3>1, TakenImages
  <2> QED
    BY <1>1, <2>1, <2>2
<1>10. CASE ReceiveAck \/ ReceivePid
  BY <1>1, <1>2, <1>10 DEF ReceiveAck, ReceivePid, Read, WireInv
<1>11. ASSUME NEW e \in Ends, ReceiveCut(e) PROVE Same \/ Gone
  <2>1. wire' = [wire EXCEPT ![e] = << >>] /\ UNCHANGED link
    BY <1>11 DEF ReceiveCut
  <2>2. CASE e = "server"
    BY <1>1, <1>2, <2>1, <2>2 DEF WireInv
  <2>3. CASE e = "client"
    <3>1. wire'["client"] = << >>
      BY <1>1, <2>1, <2>3 DEF WireInv
    <3>2. w # << >> /\ (link["client"] = "reset" \/ Head(w) = Cut)
      BY <1>11, <2>3 DEF ReceiveCut
    <3>3. link["client"] # "open"
      <4>1. Head(w).kind = "cut" => Holds(w, "cut")
        BY <1>1, <3>2, Taken
      <4> QED
        BY <1>1, <3>2, <4>1, MessageKinds DEF WireInv
    <3> QED
      BY <1>1, <2>1, <3>1, <3>3 DEF WireInv
  <2> QED
    BY <1>1, <2>2, <2>3
<1>12. CASE UNCHANGED wire
  BY <1>2, <1>12
<1> HIDE DEF Same, Gone
<1>13. \/ CameraSend \/ ReceiveData \/ SendFrame \/ Break \/ SendPid \/ ReceiveAck \/ ReceivePid
       \/ \E e \in Ends : SendHeartbeat(e) \/ SendAck(e) \/ End(e) \/ ReceiveHeartbeat(e) \/ ReceiveCut(e)
       \/ UNCHANGED wire
  BY DEF Next, AcceptFrame, ShortcutFrame, Execute, HandleTimer, GiveUp, Stop, Start, ReceiveMessage,
         Destroy, HeartbeatTimeout, LastHeartbeatTimeout, vars
<1> QED
  BY <1>3, <1>4, <1>5, <1>6, <1>7, <1>8, <1>9, <1>10, <1>11, <1>12, <1>13 DEF Same, Gone

(* Acknowledgements on the way to the server.                              *)
LEMMA ServersAcks ==
  ASSUME BasicInv, [Next]_vars, Holds(wire'["server"], "ack")
  PROVE  Holds(wire["server"], "ack") \/ pc["client"] = "ack"
<1> DEFINE w == wire["server"]
           Before == Holds(w, "ack") \/ pc["client"] = "ack"
<1>1. /\ TypeOK /\ WireInv /\ Ends = {"server", "client"}
      /\ Peer("server") = "client" /\ Peer("client") = "server" /\ w \in Seq(Messages)
  BY DEF BasicInv, WireInv, Ends, Peer
<1>2. /\ Holds(Append(w, Cut), "ack") => Holds(w, "ack")
      /\ Holds(Append(w, Heartbeat), "ack") => Holds(w, "ack")
      /\ Holds(Append(w, Pid), "ack") => Holds(w, "ack")
      /\ ~Holds(<< >>, "ack")
      /\ w # << >> => (Holds(Tail(w), "ack") => Holds(w, "ack"))
  <2>1. w # << >> => (Holds(Tail(w), "ack") => Holds(w, "ack"))
    BY <1>1, Taken
  <2> QED
    BY <1>1, <2>1, Appended, MessageKinds, WireEnds
<1>3. CASE Break
  BY <1>1, <1>2, <1>3, BrokenWire
<1>4. CASE SendFrame \/ CameraSend
  BY <1>1, <1>4, TransmittedWire DEF SendFrame, CameraSend, WireInv
<1>5. CASE SendPid
  BY <1>1, <1>2, <1>5, TransmittedWire DEF SendPid
<1>6. ASSUME NEW e \in Ends, SendHeartbeat(e) PROVE Before
  BY <1>1, <1>2, <1>6, TransmittedWire DEF SendHeartbeat
<1>7. ASSUME NEW e \in Ends, SendAck(e) PROVE Before
  BY <1>1, <1>7, TransmittedWire DEF SendAck
<1>8. ASSUME NEW e \in Ends, End(e) PROVE Before
  BY <1>1, <1>2, <1>8, EndedWire
<1>9. ASSUME NEW e \in Ends, NEW k, Read(e, k) PROVE Before
  <2>1. wire' = [wire EXCEPT ![e] = Tail(@)] /\ wire[e] # << >>
    BY <1>9 DEF Read
  <2>2. wire'["server"] = w \/ (w # << >> /\ wire'["server"] = Tail(w))
    BY <1>1, <2>1 DEF WireInv
  <2> QED
    BY <1>2, <2>2
<1>10. ASSUME NEW e \in Ends, ReceiveCut(e) PROVE Before
  <2>1. wire'["server"] = w \/ wire'["server"] = << >>
    BY <1>1, <1>10 DEF ReceiveCut, WireInv
  <2> QED
    BY <1>2, <2>1
<1>11. CASE UNCHANGED wire
  BY <1>11
<1> HIDE DEF Before
<1>12. \/ SendFrame \/ CameraSend \/ Break \/ SendPid
       \/ \E e \in Ends : SendHeartbeat(e) \/ SendAck(e) \/ End(e) \/ ReceiveCut(e)
       \/ \E e \in Ends : Read(e, "data") \/ Read(e, "ack") \/ Read(e, "pid") \/ Read(e, "heartbeat")
       \/ UNCHANGED wire
  BY <1>1 DEF Next, AcceptFrame, ShortcutFrame, Execute, HandleTimer, GiveUp, Stop, Start, ReceiveMessage,
         Destroy, HeartbeatTimeout, LastHeartbeatTimeout, ReceiveData, ReceiveAck, ReceivePid,
         ReceiveHeartbeat, vars
<1> QED
  BY <1>3, <1>4, <1>5, <1>6, <1>7, <1>8, <1>9, <1>10, <1>11, <1>12 DEF Before

LEMMA ServerStays == [Next]_vars => UNCHANGED server
BY DEF Next, AcceptFrame, ShortcutFrame, CameraSend, Break, Execute, HandleTimer, GiveUp, Stop,
       Start, ReceiveMessage, ReceiveHeartbeat, ReceiveData, ReceiveAck, ReceivePid, ReceiveCut,
       SendAck, End, Destroy, HeartbeatTimeout, LastHeartbeatTimeout, SendHeartbeat, SendPid,
       SendFrame, vars

(* Also when the connection has ended, an image that is still unread was   *)
(* the last to be sent: nothing has answered it.                           *)
AnsweredFirst ==
  server # "camera" =>
    /\ Once(wire["client"], "data")
    /\ Holds(wire["client"], "data") =>
         /\ ~receivedAck /\ handler["server"] # "data"
         /\ pc["client"] # "ack" /\ ~Holds(wire["server"], "ack")

LEMMA AnsweredStep == WindowInv /\ AnsweredFirst /\ [Next]_vars => AnsweredFirst'
<1> SUFFICES ASSUME WindowInv, AnsweredFirst, [Next]_vars, server' # "camera"
             PROVE  /\ Once(wire["client"], "data")'
                    /\ Holds(wire["client"], "data")' =>
                         /\ ~receivedAck' /\ handler'["server"] # "data"
                         /\ pc'["client"] # "ack" /\ ~Holds(wire["server"], "ack")'
  BY DEF AnsweredFirst
<1>1. /\ BasicInv /\ TypeOK /\ WireInv /\ Ends = {"server", "client"} /\ server # "camera"
      /\ wire["client"] \in Seq(Messages) /\ Once(wire["client"], "data")
  BY ServerStays DEF WindowInv, BasicInv, WireInv, Ends, AnsweredFirst
<1>2. CASE link'["server"] = "open"
  <2>1. Once(wire["client"], "data")' /\ Token' = 1
    BY <1>2, WindowStep DEF WindowInv, TokenInv
  <2> QED
    BY <2>1 DEF Token, One
<1>3. CASE link'["server"] # "open"
  <2>1. \/ SameImages(wire["client"], wire'["client"]) \/ wire'["client"] = << >> \/ ReceiveData
    <3>1. ~CameraSend
      BY <1>1 DEF CameraSend
    <3>2. ~(SendFrame /\ link["server"] = "open")
      BY <1>3 DEF SendFrame, Transmit
    <3> QED
      BY <1>1, <3>1, <3>2, ClientsWire
  <2>2. ReceiveData => Once(wire'["client"], "data") /\ ~Holds(wire'["client"], "data")
    BY <1>1, ReadOfWire DEF ReceiveData
  <2>3. Once(wire'["client"], "data")
    BY <1>1, <2>1, <2>2, WireEnds DEF SameImages
  <2> SUFFICES ASSUME Holds(wire'["client"], "data")
               PROVE  /\ ~receivedAck' /\ handler'["server"] # "data"
                      /\ pc'["client"] # "ack" /\ ~Holds(wire'["server"], "ack")
    BY <2>3
  <2>4. wire'["client"] # << >> /\ ~ReceiveData
    BY <2>2, WireEnds
  <2>5. /\ ~receivedAck /\ handler["server"] # "data"
        /\ pc["client"] # "ack" /\ ~Holds(wire["server"], "ack")
    BY <1>1, <2>1, <2>4 DEF SameImages, AnsweredFirst
  <2>6. ~Holds(wire'["server"], "ack")
    BY <1>1, <2>5, ServersAcks
  <2>7. ~ReceiveAck /\ ~AcceptFrame
    BY <1>1, <2>5, ReadOfWire DEF ReceiveAck, AcceptFrame
  <2>8. ~receivedAck'
    BY <2>5, <2>7 DEF Next, ShortcutFrame, CameraSend, Break, Execute, HandleTimer, GiveUp, Stop,
       Start, ReceiveMessage, ReceiveHeartbeat, ReceiveData, ReceivePid, ReceiveCut,
       SendAck, End, Destroy, HeartbeatTimeout, LastHeartbeatTimeout, SendHeartbeat, SendPid,
       SendFrame, vars
  <2>9. handler'["server"] # "data"
    <3>1. handler \in [Ends -> {"idle", "data", "pid", "heartbeat"}]
      BY <1>1 DEF TypeOK
    <3>2. ASSUME NEW e \in Ends,
                 HeartbeatTimeout(e) \/ LastHeartbeatTimeout(e) \/ SendHeartbeat(e)
          PROVE  handler'["server"] # "data"
      BY <1>1, <2>5, <3>1, <3>2 DEF HeartbeatTimeout, LastHeartbeatTimeout, SendHeartbeat
    <3>3. CASE SendPid \/ SendFrame
      BY <1>1, <2>5, <3>1, <3>3 DEF SendPid, SendFrame
    <3>4. CASE UNCHANGED handler
      BY <2>5, <3>4
    <3>5. ASSUME NEW e \in Ends, Execute(e) \/ GiveUp(e) \/ Stop(e)
          PROVE  UNCHANGED handler
      BY <3>5 DEF Execute, Start, ReceiveMessage, ReceiveHeartbeat, ReceiveData, ReceiveAck,
         ReceivePid, ReceiveCut, SendAck, GiveUp, End, Destroy, Stop
    <3>6. ShortcutFrame \/ CameraSend \/ Break \/ UNCHANGED vars => UNCHANGED handler
      BY DEF ShortcutFrame, CameraSend, Break, vars
    <3> QED
      BY <2>7, <3>2, <3>3, <3>4, <3>5, <3>6 DEF Next, HandleTimer
  <2>10. ~ReceiveCut("client")
    BY <1>1, <2>4 DEF ReceiveCut, WireInv
  <2>11. pc'["client"] # "ack"
    <3>1. pc \in [Ends -> {"start", "receive", "ack", "leave", "ended", "destroyed"}]
      BY <1>1 DEF TypeOK
    <3>2. ASSUME NEW e \in Ends, Start(e) \/ SendAck(e) \/ GiveUp(e) \/ End(e) \/ Destroy(e)
          PROVE  pc'["client"] # "ack"
      BY <1>1, <2>5, <3>1, <3>2 DEF Start, SendAck, GiveUp, End, Destroy, Round
    <3>3. ASSUME NEW e \in Ends, ReceiveMessage(e) \/ ReceiveCut(e)
          PROVE  pc'["client"] # "ack"
      BY <1>1, <2>4, <2>5, <2>7, <2>10, <3>1, <3>3
         DEF ReceiveMessage, ReceiveHeartbeat, ReceivePid, ReceiveCut, Round
    <3>4. CASE UNCHANGED pc
      BY <2>5, <3>4
    <3>5. ASSUME NEW e \in Ends, HandleTimer(e) \/ Stop(e)
          PROVE  UNCHANGED pc
      BY <3>5 DEF HandleTimer, HeartbeatTimeout, LastHeartbeatTimeout, SendHeartbeat, SendPid,
         SendFrame, Stop
    <3>6. ShortcutFrame \/ CameraSend \/ Break \/ UNCHANGED vars => UNCHANGED pc
      BY DEF ShortcutFrame, CameraSend, Break, vars
    <3> QED
      BY <2>7, <3>2, <3>3, <3>4, <3>5, <3>6 DEF Next, Execute
  <2> QED
    BY <2>6, <2>8, <2>9, <2>11
<1> QED
  BY <1>2, <1>3
-----------------------------------------------------------------------------
LEMMA PublishedType ==
  ASSUME TypeOK
  PROVE  /\ published \in Seq(Nat) /\ Len(published) \in Nat /\ DOMAIN published = 1..Len(published)
         /\ \A i \in DOMAIN published : published[i] \in Nat
<1>1. Frames \cup {CutFrame} \subseteq Nat
  BY DEF Frames, CutFrame
<1>2. published \in Seq(Frames \cup {CutFrame})
  BY DEF TypeOK
<1>3. \A i \in DOMAIN published : published[i] \in Nat
  BY <1>1, <1>2, ElementOfSeq, LenProperties
<1> QED
  BY <1>2, <1>3, LenProperties, IsASeq, SeqDef

(* What one more published image changes.                                  *)
LEMMA PublishedOneMore ==
  ASSUME TypeOK, NEW n \in Nat, published' = Append(published, n)
  PROVE  /\ DOMAIN published' = 1..(Len(published) + 1) /\ Len(published') = Len(published) + 1
         /\ \A i \in DOMAIN published : published'[i] = published[i]
         /\ published'[Len(published) + 1] = n
         /\ (n = CutFrame \/ \A i \in DOMAIN published : published[i] <= n) => Overtaken' = Overtaken
         /\ Overtaken' \subseteq Overtaken \cup {Len(published) + 1}
<1> DEFINE last == Len(published) + 1
<1>1. /\ published \in Seq(Nat) /\ Len(published) \in Nat /\ DOMAIN published = 1..Len(published)
      /\ \A i \in DOMAIN published : published[i] \in Nat
  BY PublishedType
<1>2. /\ DOMAIN published' = 1..last /\ Len(published') = last
      /\ \A i \in DOMAIN published : published'[i] = published[i]
      /\ published'[last] = n
  BY <1>1, AppendProperties, LenProperties
<1>3. \A i \in DOMAIN published : i \in Overtaken' <=> i \in Overtaken
  <2> TAKE i \in DOMAIN published
  <2>1. i \in DOMAIN published' /\ \A j \in 1..(i - 1) : j \in DOMAIN published
    BY <1>1, <1>2
  <2>2. \A j \in 1..(i - 1) : published'[j] = published[j]
    BY <1>2, <2>1
  <2> QED
    BY <1>2, <2>1, <2>2 DEF Overtaken
<1>4. \A i \in Overtaken' : i \in DOMAIN published \/ i = last
  BY <1>1, <1>2 DEF Overtaken
<1>5. Overtaken \subseteq DOMAIN published
  BY DEF Overtaken
<1>6. (n = CutFrame \/ \A i \in DOMAIN published : published[i] <= n) => last \notin Overtaken'
  <2>1. CASE n = CutFrame
    BY <1>2, <2>1 DEF Overtaken
  <2>2. CASE \A i \in DOMAIN published : published[i] <= n
    <3>1. \A j \in 1..(last - 1) : j \in DOMAIN published /\ published'[j] = published[j] /\ ~(published[j] > n)
      BY <1>1, <1>2, <2>2
    <3> QED
      BY <1>2, <3>1 DEF Overtaken
  <2> QED
    BY <2>1, <2>2
<1> HIDE DEF last
<1>7. Overtaken' \subseteq Overtaken \cup {last}
  BY <1>3, <1>4
<1>8. last \notin Overtaken' => Overtaken' = Overtaken
  BY <1>3, <1>4, <1>5
<1> QED
  BY <1>2, <1>6, <1>7, <1>8 DEF last

(* What a step may do to what is published, but for the images themselves. *)
Quietly == /\ UNCHANGED <<published, accepted, isInSameProcess>>
           /\ handler'["server"] = "data" => handler["server"] = "data"
           /\ handler["server"] = "data" => handler'["server"] = "data" \/ SendFrame

LEMMA PublishingSteps ==
  ASSUME TypeOK, [Next]_vars
  PROVE  \/ AcceptFrame \/ ShortcutFrame \/ CameraSend \/ ReceiveData \/ ReceivePid
         \/ \E e \in Ends : ReceiveCut(e)
         \/ Quietly
<1>1. CASE Break \/ SendFrame \/ SendPid \/ ReceiveAck \/ UNCHANGED vars
  BY <1>1 DEF TypeOK, Break, SendFrame, SendPid, ReceiveAck, vars, Quietly, Ends
<1>2. ASSUME NEW e \in Ends, \/ Start(e) \/ ReceiveHeartbeat(e) \/ SendAck(e) \/ End(e) \/ Destroy(e)
                             \/ LastHeartbeatTimeout(e) \/ GiveUp(e) \/ Stop(e)
      PROVE  Quietly
  BY <1>2 DEF Start, ReceiveHeartbeat, SendAck, End, Destroy, LastHeartbeatTimeout, GiveUp, Stop, Quietly
<1>3. ASSUME NEW e \in Ends, HeartbeatTimeout(e) \/ SendHeartbeat(e)
      PROVE  Quietly
  BY <1>3 DEF TypeOK, HeartbeatTimeout, SendHeartbeat, Quietly, Ends
<1> QED
  BY <1>1, <1>2, <1>3 DEF Next, Execute, HandleTimer, ReceiveMessage

(* Between two objects: every image has its own number, and the one that   *)
(* is on its way is the last that was accepted before the process id came. *)
(* An image is overtaken only then, and is the last of the connection.     *)
PublishedBound ==
  \A i \in DOMAIN published :
    published[i] <= accepted /\ (handler["server"] = "data" => published[i] < accepted)
CarriedBound ==
  \A n \in Frames : Carries(wire["client"], n) =>
    /\ n <= accepted
    /\ \A i \in DOMAIN published : published[i] # n /\ (~isInSameProcess => published[i] < n)
OvertakenBound ==
  Overtaken # {} =>
    isInSameProcess /\ ~Holds(wire["client"], "data") /\ handler["server"] # "data"

NumbersInv ==
  server # "camera" =>
    /\ isInSameProcess => server = "local"
    /\ PublishedBound /\ CarriedBound /\ OvertakenBound /\ AtMostOneOvertaken

(* No image is added.                                                      *)
LEMMA FewerImages ==
  ASSUME SameImages(wire["client"], wire'["client"]) \/ wire'["client"] = << >>
  PROVE  /\ \A n : Carries(wire'["client"], n) => Carries(wire["client"], n)
         /\ Holds(wire'["client"], "data") => Holds(wire["client"], "data")
<1>1. \A n : ~Carries(<< >>, n)
  BY WireEnds DEF Carries
<1> QED
  BY <1>1, WireEnds DEF SameImages

LEMMA SameNumbers ==
  ASSUME UNCHANGED <<published, accepted>>, PublishedBound, CarriedBound, OvertakenBound, AtMostOneOvertaken,
         isInSameProcess => isInSameProcess', handler'["server"] = "data" => handler["server"] = "data",
         SameImages(wire["client"], wire'["client"]) \/ wire'["client"] = << >>
  PROVE  PublishedBound' /\ CarriedBound' /\ OvertakenBound' /\ AtMostOneOvertaken'
<1>1. /\ \A n : Carries(wire'["client"], n) => Carries(wire["client"], n)
      /\ Holds(wire'["client"], "data") => Holds(wire["client"], "data")
  BY FewerImages
<1>2. PublishedBound'
  BY DEF PublishedBound
<1>3. CarriedBound'
  BY <1>1 DEF CarriedBound
<1>4. Overtaken' = Overtaken /\ AtMostOneOvertaken'
  BY DEF Overtaken, AtMostOneOvertaken
<1>5. OvertakenBound'
  BY <1>1, <1>4 DEF OvertakenBound
<1> QED
  BY <1>2, <1>3, <1>4, <1>5

LEMMA NumbersStep == WindowInv /\ AnsweredFirst /\ NumbersInv /\ [Next]_vars => NumbersInv'
<1> SUFFICES ASSUME WindowInv, AnsweredFirst, NumbersInv, [Next]_vars, server' # "camera"
             PROVE  /\ isInSameProcess' => server' = "local"
                    /\ PublishedBound' /\ CarriedBound' /\ OvertakenBound' /\ AtMostOneOvertaken'
  BY DEF NumbersInv
<1>1. /\ BasicInv /\ TypeOK /\ WireInv /\ Ends = {"server", "client"} /\ server # "camera"
      /\ wire["client"] \in Seq(Messages) /\ UNCHANGED server
      /\ isInSameProcess => server = "local"
      /\ PublishedBound /\ CarriedBound /\ OvertakenBound /\ AtMostOneOvertaken
      /\ accepted \in Nat
  BY ServerStays DEF WindowInv, BasicInv, WireInv, Ends, NumbersInv, TypeOK
<1>2. /\ Len(published) \in Nat /\ DOMAIN published = 1..Len(published)
      /\ \A i \in DOMAIN published : published[i] \in Nat
      /\ Overtaken \subseteq DOMAIN published
  BY <1>1, PublishedType DEF Overtaken
<1> DEFINE last == Len(published) + 1
           Bounds == PublishedBound' /\ CarriedBound' /\ OvertakenBound' /\ AtMostOneOvertaken'
<1>3. CASE AcceptFrame
  <2>1. /\ UNCHANGED <<wire, published, isInSameProcess>> /\ ~isInSameProcess /\ receivedAck
        /\ accepted' = accepted + 1
    BY <1>3 DEF AcceptFrame
  <2>2. ~Holds(wire["client"], "data")
    BY <1>1, <2>1 DEF AnsweredFirst
  <2>3. PublishedBound'
    BY <1>1, <1>2, <2>1 DEF PublishedBound
  <2>4. CarriedBound'
    BY <1>1, <2>1, <2>2, CarriedImages DEF CarriedBound
  <2>5. Overtaken' = {} /\ AtMostOneOvertaken'
    BY <1>1, <2>1 DEF OvertakenBound, Overtaken, AtMostOneOvertaken
  <2>6. OvertakenBound'
    BY <2>5 DEF OvertakenBound
  <2> QED
    BY <1>1, <2>1, <2>3, <2>4, <2>5, <2>6
<1>4. CASE ShortcutFrame
  <2>1. /\ UNCHANGED <<wire, handler, isInSameProcess>> /\ isInSameProcess /\ handler["server"] = "idle"
        /\ accepted' = accepted + 1 /\ published' = Append(published, accepted + 1)
    BY <1>4 DEF ShortcutFrame, MayTakeFrame
  <2>2. \A i \in DOMAIN published : published[i] <= accepted /\ published[i] <= accepted + 1 /\ published[i] # accepted + 1
    BY <1>1, <1>2 DEF PublishedBound
  <2>3. /\ DOMAIN published' = 1..last
        /\ \A i \in DOMAIN published : published'[i] = published[i]
        /\ published'[last] = accepted + 1
        /\ Overtaken' = Overtaken
    BY <1>1, <2>1, <2>2, PublishedOneMore
  <2>4. \A i \in DOMAIN published' : i \in DOMAIN published \/ i = last
    BY <1>2, <2>3
  <2> HIDE DEF last
  <2>5. PublishedBound'
    BY <1>1, <2>1, <2>2, <2>3, <2>4, <1>2 DEF PublishedBound
  <2>6. CarriedBound'
    <3> SUFFICES ASSUME NEW n \in Frames, Carries(wire["client"], n), NEW i \in DOMAIN published'
                 PROVE  n <= accepted + 1 /\ published'[i] # n
      BY <2>1 DEF CarriedBound, Frames
    <3>1. n <= accepted /\ n \in Int
      BY <1>1 DEF CarriedBound, Frames
    <3>2. CASE i \in DOMAIN published
      BY <1>1, <2>3, <3>1, <3>2 DEF CarriedBound
    <3>3. CASE i = last
      BY <1>1, <2>3, <3>1, <3>3
    <3> QED
      BY <2>4, <3>2, <3>3
  <2>7. OvertakenBound'
    BY <1>1, <2>1, <2>3 DEF OvertakenBound
  <2>8. AtMostOneOvertaken'
    BY <1>1, <2>2, <2>3, <2>4 DEF AtMostOneOvertaken
  <2> QED
    BY <1>1, <2>1, <2>5, <2>6, <2>7, <2>8
<1>5. CASE SendFrame /\ link["server"] = "open"
  <2>1. /\ UNCHANGED <<published, accepted, isInSameProcess>> /\ handler["server"] = "data"
        /\ handler'["server"] = "idle" /\ Transmit("server", Data(accepted))
    BY <1>1, <1>5 DEF SendFrame, TypeOK
  <2>2. ~Holds(wire["client"], "data") /\ Overtaken = {}
    BY <1>1, <2>1 DEF AnsweredFirst, OvertakenBound
  <2>3. Data(accepted) \in Messages /\ Data(accepted).kind = "data" /\ Data(accepted).frame = accepted
    BY <1>1, <2>1, MessageKinds DEF BasicInv, TypeOK, Frames
  <2>4. wire'["client"] = Append(wire["client"], Data(accepted))
    BY <1>1, <1>5, <2>1, TransmittedWire DEF Peer
  <2>5. \A n : Carries(wire'["client"], n) => n = accepted
    BY <1>1, <2>2, <2>3, <2>4, AppendedImages, CarriedImages
  <2>6. PublishedBound'
    BY <1>1, <1>2, <2>1 DEF PublishedBound
  <2>7. CarriedBound'
    BY <1>1, <1>2, <2>1, <2>5 DEF CarriedBound, PublishedBound
  <2>8. Overtaken' = {} /\ AtMostOneOvertaken'
    BY <1>1, <2>1, <2>2 DEF Overtaken, AtMostOneOvertaken
  <2>9. OvertakenBound'
    BY <2>8 DEF OvertakenBound
  <2> QED
    BY <1>1, <2>1, <2>6, <2>7, <2>8, <2>9
<1>6. CASE ReceiveData
  <2> DEFINE n == Head(wire["client"]).frame
  <2>1. /\ UNCHANGED <<handler, accepted, isInSameProcess>> /\ published' = Append(published, n)
        /\ wire["client"] # << >> /\ Head(wire["client"]).kind = "data" /\ Read("client", "data")
    BY <1>6 DEF ReceiveData, Read
  <2>2. /\ Holds(wire["client"], "data") /\ ~Holds(wire'["client"], "data")
        /\ wire'["client"] = Tail(wire["client"]) /\ Tail(wire["client"]) \in Seq(Messages)
    BY <1>1, <2>1, ReadOfWire, Taken DEF AnsweredFirst, Read, WireInv
  <2>3. Carries(wire["client"], n) /\ n \in Frames
    BY <1>1, <2>1, TakenImages, CarriedImages
  <2> HIDE DEF n
  <2>4. n \in Nat
    BY <2>3 DEF Frames
  <2>5. n <= accepted /\ \A i \in DOMAIN published : published[i] # n /\ (~isInSameProcess => published[i] < n)
    BY <1>1, <2>3 DEF CarriedBound
  <2>6. handler["server"] # "data" /\ Overtaken = {}
    BY <1>1, <2>2 DEF AnsweredFirst, OvertakenBound
  <2>7. /\ DOMAIN published' = 1..last
        /\ \A i \in DOMAIN published : published'[i] = published[i]
        /\ published'[last] = n
        /\ (\A i \in DOMAIN published : published[i] <= n) => Overtaken' = Overtaken
        /\ Overtaken' \subseteq Overtaken \cup {last}
    BY <1>1, <2>1, <2>4, PublishedOneMore
  <2>8. \A i \in DOMAIN published' : i \in DOMAIN published \/ i = last
    BY <1>2, <2>7
  <2> HIDE DEF last
  <2>9. PublishedBound'
    BY <1>1, <2>1, <2>5, <2>6, <2>7, <2>8 DEF PublishedBound
  <2>10. CarriedBound'
    BY <2>2, CarriedImages DEF CarriedBound
  <2>11. OvertakenBound'
    <3>1. ~isInSameProcess => \A i \in DOMAIN published : published[i] <= n
      BY <1>2, <2>4, <2>5
    <3> QED
      BY <2>1, <2>2, <2>6, <2>7, <3>1 DEF OvertakenBound
  <2>12. AtMostOneOvertaken'
    BY <1>1, <2>5, <2>6, <2>7, <2>8 DEF AtMostOneOvertaken
  <2> QED
    BY <1>1, <2>1, <2>9, <2>10, <2>11, <2>12
<1>7. ASSUME SameImages(wire["client"], wire'["client"]) \/ wire'["client"] = << >>, ReceivePid
      PROVE  Bounds /\ (isInSameProcess' => server' = "local")
  <2>1. UNCHANGED <<published, accepted, handler>> /\ isInSameProcess' = (server = "local")
    BY <1>7 DEF ReceivePid
  <2> QED
    BY <1>1, <1>7, <2>1, SameNumbers
<1>8. ASSUME SameImages(wire["client"], wire'["client"]) \/ wire'["client"] = << >>,
             NEW e \in Ends, ReceiveCut(e)
      PROVE  Bounds /\ (isInSameProcess' => server' = "local")
  <2>1. UNCHANGED <<accepted, handler, isInSameProcess>> /\ (published' = published \/ published' = Append(published, CutFrame))
    BY <1>8 DEF ReceiveCut
  <2>2. CASE published' = published
    BY <1>1, <1>8, <2>1, <2>2, SameNumbers
  <2>3. CASE published' = Append(published, CutFrame)
    <3>1. /\ DOMAIN published' = 1..last
          /\ \A i \in DOMAIN published : published'[i] = published[i]
          /\ published'[last] = CutFrame
          /\ Overtaken' = Overtaken /\ CutFrame \in Nat
      BY <1>1, <2>3, PublishedOneMore DEF CutFrame
    <3>2. \A i \in DOMAIN published' : i \in DOMAIN published \/ i = last
      BY <1>2, <3>1
    <3> HIDE DEF last
    <3>3. CutFrame <= accepted /\ (handler["server"] = "data" => CutFrame < accepted) /\ \A n \in Frames : CutFrame < n /\ CutFrame # n
      BY <1>1 DEF CutFrame, BasicInv, Frames
    <3>4. /\ \A n : Carries(wire'["client"], n) => Carries(wire["client"], n)
          /\ Holds(wire'["client"], "data") => Holds(wire["client"], "data")
      BY <1>8, FewerImages
    <3>5. PublishedBound'
      BY <1>1, <2>1, <3>1, <3>2, <3>3 DEF PublishedBound
    <3>6. CarriedBound'
      BY <1>1, <2>1, <3>1, <3>2, <3>3, <3>4 DEF CarriedBound
    <3>7. OvertakenBound'
      BY <1>1, <2>1, <3>1, <3>4 DEF OvertakenBound
    <3>8. AtMostOneOvertaken'
      BY <1>1, <3>1, <3>2 DEF AtMostOneOvertaken
    <3> QED
      BY <1>1, <2>1, <3>5, <3>6, <3>7, <3>8
  <2> QED
    BY <2>1, <2>2, <2>3
<1>9. ASSUME SameImages(wire["client"], wire'["client"]) \/ wire'["client"] = << >>, Quietly
      PROVE  Bounds /\ (isInSameProcess' => server' = "local")
  BY <1>1, <1>9, SameNumbers DEF Quietly
<1>10. ~CameraSend
  BY <1>1 DEF CameraSend
<1> HIDE DEF Bounds
<1> QED
  BY <1>1, <1>3, <1>4, <1>5, <1>6, <1>7, <1>8, <1>9, <1>10, ClientsWire, PublishingSteps DEF Bounds

(* Nothing is published any more.                                          *)
NoMore == /\ ~active["client"] /\ pc["client"] \notin {"start", "receive"}
          /\ link["server"] # "open" /\ ~Holds(wire["client"], "data")
InOrder == \A i \in DOMAIN published :
             published[i] = i \/ (published[i] = CutFrame /\ i = Len(published) /\ NoMore)

LEMMA InOrderKept ==
  ASSUME InOrder, UNCHANGED published, NoMore => NoMore'
  PROVE  InOrder'
BY DEF InOrder

LEMMA InOrderExtended ==
  ASSUME TypeOK, InOrder, ~NoMore, NEW n \in Nat, published' = Append(published, n),
         n = Len(published) + 1 \/ (n = CutFrame /\ NoMore')
  PROVE  InOrder' /\ Len(published') = Len(published) + 1 /\ Len(published) \in Nat
<1> DEFINE last == Len(published) + 1
<1>1. /\ DOMAIN published' = 1..last /\ Len(published') = last
      /\ DOMAIN published = 1..Len(published) /\ Len(published) \in Nat
      /\ \A i \in DOMAIN published : published'[i] = published[i]
      /\ published'[last] = n
  BY PublishedType, PublishedOneMore
<1>2. \A i \in DOMAIN published' : i \in DOMAIN published \/ i = last
  BY <1>1
<1>3. \A i \in DOMAIN published : published'[i] = i
  BY <1>1 DEF InOrder
<1> HIDE DEF last
<1>4. n = last \/ (n = CutFrame /\ NoMore')
  BY DEF last
<1>5. InOrder'
  BY <1>1, <1>2, <1>3, <1>4 DEF InOrder
<1> QED
  BY <1>1, <1>5 DEF last

LEMMA LinkStaysEnded == WireInv /\ [Next]_vars /\ link'["server"] = "open" => link["server"] = "open"
<1> SUFFICES ASSUME WireInv, [Next]_vars, link["server"] # "open"
             PROVE  link'["server"] # "open"
  OBVIOUS
<1>1. link["client"] # "open"
  BY DEF WireInv
<1>2. ASSUME NEW e \in Ends, NEW m, Transmit(e, m)
      PROVE  link'["server"] # "open"
  BY <1>1, <1>2 DEF WireInv, Transmit, Ends
<1>3. CASE SendFrame \/ SendPid \/ \E e \in Ends : SendHeartbeat(e) \/ SendAck(e)
  BY <1>2, <1>3 DEF SendFrame, SendPid, SendHeartbeat, SendAck, Ends
<1>4. ASSUME NEW e \in Ends, End(e) PROVE link'["server"] # "open"
  BY <1>4 DEF End, Ends
<1>5. CASE Break
  BY <1>5 DEF Break, Ends
<1>6. CASE UNCHANGED link
  BY <1>6
<1> QED
  BY <1>3, <1>4, <1>5, <1>6
     DEF Next, AcceptFrame, ShortcutFrame, CameraSend, Execute, HandleTimer, GiveUp, Stop,
         Start, ReceiveMessage, ReceiveHeartbeat, ReceiveData, ReceiveAck, ReceivePid, ReceiveCut,
         Destroy, HeartbeatTimeout, LastHeartbeatTimeout, vars

(* An object that has left its loop publishes nothing.                     *)
LEMMA NoMoreStays ==
  ASSUME BasicInv, [Next]_vars, NoMore
  PROVE  NoMore' /\ ~ReceiveData /\ ~ReceiveCut("client")
<1>1. TypeOK /\ WireInv /\ Ends = {"server", "client"} /\ "client" \in Ends
      /\ ~active["client"] /\ pc["client"] \in {"ack", "leave", "ended", "destroyed"}
      /\ link["server"] # "open" /\ ~Holds(wire["client"], "data")
  BY DEF BasicInv, Ends, NoMore, TypeOK
<1>2. ~ReceiveData /\ ~ReceiveCut("client")
  BY <1>1 DEF ReceiveData, ReceiveCut, Read
<1>3. link'["server"] # "open"
  BY <1>1, LinkStaysEnded
<1>4. ~CameraSend /\ ~(SendFrame /\ link["server"] = "open")
  BY <1>1 DEF CameraSend
<1>5. ~Holds(wire'["client"], "data")
  <2>1. SameImages(wire["client"], wire'["client"]) \/ wire'["client"] = << >>
    BY <1>2, <1>4, ClientsWire
  <2> QED
    BY <1>1, <2>1, FewerImages
<1>6. ~active'["client"] /\ pc'["client"] \in {"ack", "leave", "ended", "destroyed"}
  <2> USE <1>1 DEF TypeOK
  <2>1. CASE AcceptFrame \/ ShortcutFrame \/ Break \/ ReceiveAck \/ ReceivePid \/ UNCHANGED vars
    BY <2>1 DEF AcceptFrame, ShortcutFrame, Break, ReceiveAck, ReceivePid, Read, vars
  <2>2. CASE SendFrame \/ SendPid
    BY <2>2 DEF SendFrame, SendPid, Transmit
  <2>3. ASSUME NEW e \in Ends, SendHeartbeat(e) \/ SendAck(e)
        PROVE  ~active'["client"] /\ pc'["client"] \in {"ack", "leave", "ended", "destroyed"}
    BY <2>3 DEF SendHeartbeat, SendAck, Transmit, Round
  <2>4. ASSUME NEW e \in Ends, HeartbeatTimeout(e) \/ LastHeartbeatTimeout(e) \/ Stop(e)
        PROVE  ~active'["client"] /\ pc'["client"] \in {"ack", "leave", "ended", "destroyed"}
    BY <2>4 DEF HeartbeatTimeout, LastHeartbeatTimeout, Stop
  <2>5. ASSUME NEW e \in Ends, Start(e) \/ ReceiveHeartbeat(e) \/ ReceiveCut(e)
        PROVE  ~active'["client"] /\ pc'["client"] \in {"ack", "leave", "ended", "destroyed"}
    BY <2>5 DEF Start, ReceiveHeartbeat, ReceiveCut, Read, Round
  <2>6. ASSUME NEW e \in Ends, GiveUp(e) \/ End(e) \/ Destroy(e)
        PROVE  ~active'["client"] /\ pc'["client"] \in {"ack", "leave", "ended", "destroyed"}
    BY <2>6 DEF GiveUp, End, Destroy
  <2> QED
    BY <2>1, <2>2, <2>3, <2>4, <2>5, <2>6, <1>2, <1>4 DEF Next, Execute, HandleTimer, ReceiveMessage
<1> QED
  BY <1>2, <1>3, <1>5, <1>6 DEF NoMore

(* The client loses what is left, and its object ends.                     *)
LEMMA ClientsCut ==
  ASSUME BasicInv, ReceiveCut("client")
  PROVE  /\ ~NoMore /\ NoMore' /\ wire'["client"] = << >> /\ link'["server"] # "open"
         /\ UNCHANGED <<accepted, handler>>
         /\ published' = published \/ published' = Append(published, CutFrame)
<1>1. TypeOK /\ WireInv /\ "client" \in Ends
  BY DEF BasicInv, Ends
<1>2. /\ wire["client"] # << >> /\ (link["client"] = "reset" \/ Head(wire["client"]) = Cut)
      /\ wire'["client"] = << >> /\ UNCHANGED <<link, accepted, handler>>
      /\ published' = published \/ published' = Append(published, CutFrame)
      /\ ~active'["client"] /\ pc'["client"] \in {"ack", "leave"} /\ pc["client"] = "receive"
  BY <1>1 DEF ReceiveCut, TypeOK
<1>3. link["client"] # "open"
  <2>1. wire["client"] \in Seq(Messages)
    BY <1>1 DEF WireInv
  <2>2. Head(wire["client"]).kind = "cut" => Holds(wire["client"], "cut")
    BY <1>2, <2>1, Taken
  <2> QED
    BY <1>1, <1>2, <2>2, MessageKinds DEF WireInv
<1>4. link'["server"] # "open"
  BY <1>1, <1>2, <1>3 DEF WireInv
<1> QED
  BY <1>2, <1>4, WireEnds DEF NoMore

(* Between two processes: while the connection stands every image that was *)
(* accepted is published, on its way, or about to be sent.                 *)
RemoteInv ==
  server = "remote" =>
    /\ InOrder
    /\ \A n : Carries(wire["client"], n) => n = Len(published) + 1
    /\ link["server"] = "open" =>
         accepted = Len(published) + One(Holds(wire["client"], "data")) + One(handler["server"] = "data")

LEMMA RemoteStep == WindowInv /\ AnsweredFirst /\ NumbersInv /\ RemoteInv /\ [Next]_vars => RemoteInv'
<1> DEFINE Rest == One(Holds(wire["client"], "data")) + One(handler["server"] = "data")
           Goal == /\ InOrder'
                   /\ \A n : Carries(wire'["client"], n) => n = Len(published') + 1
                   /\ link'["server"] = "open" =>
                        accepted' = Len(published') + One(Holds(wire'["client"], "data"))
                                      + One(handler'["server"] = "data")
<1> SUFFICES ASSUME WindowInv, AnsweredFirst, NumbersInv, RemoteInv, [Next]_vars, server' = "remote"
             PROVE  Goal
  BY DEF RemoteInv
<1>1. /\ BasicInv /\ TypeOK /\ WireInv /\ Ends = {"server", "client"} /\ server = "remote"
      /\ wire["client"] \in Seq(Messages) /\ Len(published) \in Nat /\ accepted \in Nat
      /\ ~isInSameProcess /\ InOrder
      /\ \A n : Carries(wire["client"], n) => n = Len(published) + 1
      /\ link["server"] = "open" =>
           accepted = Len(published) + One(Holds(wire["client"], "data")) + One(handler["server"] = "data")
  BY ServerStays, PublishedType DEF WindowInv, BasicInv, WireInv, Ends, NumbersInv, TypeOK, RemoteInv
<1>2. NoMore => NoMore'
  BY <1>1, NoMoreStays
<1>3. link'["server"] = "open" => link["server"] = "open"
  BY <1>1, LinkStaysEnded
<1>4. CASE AcceptFrame
  <2>1. /\ UNCHANGED <<wire, published, link>> /\ receivedAck
        /\ accepted' = accepted + 1 /\ handler["server"] # "data" /\ handler'["server"] = "data"
    BY <1>1, <1>4 DEF AcceptFrame, MayTakeFrame, TypeOK
  <2>2. ~Holds(wire["client"], "data")
    BY <1>1, <2>1 DEF AnsweredFirst
  <2>3. link["server"] = "open" => accepted' = Len(published) + 0 + 1
    BY <1>1, <2>1, <2>2 DEF One
  <2> QED
    BY <1>1, <1>2, <2>1, <2>2, <2>3, InOrderKept, CarriedImages DEF One
<1>5. CASE SendFrame /\ link["server"] = "open"
  <2>1. /\ UNCHANGED <<published, accepted>> /\ handler["server"] = "data"
        /\ handler'["server"] # "data" /\ Transmit("server", Data(accepted))
    BY <1>1, <1>5 DEF SendFrame, TypeOK
  <2>2. ~Holds(wire["client"], "data")
    BY <1>1, <2>1 DEF AnsweredFirst
  <2>3. Data(accepted) \in Messages /\ Data(accepted).kind = "data" /\ Data(accepted).frame = accepted
    BY <1>1, <2>1, MessageKinds DEF BasicInv, TypeOK, Frames
  <2>4. wire'["client"] = Append(wire["client"], Data(accepted))
    BY <1>1, <1>5, <2>1, TransmittedWire DEF Peer
  <2>5. \A n : Carries(wire'["client"], n) => n = accepted
    BY <1>1, <2>2, <2>3, <2>4, AppendedImages, CarriedImages
  <2>6. Holds(wire'["client"], "data")
    BY <1>1, <2>3, <2>4, Appended
  <2>7. accepted = Len(published) + 0 + 1
    BY <1>1, <1>5, <2>1, <2>2 DEF One
  <2>8. InOrder'
    BY <1>1, <1>2, <2>1, InOrderKept
  <2>9. accepted' = Len(published') + 1 + 0
    BY <1>1, <2>1, <2>7
  <2>10. \A n : Carries(wire'["client"], n) => n = Len(published') + 1
    BY <1>1, <2>1, <2>5, <2>7
  <2> QED
    BY <2>1, <2>6, <2>8, <2>9, <2>10 DEF One
<1>6. CASE ReceiveData
  <2> DEFINE n == Head(wire["client"]).frame
  <2>1. /\ UNCHANGED <<handler, accepted, link>> /\ published' = Append(published, n)
        /\ wire["client"] # << >> /\ Head(wire["client"]).kind = "data" /\ Read("client", "data")
        /\ pc["client"] = "receive"
    BY <1>6 DEF ReceiveData, Read
  <2>2. Holds(wire["client"], "data") /\ ~Holds(wire'["client"], "data")
    BY <1>1, <2>1, ReadOfWire DEF AnsweredFirst
  <2>3. Carries(wire["client"], n)
    BY <1>1, <2>1, TakenImages
  <2> HIDE DEF n
  <2>4. n = Len(published) + 1 /\ n \in Nat
    BY <1>1, <2>3
  <2>5. ~NoMore
    BY <2>1 DEF NoMore
  <2>6. InOrder' /\ Len(published') = Len(published) + 1
    BY <1>1, <2>1, <2>4, <2>5, InOrderExtended
  <2>7. wire'["client"] \in Seq(Messages)
    BY BasicStep, <1>1 DEF BasicInv, WireInv
  <2>8. \A m : ~Carries(wire'["client"], m)
    BY <2>2, <2>7, CarriedImages
  <2>9. handler["server"] # "data"
    BY <1>1, <2>2 DEF AnsweredFirst
  <2>10. link["server"] = "open" => accepted = Len(published) + 1 + 0
    BY <1>1, <2>2, <2>9 DEF One
  <2>11. link["server"] = "open" => accepted = Len(published') + 0 + 0
    BY <1>1, <2>6, <2>10
  <2> QED
    BY <1>1, <2>1, <2>2, <2>6, <2>8, <2>9, <2>11 DEF One
<1>7. CASE ReceiveCut("client")
  <2>1. /\ ~NoMore /\ NoMore' /\ wire'["client"] = << >> /\ link'["server"] # "open"
        /\ published' = published \/ published' = Append(published, CutFrame)
    BY <1>1, <1>7, ClientsCut
  <2>2. \A n : ~Carries(wire'["client"], n)
    BY <2>1, WireEnds, CarriedImages
  <2>3. InOrder'
    BY <1>1, <2>1, InOrderKept, InOrderExtended DEF CutFrame
  <2> QED
    BY <2>1, <2>2, <2>3
<1>8. ASSUME SameImages(wire["client"], wire'["client"]) \/ (wire'["client"] = << >> /\ link'["server"] # "open"),
             UNCHANGED <<published, accepted>>,
             link'["server"] = "open" => (handler'["server"] = "data" <=> handler["server"] = "data")
      PROVE  Goal
  <2>1. InOrder'
    BY <1>1, <1>2, <1>8, InOrderKept
  <2>2. \A n : Carries(wire'["client"], n) => n = Len(published') + 1
    BY <1>1, <1>8, FewerImages
  <2>3. link'["server"] = "open" =>
          /\ accepted' = accepted /\ published' = published
          /\ Holds(wire'["client"], "data") <=> Holds(wire["client"], "data")
          /\ handler'["server"] = "data" <=> handler["server"] = "data"
    BY <1>8 DEF SameImages
  <2>4. link'["server"] = "open" =>
          /\ One(Holds(wire'["client"], "data")) = One(Holds(wire["client"], "data"))
          /\ One(handler'["server"] = "data") = One(handler["server"] = "data")
    BY <2>3 DEF One
  <2> QED
    BY <1>1, <1>3, <2>1, <2>2, <2>3, <2>4
<1>9. ASSUME SameImages(wire["client"], wire'["client"]) \/ (wire'["client"] = << >> /\ link'["server"] # "open")
      PROVE  ReceivePid \/ ReceiveCut("server") \/ Quietly => Goal
  <2>1. ReceivePid => UNCHANGED <<published, accepted, handler>>
    BY DEF ReceivePid
  <2>2. ReceiveCut("server") => UNCHANGED <<published, accepted, handler>>
    BY <1>1 DEF ReceiveCut
  <2>3. Quietly => /\ UNCHANGED <<published, accepted>>
                   /\ \/ SendFrame \/ (handler'["server"] = "data" <=> handler["server"] = "data")
    BY DEF Quietly
  <2> HIDE DEF Goal
  <2> QED
    BY <1>3, <1>5, <1>8, <1>9, <2>1, <2>2, <2>3
<1>10. ~CameraSend /\ ~ShortcutFrame
  BY <1>1 DEF CameraSend, ShortcutFrame
<1> HIDE DEF Goal
<1> QED
  BY <1>1, <1>4, <1>5, <1>6, <1>7, <1>9, <1>10, ClientsWire, PublishingSteps

(* A camera only sends: its images are on the wire in the order of their   *)
(* numbers, from the first that is not published on.                       *)
Numbered(w, base) == \A i \in 1..Len(w) : w[i] = Cut \/ (w[i].kind = "data" /\ w[i].frame = base + i)

CameraInv ==
  server = "camera" =>
    /\ handler["server"] = "idle" /\ ~active["server"] /\ pc["server"] = "destroyed"
    /\ InOrder
    /\ Numbered(wire["client"], Len(published))
    /\ link["server"] = "open" => accepted = Len(published) + Len(wire["client"])

LEMMA NumberedImages ==
  ASSUME NEW w \in Seq(Messages), NEW b \in Nat, Numbered(w, b)
  PROVE  /\ Numbered(Append(w, Cut), b) /\ Numbered(Append(w, Data(b + Len(w) + 1)), b)
         /\ w # << >> => Numbered(Tail(w), b + 1) /\ Head(w).kind \in {"cut", "data"}
         /\ w # << >> /\ Head(w).kind = "data" => Head(w).frame = b + 1
<1>1. ASSUME NEW m, m = Cut \/ (m.kind = "data" /\ m.frame = b + (Len(w) + 1))
      PROVE  Numbered(Append(w, m), b)
  <2> DEFINE t == Append(w, m)
  <2>1. /\ Len(w) \in Nat /\ Len(t) = Len(w) + 1
        /\ \A i \in 1..Len(w) : t[i] = w[i]
        /\ t[Len(w) + 1] = m
    BY AppendProperties, LenProperties
  <2> HIDE DEF t
  <2>2. \A i \in 1..Len(t) : i \in 1..Len(w) \/ i = Len(w) + 1
    BY <2>1
  <2>3. Numbered(t, b)
    BY <1>1, <2>1, <2>2 DEF Numbered
  <2> QED
    BY <2>3 DEF t
<1>2. Data(b + Len(w) + 1).kind = "data" /\ Data(b + Len(w) + 1).frame = b + (Len(w) + 1)
  BY LenProperties DEF Data, Message
<1>3. Numbered(Append(w, Cut), b) /\ Numbered(Append(w, Data(b + Len(w) + 1)), b)
  BY <1>1, <1>2
<1>4. ASSUME w # << >>
      PROVE  /\ Numbered(Tail(w), b + 1) /\ Head(w).kind \in {"cut", "data"}
             /\ Head(w).kind = "data" => Head(w).frame = b + 1
  <2> DEFINE t == Tail(w)
             h == Head(w)
  <2>1. /\ Len(w) \in Nat \ {0} /\ Len(t) = Len(w) - 1
        /\ \A i \in 1..Len(t) : t[i] = w[i + 1]
        /\ h = w[1]
    BY <1>4, HeadTailProperties, EmptySeq
  <2> HIDE DEF t, h
  <2>2. 1 \in 1..Len(w) /\ \A i \in 1..Len(t) : i + 1 \in 1..Len(w) /\ b + (i + 1) = (b + 1) + i
    BY <2>1
  <2>3. h = Cut \/ (h.kind = "data" /\ h.frame = b + 1)
    BY <2>1, <2>2 DEF Numbered
  <2>4. Numbered(t, b + 1)
    BY <2>1, <2>2 DEF Numbered
  <2> QED
    BY <2>3, <2>4, MessageKinds DEF t, h
<1> QED
  BY <1>3, <1>4

(* What can happen between a camera and its client.                        *)
LEMMA CameraSteps ==
  ASSUME BasicInv, CameraInv, [Next]_vars, server = "camera"
  PROVE  /\ handler'["server"] = "idle" /\ ~active'["server"] /\ pc'["server"] = "destroyed"
         /\ \/ CameraSend \/ ReceiveData \/ ReceiveCut("client")
            \/ /\ UNCHANGED <<published, accepted>>
               /\ \/ wire'["client"] = wire["client"]
                  \/ link'["server"] # "open"
                     /\ (wire'["client"] = << >> \/ wire'["client"] = Append(wire["client"], Cut))
<1> DEFINE Silent == handler'["server"] = "idle" /\ ~active'["server"] /\ pc'["server"] = "destroyed"
           Same == UNCHANGED <<published, accepted>> /\ wire'["client"] = wire["client"]
           Ended == UNCHANGED <<published, accepted>> /\ link'["server"] # "open"
                    /\ (wire'["client"] = << >> \/ wire'["client"] = Append(wire["client"], Cut)
                         \/ wire'["client"] = wire["client"])
<1>1. /\ TypeOK /\ WireInv /\ Ends = {"server", "client"}
      /\ Peer("server") = "client" /\ Peer("client") = "server" /\ wire["client"] \in Seq(Messages)
      /\ handler["server"] = "idle" /\ ~active["server"] /\ pc["server"] = "destroyed"
      /\ Len(published) \in Nat /\ Numbered(wire["client"], Len(published))
  BY PublishedType DEF BasicInv, WireInv, Ends, Peer, CameraInv
<1>2. ~AcceptFrame /\ ~ShortcutFrame /\ ~SendFrame /\ ~ReceiveAck /\ ~ReceivePid
  BY <1>1 DEF AcceptFrame, ShortcutFrame, SendFrame, ReceiveAck, ReceivePid, MayTakeFrame, Read
<1>3. CASE CameraSend
  BY <1>1, <1>3 DEF CameraSend
<1>4. CASE Break
  <2>1. Silent /\ UNCHANGED <<published, accepted>>
    BY <1>1, <1>4 DEF Break
  <2> QED
    BY <1>1, <1>4, <2>1, BrokenWire
<1>5. CASE SendPid
  <2>1. Silent /\ UNCHANGED <<published, accepted>>
    BY <1>1, <1>5 DEF SendPid, Transmit, TypeOK
  <2> QED
    BY <1>1, <1>5, <2>1, TransmittedWire DEF SendPid
<1>6. CASE ReceiveData
  BY <1>1, <1>6 DEF ReceiveData, Read, TypeOK
<1>7. ASSUME NEW e \in Ends, SendHeartbeat(e) PROVE Silent /\ Same
  <2>1. e = "client"
    BY <1>1, <1>7 DEF SendHeartbeat
  <2>2. Silent /\ UNCHANGED <<published, accepted>>
    BY <1>1, <1>7, <2>1 DEF SendHeartbeat, Transmit, TypeOK
  <2> QED
    BY <1>1, <1>7, <2>1, <2>2, TransmittedWire DEF SendHeartbeat
<1>8. ASSUME NEW e \in Ends, SendAck(e) PROVE Silent /\ Same
  <2>1. e = "client"
    BY <1>1, <1>8 DEF SendAck
  <2>2. Silent /\ UNCHANGED <<published, accepted>>
    BY <1>1, <1>8, <2>1 DEF SendAck, Transmit, TypeOK
  <2> QED
    BY <1>1, <1>8, <2>1, <2>2, TransmittedWire DEF SendAck
<1>9. ASSUME NEW e \in Ends, End(e) PROVE Silent /\ Ended
  <2>1. e = "client"
    BY <1>1, <1>9 DEF End
  <2>2. Silent /\ UNCHANGED <<published, accepted>>
    BY <1>1, <1>9, <2>1 DEF End, TypeOK
  <2> QED
    BY <1>1, <1>9, <2>1, <2>2, EndedWire
<1>10. ASSUME NEW e \in Ends, ReceiveHeartbeat(e) PROVE FALSE
  <2>1. e = "client"
    BY <1>1, <1>10 DEF ReceiveHeartbeat, Read
  <2>2. wire["client"] # << >> /\ Head(wire["client"]).kind = "heartbeat"
    BY <1>10, <2>1 DEF ReceiveHeartbeat, Read
  <2>3. Head(wire["client"]).kind \in {"cut", "data"}
    BY <1>1, <2>2, NumberedImages
  <2> QED
    BY <2>2, <2>3
<1>11. ASSUME NEW e \in Ends, ReceiveCut(e) PROVE Silent /\ ReceiveCut("client")
  <2>1. e = "client"
    BY <1>1, <1>11 DEF ReceiveCut
  <2> QED
    BY <1>1, <1>11, <2>1 DEF ReceiveCut, TypeOK
<1>12. ASSUME NEW e \in Ends, HeartbeatTimeout(e) \/ LastHeartbeatTimeout(e) \/ Stop(e)
       PROVE  Silent /\ Same
  BY <1>1, <1>12 DEF HeartbeatTimeout, LastHeartbeatTimeout, Stop, TypeOK
<1>13. ASSUME NEW e \in Ends, Start(e) \/ GiveUp(e) \/ Destroy(e)
       PROVE  Silent /\ Same
  BY <1>1, <1>13 DEF Start, GiveUp, Destroy, TypeOK
<1>14. CASE UNCHANGED vars
  BY <1>1, <1>14 DEF vars
<1> HIDE DEF Silent, Same, Ended
<1>15. \/ CameraSend \/ Break \/ SendPid \/ ReceiveData \/ UNCHANGED vars
       \/ \E e \in Ends : SendHeartbeat(e) \/ SendAck(e) \/ End(e)
       \/ \E e \in Ends : ReceiveHeartbeat(e) \/ ReceiveCut(e)
       \/ \E e \in Ends : HeartbeatTimeout(e) \/ LastHeartbeatTimeout(e) \/ Stop(e)
       \/ \E e \in Ends : Start(e) \/ GiveUp(e) \/ Destroy(e)
  BY <1>2 DEF Next, Execute, HandleTimer, ReceiveMessage
<1>16. ASSUME Silent, Same \/ Ended \/ ReceiveCut("client")
       PROVE  /\ handler'["server"] = "idle" /\ ~active'["server"] /\ pc'["server"] = "destroyed"
              /\ \/ CameraSend \/ ReceiveData \/ ReceiveCut("client")
                 \/ /\ UNCHANGED <<published, accepted>>
                    /\ \/ wire'["client"] = wire["client"]
                       \/ link'["server"] # "open"
                          /\ (wire'["client"] = << >> \/ wire'["client"] = Append(wire["client"], Cut))
  BY <1>16 DEF Silent, Same, Ended
<1> QED
  BY <1>3, <1>4, <1>5, <1>6, <1>7, <1>8, <1>9, <1>10, <1>11, <1>12, <1>13, <1>14, <1>15, <1>16

LEMMA CameraStep == BasicInv /\ CameraInv /\ [Next]_vars => CameraInv'
<1> DEFINE Goal == /\ InOrder'
                   /\ Numbered(wire'["client"], Len(published'))
                   /\ link'["server"] = "open" => accepted' = Len(published') + Len(wire'["client"])
<1> SUFFICES ASSUME BasicInv, CameraInv, [Next]_vars, server' = "camera"
             PROVE  Goal
  BY CameraSteps, ServerStays DEF CameraInv
<1>1. /\ TypeOK /\ WireInv /\ "client" \in Ends /\ server = "camera"
      /\ wire["client"] \in Seq(Messages) /\ Len(published) \in Nat /\ Len(wire["client"]) \in Nat
      /\ accepted \in Nat /\ InOrder
      /\ Numbered(wire["client"], Len(published))
      /\ link["server"] = "open" => accepted = Len(published) + Len(wire["client"])
  BY ServerStays, PublishedType, LenProperties DEF BasicInv, WireInv, Ends, TypeOK, CameraInv
<1>2. NoMore => NoMore'
  BY NoMoreStays
<1>3. link'["server"] = "open" => link["server"] = "open"
  BY <1>1, LinkStaysEnded
<1>4. CASE CameraSend
  <2>1. /\ UNCHANGED <<published, link>> /\ link["server"] = "open" /\ accepted' = accepted + 1
        /\ wire'["client"] = Append(wire["client"], Data(accepted + 1))
    BY <1>1, <1>4 DEF CameraSend, WireInv
  <2>2. accepted = Len(published) + Len(wire["client"])
        /\ accepted + 1 = Len(published) + Len(wire["client"]) + 1
    BY <1>1, <2>1
  <2>3. Numbered(wire'["client"], Len(published))
    BY <1>1, <2>1, <2>2, NumberedImages
  <2>4. Len(wire'["client"]) = Len(wire["client"]) + 1
    <3>1. Data(accepted + 1) \in Messages
      BY <1>1, <1>4, MessageKinds, MaxFramesAssumption DEF CameraSend, Frames
    <3> QED
      BY <1>1, <2>1, <3>1, Appended
  <2>5. InOrder'
    BY <1>1, <1>2, <2>1, InOrderKept
  <2> QED
    BY <1>1, <2>1, <2>2, <2>3, <2>4, <2>5
<1>5. CASE ReceiveData
  <2> DEFINE w == wire["client"]
  <2>1. /\ UNCHANGED <<accepted, link>> /\ published' = Append(published, Head(w).frame)
        /\ w # << >> /\ Head(w).kind = "data" /\ pc["client"] = "receive" /\ wire'["client"] = Tail(w)
    BY <1>1, <1>5 DEF ReceiveData, Read, WireInv
  <2>2. Head(w).frame = Len(published) + 1 /\ Numbered(Tail(w), Len(published) + 1)
    BY <1>1, <2>1, NumberedImages
  <2>3. Len(Tail(w)) = Len(w) - 1
    BY <1>1, <2>1, Taken
  <2>4. ~NoMore
    BY <2>1 DEF NoMore
  <2>5. published' = Append(published, Len(published) + 1) /\ Len(published) + 1 \in Nat
    BY <1>1, <2>1, <2>2
  <2>6. InOrder' /\ Len(published') = Len(published) + 1
    BY <1>1, <2>4, <2>5, InOrderExtended
  <2> HIDE DEF w
  <2>7. Len(w) \in Nat /\ (link["server"] = "open" => accepted = Len(published) + Len(w))
    BY <1>1 DEF w
  <2>8. link["server"] = "open" => accepted = (Len(published) + 1) + (Len(w) - 1)
    BY <1>1, <2>7
  <2> QED
    BY <1>1, <2>1, <2>2, <2>3, <2>6, <2>8
<1>6. CASE ReceiveCut("client")
  <2>1. /\ ~NoMore /\ NoMore' /\ wire'["client"] = << >> /\ link'["server"] # "open"
        /\ published' = published \/ published' = Append(published, CutFrame)
    BY <1>1, <1>6, ClientsCut
  <2>2. \A b : Numbered(<< >>, b)
    BY WireEnds DEF Numbered
  <2>3. InOrder'
    BY <1>1, <2>1, InOrderKept, InOrderExtended DEF CutFrame
  <2> QED
    BY <2>1, <2>2, <2>3
<1>7. ASSUME UNCHANGED <<published, accepted>>,
             \/ wire'["client"] = wire["client"]
             \/ link'["server"] # "open"
                /\ (wire'["client"] = << >> \/ wire'["client"] = Append(wire["client"], Cut))
      PROVE  Goal
  <2>1. InOrder'
    BY <1>1, <1>2, <1>7, InOrderKept
  <2>2. \A b : Numbered(<< >>, b)
    BY WireEnds DEF Numbered
  <2>3. Numbered(Append(wire["client"], Cut), Len(published))
    BY <1>1, NumberedImages
  <2>4. Numbered(wire'["client"], Len(published'))
    BY <1>1, <1>7, <2>2, <2>3
  <2> QED
    BY <1>1, <1>3, <1>7, <2>1, <2>4
<1> HIDE DEF Goal
<1> QED
  BY <1>1, <1>4, <1>5, <1>6, <1>7, CameraSteps

(* Images in the order of their numbers are published as they should be.   *)
LEMMA InOrderSuffices == TypeOK /\ InOrder => PublishedInOrder
<1> SUFFICES ASSUME TypeOK, InOrder PROVE PublishedInOrder
  OBVIOUS
<1>1. /\ DOMAIN published = 1..Len(published) /\ Len(published) \in Nat
      /\ \A i \in DOMAIN published : published[i] = i \/ (published[i] = CutFrame /\ i = Len(published))
  BY PublishedType DEF InOrder
<1>2. CutFrameIsLast
  BY DEF InOrder, CutFrameIsLast, NoMore
<1>3. \A i, j \in DOMAIN published : published[i] = published[j] => i = j \/ published[i] = CutFrame
  BY <1>1 DEF CutFrame
<1>4. Overtaken = {}
  <2> SUFFICES ASSUME NEW i \in DOMAIN published, NEW j \in 1..(i - 1),
                      published[i] # CutFrame, published[j] > published[i]
               PROVE  FALSE
    BY DEF Overtaken
  <2>1. j \in DOMAIN published /\ j < i /\ published[i] = i
    BY <1>1
  <2>2. published[j] = j \/ published[j] = 0
    BY <1>1, <2>1 DEF CutFrame
  <2> QED
    BY <1>1, <2>1, <2>2
<1> QED
  BY <1>2, <1>3, <1>4 DEF PublishedInOrder, AtMostOneOvertaken

OrderInv == WindowInv /\ AnsweredFirst /\ NumbersInv /\ RemoteInv /\ CameraInv

LEMMA OrderInit == Init => OrderInv
<1> SUFFICES ASSUME Init PROVE OrderInv
  OBVIOUS
<1>1. WindowInv /\ TypeOK
  BY WindowInit DEF WindowInv, BasicInv
<1>2. /\ wire["client"] = << >> /\ published = << >> /\ accepted = 0 /\ handler["server"] = "idle"
      /\ ~isInSameProcess /\ DOMAIN published = {} /\ Len(published) = 0
      /\ server = "camera" => ~active["server"] /\ pc["server"] = "destroyed"
  <2>1. DOMAIN << >> = {} /\ Len(<< >>) = 0
    BY EmptySeq
  <2> QED
    BY <2>1 DEF Init, Ends
<1>3. /\ Overtaken = {} /\ InOrder /\ \A k : ~Holds(wire["client"], k) /\ Once(wire["client"], k)
      /\ \A n : ~Carries(wire["client"], n)
  BY <1>2, WireEnds DEF Overtaken, InOrder, Carries
<1>4. AnsweredFirst
  BY <1>3 DEF AnsweredFirst
<1>5. NumbersInv
  BY <1>2, <1>3 DEF NumbersInv, PublishedBound, CarriedBound, OvertakenBound, AtMostOneOvertaken
<1>6. RemoteInv
  BY <1>2, <1>3 DEF RemoteInv, One
<1>7. CameraInv
  BY <1>2, <1>3, WireEnds DEF CameraInv, Numbered
<1> QED
  BY <1>1, <1>4, <1>5, <1>6, <1>7 DEF OrderInv

(* Between two processes, and from a camera, the images are published in   *)
(* order and a part of one only at the end; within a process, where an     *)
(* image may overtake what is on the connection, none is published twice   *)
(* and only one is overtaken (pivision_ethtermconnection.cpp:244-287,      *)
(* 295-359).                                                               *)
THEOREM PublishedStaysInOrder == Spec => []PublishedInOrder
<1>1. OrderInv /\ [Next]_vars => OrderInv'
  BY WindowStep, AnsweredStep, NumbersStep, RemoteStep, CameraStep DEF OrderInv, WindowInv
<1>2. OrderInv => PublishedInOrder
  <2> SUFFICES ASSUME OrderInv PROVE PublishedInOrder
    OBVIOUS
  <2>1. CASE server = "local"
    BY <2>1 DEF OrderInv, NumbersInv, PublishedInOrder, CutFrameIsLast
  <2>2. CASE server \in {"remote", "camera"}
    BY <2>2, InOrderSuffices DEF OrderInv, RemoteInv, CameraInv, WindowInv, BasicInv
  <2> QED
    BY <2>1, <2>2 DEF OrderInv, WindowInv, BasicInv, TypeOK
<1> QED
  BY <1>1, <1>2, OrderInit, PTL DEF Spec
=============================================================================
