---------------------------- MODULE CameraServer ----------------------------
(***************************************************************************)
(* The camera server in Python: PiVisServer.py and PiVisCamera.py, which   *)
(* PiVisScheduler.py calls in turn.  One thread accepts a connection,      *)
(* answers a discovery request, takes a picture and sends it to all        *)
(* clients, one after the other, with calls that wait without a timeout.   *)
(*                                                                         *)
(* A frame is a size and Parts parts of pixels; as many items as Room fit  *)
(* between the server and a client that does not read.  Clients and        *)
(* network are external: a client asks until it is answered, connects,     *)
(* reads, and may stop reading or leave.                                   *)
(***************************************************************************)
EXTENDS Integers, SequencesExt

CONSTANTS Clients,
          Parts,       \* parts of an image that fit the network one at a time
          Room,        \* items on the way to a client
          MaxStrays    \* bound: requests for another service

ASSUME PartsAssumption == Parts \in Nat \ {0}
ASSUME RoomAssumption == Room \in Nat \ {0}
ASSUME MaxStraysAssumption == MaxStrays \in Nat

VARIABLES client,       \* how far every client is
          requests,     \* datagrams that serviceListenerSocket has received
          strays,
          backlog,      \* connections that wait for accept()
          pc,           \* the call the one thread is in
          connections,  \* the list of PiVisServer
          at,           \* position of the iterator over the list
          item,         \* what sendall() sends next: 0 the size, then the parts
          wire,         \* number of items sent to a client and not read
          last,         \* the item last sent to a client
          tried,        \* history: connections the loop has been at
          started       \* history: the list when the loop began

netVars == <<requests, strays>>
loopVars == <<at, item, tried, started>>
vars == <<client, netVars, backlog, pc, connections, loopVars, wire, last>>

Stray == "stray"
Items == 0..Parts

Init == /\ client = [c \in Clients |-> "asking"]
        /\ requests = <<>> /\ strays = 0
        /\ backlog = <<>>
        /\ pc = "accept"
        /\ connections = <<>>
        /\ at = 1 /\ item = 0 /\ tried = {} /\ started = <<>>
        /\ wire = [c \in Clients |-> 0]
        /\ last = [c \in Clients |-> Parts]
-----------------------------------------------------------------------------
(* PiVisServer.run                                                         *)

MayAcceptOne == backlog # <<>> /\ connections = <<>>  \* a plausible wrong one
MayAccept == backlog # <<>>

Accept == /\ pc = "accept" /\ MayAccept
          /\ connections' = Append(connections, Head(backlog))
          /\ backlog' = Tail(backlog)
          /\ pc' = "discovery"
          /\ UNCHANGED <<client, netVars, loopVars, wire, last>>

AcceptTimeout == /\ pc = "accept" /\ ~MayAccept
                 /\ pc' = "discovery"
                 /\ UNCHANGED <<client, netVars, backlog, connections, loopVars, wire, last>>

(* Any datagram makes a new socket; what waits in the old one is lost.     *)
Answer(c) == /\ pc = "discovery" /\ requests # <<>> /\ Head(requests) = c
             /\ client' = [client EXCEPT ![c] = IF @ = "asking" THEN "found" ELSE @]
             /\ requests' = <<>>
             /\ pc' = "camera"
             /\ UNCHANGED <<strays, backlog, connections, loopVars, wire, last>>

(* No request, one for another service, or an answer that gets lost.  The  *)
(* requests are those of the repository's programs, each the header and a  *)
(* number: the text, and what fails on another one, are left out.          *)
AnswerNothing == /\ pc = "discovery"
                 /\ requests' = <<>>
                 /\ pc' = "camera"
                 /\ UNCHANGED <<client, strays, backlog, connections, loopVars, wire, last>>

(* PiVisCamera.run takes a picture and calls send.                         *)
Capture == /\ pc = "camera"
           /\ started' = connections
           /\ pc' = "send"
           /\ UNCHANGED <<client, netVars, backlog, connections, at, item, tried, wire, last>>

NextItemOnly == item + 1                 \* plausible and wrong: no new size
NextItem == (item + 1) % (Parts + 1)

(* `for connection in self.connections': one after another, by position.   *)
Sending(c) == pc = "send" /\ at <= Len(connections) /\ connections[at] = c

(* sendall() puts what fits and waits for room for the rest.               *)
SendItem(c) == /\ Sending(c) /\ wire[c] < Room
               /\ wire' = [wire EXCEPT ![c] = IF client[c] = "gone" THEN 0 ELSE @ + 1]
               /\ last' = [last EXCEPT ![c] = item]
               /\ tried' = tried \cup {c}
               /\ item' = NextItem
               /\ at' = IF item = Parts THEN at + 1 ELSE at
               /\ UNCHANGED <<client, netVars, backlog, pc, connections, started>>

(* An exception of either sendall().  Removing the connection moves the    *)
(* rest of the list up, under the iterator.  Plausible wrong ones: the     *)
(* exception is only reported; the loop ends with it; it sends again.      *)
ReportOnly(c) == UNCHANGED connections /\ at' = at + 1
EndLoop(c) == connections' = RemoveFirst(connections, c) /\ at' = Len(connections)
SendAgain(c) == UNCHANGED <<connections, at>>
Disconnect(c) == connections' = RemoveFirst(connections, c) /\ at' = at + 1

SendFails(c) == /\ Sending(c) /\ client[c] = "gone"
                /\ Disconnect(c)
                /\ tried' = tried \cup {c}
                /\ item' = 0
                /\ UNCHANGED <<client, netVars, backlog, pc, started, wire, last>>

EndFrame == /\ pc = "send" /\ at > Len(connections)
            /\ pc' = "accept"
            /\ at' = 1 /\ item' = 0 /\ tried' = {} /\ started' = <<>>
            /\ UNCHANGED <<client, netVars, backlog, connections, wire, last>>

Server == \/ Accept \/ AcceptTimeout \/ AnswerNothing \/ Capture \/ EndFrame
          \/ \E c \in Clients : Answer(c) \/ SendItem(c) \/ SendFails(c)
-----------------------------------------------------------------------------
(* The clients                                                             *)

serverVars == <<pc, connections, loopVars, last>>

Ask(c) == /\ client[c] = "asking" /\ ~Contains(requests, c)
          /\ requests' = Append(requests, c)
          /\ UNCHANGED <<client, strays, backlog, wire, serverVars>>

AskOther == /\ strays < MaxStrays
            /\ requests' = Append(requests, Stray) /\ strays' = strays + 1
            /\ UNCHANGED <<client, backlog, wire, serverVars>>

Connect(c) == /\ client[c] = "found"
              /\ client' = [client EXCEPT ![c] = "reading"]
              /\ backlog' = Append(backlog, c)
              /\ UNCHANGED <<netVars, wire, serverVars>>

Read(c) == /\ client[c] = "reading" /\ wire[c] > 0
           /\ wire' = [wire EXCEPT ![c] = @ - 1]
           /\ UNCHANGED <<client, netVars, backlog, serverVars>>

StopReading(c) == /\ client[c] = "reading"
                  /\ client' = [client EXCEPT ![c] = "stalled"]
                  /\ UNCHANGED <<netVars, backlog, wire, serverVars>>

Leave(c) == /\ client[c] \in {"reading", "stalled"}
            /\ client' = [client EXCEPT ![c] = "gone"]
            /\ wire' = [wire EXCEPT ![c] = 0]
            /\ UNCHANGED <<netVars, backlog, serverVars>>

Client(c) == Ask(c) \/ Connect(c) \/ Read(c) \/ StopReading(c) \/ Leave(c)

Next == Server \/ AskOther \/ \E c \in Clients : Client(c)

Spec == Init /\ [][Next]_vars

(* The one thread runs; a request and its answer get through in the end; a *)
(* client that reads goes on reading, but may stop or leave at any time.   *)
Fairness == /\ WF_vars(Server)
            /\ \A c \in Clients : /\ SF_vars(Answer(c))
                                  /\ WF_vars(Ask(c)) /\ WF_vars(Connect(c)) /\ WF_vars(Read(c))

FairSpec == Spec /\ Fairness
-----------------------------------------------------------------------------
TypeOK ==
  /\ client \in [Clients -> {"asking", "found", "reading", "stalled", "gone"}]
  /\ requests \in Seq(Clients \cup {Stray}) /\ strays \in 0..MaxStrays
  /\ pc \in {"accept", "discovery", "camera", "send"}
  /\ \A list \in {backlog, connections, started} : list \in Seq(Clients) /\ IsInjective(list)
  /\ at \in Nat \ {0} /\ item \in Items /\ tried \subseteq Clients
  /\ wire \in [Clients -> 0..Room]
  /\ last \in [Clients -> Items]

(* A frame goes to every connection of the list, but for one right after a *)
(* connection that was removed: there the iterator steps over it (:82,     *)
(* :90).                                                                   *)
SkipsOnlyAfterRemoved ==
  [][EndFrame => \A i \in DOMAIN started :
       \/ started[i] \in tried
       \/ i > 1 /\ ~Contains(connections, started[i - 1])]_vars

(* Whoever is in the list was sent whole frames, but for the one being     *)
(* sent: what a client reads is a row of frames, each after its size, of   *)
(* which only the last can end early, however the calls fail (:83-90).     *)
ListedAreInStep ==
  \A c \in Clients : Contains(connections, c) /\ last[c] # Parts => Sending(c) /\ item # 0

(* All values are of their types, and the streams are in step.             *)
StreamsInStep == TypeOK /\ ListedAreInStep

Waits == \E c \in Clients : client[c] = "stalled"

(* A client that looks for the camera is connected, although all requests  *)
(* but one are thrown away with the socket each time (:74-75), unless a    *)
(* client stops reading: then sendall() keeps the whole server with it     *)
(* (:86-87).                                                               *)
AskerIsConnected ==
  \A c \in Clients : client[c] = "asking" ~> Contains(connections, c) \/ client[c] = "gone" \/ Waits

(* "a server module which is continously capturing and sending raw image   *)
(* data to all connected clients" (README.md:6): a client that is in the   *)
(* list and reads is sent to again.  The code does not keep this once      *)
(* another client has stopped reading: sendall() waits for that one        *)
(* without a timeout, and nobody else is sent anything (:82-87).           *)
EveryoneIsSent ==
  \A c \in Clients : Contains(connections, c) /\ client[c] = "reading"
                        ~> Sending(c) \/ client[c] # "reading"
=============================================================================
