--------------------------- MODULE ServiceBroker ---------------------------
(***************************************************************************)
(* How the C++ program finds and publishes services: the directory of      *)
(* PiVisionServiceHandler, PiVisionEthTerm with its connect jobs and       *)
(* listeners, and the two users, PiVisionFrameCoord (takes camera images,  *)
(* provides color ones) and PiVisionGrayscaleImage (takes color images,    *)
(* provides black and white ones).                                         *)
(*                                                                         *)
(* The objects speak by events.  The dispatcher is external: an event that *)
(* was raised is handed to all its subscribers, sometime and in any order  *)
(* with the others, and an object handles one event at a time.  The        *)
(* connections themselves are in EthTermConnection; here one may end.      *)
(***************************************************************************)
EXTENDS Integers, Sequences

CONSTANTS MaxAttempts,  \* maxNumAttempts of a connect job
          MaxAccepts    \* bound: connections that the listeners accept

ASSUME MaxAttemptsAssumption == MaxAttempts \in Nat \ {0}
ASSUME MaxAcceptsAssumption == MaxAccepts \in Nat

Services == {"camera", "color", "bw"}
Programs == {"full", "color", "bw"}
Constructed(p) == CASE p = "full"  -> <<"frameCoord", "grayscale">>
                    [] p = "color" -> <<"frameCoord">>
                    [] p = "bw"    -> <<"grayscale">>
Wanted == [frameCoord |-> "camera", grayscale |-> "color"]

VARIABLES program,       \* which of the three main functions runs
          network,       \* wanted services that other processes offer; never changes
          toBuild,       \* objects that main has not constructed yet
          events,        \* how often every event is raised and not handled
          services,      \* the directory of PiVisionServiceHandler
          job,           \* the connect job of a service
          numAttempts,
          timers,        \* discovery timeouts that have not fired
          listeners,     \* sockets that listen for a service; none is closed
          listenerActive,
          client,        \* the client's connection object of a service
          servers,       \* the server's connection objects of a service
          accepts,       \* connections that were accepted
          cameraServiceAvailable,   \* of PiVisionFrameCoord
          colorSubscribed,          \* of PiVisionGrayscaleImage
          finished       \* main was told to return

vars == <<program, network, toBuild, events, services, job, numAttempts, timers,
          listeners, listenerActive, client, servers, accepts,
          cameraServiceAvailable, colorSubscribed, finished>>
jobVars == <<job, numAttempts, timers>>
listenerVars == <<listeners, listenerActive, servers, accepts>>
userVars == <<cameraServiceAvailable, colorSubscribed>>
fixed == <<program, network>>

Event(k, s) == [kind |-> k, service |-> s]
Kinds == {"subscribe", "provided", "provide", "connectReq", "connected",
          "disconnected", "notFound", "cfm", "rej", "available", "unavailable"}
Stop == Event("stop", "all")
Shutdown == Event("shutdown", "all")
Events == [kind : Kinds, service : Services] \cup {Stop, Shutdown}

Built(o) == \A i \in DOMAIN toBuild : toBuild[i] # o
Uses(o) == \E i \in DOMAIN Constructed(program) : Constructed(program)[i] = o
Present(o) == Uses(o) /\ Built(o)

One(holds) == IF holds THEN 1 ELSE 0
Raise(raised) == events' = [e \in Events |-> events[e] + One(e \in raised)]

(* The dispatcher hands out e; its handlers raise other events.            *)
Handle(e, raised) ==
  /\ events[e] > 0
  /\ events' = [x \in Events |-> events[x] - One(x = e) + One(x \in raised)]

Init ==
  /\ program \in Programs
  /\ network \in SUBSET {Wanted[o] : o \in {u \in DOMAIN Wanted : Uses(u)}}
  /\ toBuild = Constructed(program)
  /\ events = [e \in Events |-> 0]
  /\ services = [s \in Services |-> "absent"]
  /\ job = [s \in Services |-> "none"]
  /\ numAttempts = [s \in Services |-> 0]
  /\ timers = [s \in Services |-> 0]
  /\ listeners = [s \in Services |-> 0]
  /\ listenerActive = [s \in Services |-> FALSE]
  /\ client = [s \in Services |-> "none"]
  /\ servers = [s \in Services |-> 0]
  /\ accepts = 0
  /\ cameraServiceAvailable = FALSE
  /\ colorSubscribed = FALSE
  /\ finished = FALSE
-----------------------------------------------------------------------------
(* main() constructs the users one after the other; each one subscribes.   *)
Construct ==
  /\ toBuild # << >>
  /\ toBuild' = Tail(toBuild)
  /\ Raise({Event("subscribe", Wanted[Head(toBuild)])})
  /\ UNCHANGED <<fixed, services, jobVars, listenerVars, client, userVars, finished>>
-----------------------------------------------------------------------------
(* PiVisionServiceHandler                                                  *)

(* A plausible wrong one: a service is published whenever it is provided.  *)
ServiceProvidedAgain(s) ==
  /\ Handle(Event("provided", s), {Event("available", s), Event("provide", s)})
  /\ services' = [services EXCEPT ![s] = "local"]
  /\ UNCHANGED <<fixed, toBuild, jobVars, listenerVars, client, userVars, finished>>

(* A service that is known, local or remote, stays as it is.               *)
ServiceProvided(s) ==
  /\ \/ /\ services[s] \in {"absent", "disconnected"}
        /\ Handle(Event("provided", s), {Event("available", s), Event("provide", s)})
        /\ services' = [services EXCEPT ![s] = "local"]
     \/ /\ services[s] \in {"local", "remote"}
        /\ Handle(Event("provided", s), {})
        /\ UNCHANGED services
  /\ UNCHANGED <<fixed, toBuild, jobVars, listenerVars, client, userVars, finished>>

(* A plausible wrong one: no entry is made while the network is asked.     *)
SubscribeServiceUnnoted(s) ==
  /\ \/ /\ services[s] # "absent"
        /\ Handle(Event("subscribe", s),
                  {e \in {Event("available", s)} : services[s] # "disconnected"})
     \/ /\ services[s] = "absent"
        /\ Handle(Event("subscribe", s), {Event("connectReq", s)})
  /\ UNCHANGED services
  /\ UNCHANGED <<fixed, toBuild, jobVars, listenerVars, client, userVars, finished>>

(* The network is asked once; an entry that is disconnected is not         *)
(* answered.                                                               *)
SubscribeService(s) ==
  /\ \/ /\ services[s] # "absent"
        /\ Handle(Event("subscribe", s),
                  {e \in {Event("available", s)} : services[s] # "disconnected"})
        /\ UNCHANGED services
     \/ /\ services[s] = "absent"
        /\ Handle(Event("subscribe", s), {Event("connectReq", s)})
        /\ services' = [services EXCEPT ![s] = "disconnected"]
  /\ UNCHANGED <<fixed, toBuild, jobVars, listenerVars, client, userVars, finished>>

ConnectCfm(s) ==
  /\ \/ /\ services[s] = "disconnected"
        /\ Handle(Event("cfm", s), {Event("available", s)})
        /\ services' = [services EXCEPT ![s] = "remote"]
     \/ /\ services[s] # "disconnected"
        /\ Handle(Event("cfm", s), {})
        /\ UNCHANGED services
  /\ UNCHANGED <<fixed, toBuild, jobVars, listenerVars, client, userVars, finished>>

(* A plausible wrong one: a service that was lost is asked for again.      *)
ConnectRejAsksAgain(s) ==
  /\ Handle(Event("rej", s), {Event("unavailable", s), Event("connectReq", s)})
  /\ UNCHANGED <<fixed, toBuild, services, jobVars, listenerVars, client, userVars, finished>>

ConnectRej(s) ==
  /\ Handle(Event("rej", s), {Event("unavailable", s)})
  /\ UNCHANGED <<fixed, toBuild, services, jobVars, listenerVars, client, userVars, finished>>
-----------------------------------------------------------------------------
(* PiVisionEthTerm                                                         *)

ProvideService(s) ==
  /\ Handle(Event("provide", s), {})
  /\ listeners' = [listeners EXCEPT ![s] = @ + 1]
  /\ listenerActive' = [listenerActive EXCEPT ![s] = TRUE]
  /\ UNCHANGED <<fixed, toBuild, services, jobVars, servers, accepts, client, userVars, finished>>

ConnectToService(s) ==
  /\ Handle(Event("connectReq", s), {})
  /\ job' = [job EXCEPT ![s] = "find"]
  /\ numAttempts' = [numAttempts EXCEPT ![s] = 0]
  /\ UNCHANGED <<fixed, toBuild, services, timers, listenerVars, client, userVars, finished>>

(* A plausible wrong one: only a connection that ends is reported.         *)
ServiceStatusLostOnly(s) ==
  /\ \/ Handle(Event("disconnected", s), {Event("rej", s)})
     \/ Handle(Event("notFound", s), {})
  /\ UNCHANGED <<fixed, toBuild, services, jobVars, listenerVars, client, userVars, finished>>

ServiceStatusLost(s) ==
  /\ \/ Handle(Event("disconnected", s), {Event("rej", s)})
     \/ Handle(Event("notFound", s), {Event("rej", s)})
  /\ UNCHANGED <<fixed, toBuild, services, jobVars, listenerVars, client, userVars, finished>>

(* A plausible wrong one: no connection object is started.                 *)
ServiceStatusConnectedOnly(s) ==
  /\ Handle(Event("connected", s), {Event("cfm", s)})
  /\ UNCHANGED <<fixed, toBuild, services, jobVars, listenerVars, client, userVars, finished>>

ServiceStatusConnected(s) ==
  /\ Handle(Event("connected", s), {Event("cfm", s)})
  /\ client' = [client EXCEPT ![s] = "open"]
  /\ UNCHANGED <<fixed, toBuild, services, jobVars, listenerVars, userVars, finished>>
-----------------------------------------------------------------------------
(* PiVisionEthTermConnectService: a job that looks for a service           *)

(* Somebody answers a request for s: another process, or the own listener. *)
MayBeFound(s) == s \in network \/ listenerActive[s]

FindService(s) ==
  /\ job[s] = "find" /\ MayBeFound(s)
  /\ job' = [job EXCEPT ![s] = "connect"]
  /\ UNCHANGED <<fixed, toBuild, events, services, numAttempts, timers, listenerVars, client,
                 userVars, finished>>

(* No answer within a second.  The timeout is raised in 500 ms, which do   *)
(* not pass before the job waits for it.                                   *)
FindNothing(s) ==
  /\ job[s] = "find"
  /\ job' = [job EXCEPT ![s] = "wait"]
  /\ numAttempts' = [numAttempts EXCEPT ![s] = @ + 1]
  /\ timers' = [timers EXCEPT ![s] = @ + 1]
  /\ UNCHANGED <<fixed, toBuild, events, services, listenerVars, client, userVars, finished>>

(* A plausible wrong one: an attempt too many.                             *)
WakeUpOnceMore(s) ==
  \/ /\ numAttempts[s] <= MaxAttempts
     /\ job' = [job EXCEPT ![s] = "find"]
     /\ UNCHANGED events
  \/ /\ numAttempts[s] > MaxAttempts
     /\ job' = [job EXCEPT ![s] = "failed"]
     /\ Raise({Event("notFound", s)})

(* The wait has no condition: an old timeout ends it as well.              *)
WakeUp(s) ==
  \/ /\ numAttempts[s] < MaxAttempts
     /\ job' = [job EXCEPT ![s] = "find"]
     /\ UNCHANGED events
  \/ /\ numAttempts[s] >= MaxAttempts
     /\ job' = [job EXCEPT ![s] = "failed"]
     /\ Raise({Event("notFound", s)})

(* A plausible wrong one: a timeout is only noted by a job that searches.  *)
DiscoveryTimeoutLost(s) ==
  /\ timers[s] > 0
  /\ timers' = [timers EXCEPT ![s] = @ - 1]
  /\ UNCHANGED <<job, events>>
  /\ UNCHANGED <<fixed, toBuild, services, numAttempts, listenerVars, client, userVars, finished>>

DiscoveryTimeout(s) ==
  /\ timers[s] > 0
  /\ timers' = [timers EXCEPT ![s] = @ - 1]
  /\ \/ job[s] = "wait" /\ WakeUp(s)
     \/ job[s] # "wait" /\ UNCHANGED <<job, events>>
  /\ UNCHANGED <<fixed, toBuild, services, numAttempts, listenerVars, client, userVars, finished>>

SpuriousWakeUp(s) ==
  /\ job[s] = "wait" /\ WakeUp(s)
  /\ UNCHANGED <<fixed, toBuild, services, numAttempts, timers, listenerVars, client,
                 userVars, finished>>

(* A listener that was stopped has not closed its socket.                  *)
ConnectToServer(s) ==
  /\ job[s] = "connect"
  /\ \/ /\ s \in network \/ listeners[s] > 0
        /\ job' = [job EXCEPT ![s] = "connected"]
        /\ Raise({Event("connected", s)})
     \/ /\ job' = [job EXCEPT ![s] = "failed"]
        /\ Raise({Event("disconnected", s)})
  /\ UNCHANGED <<fixed, toBuild, services, numAttempts, timers, listenerVars, client,
                 userVars, finished>>
-----------------------------------------------------------------------------
(* PiVisionEthTermServiceListener, and the ends of connections             *)

AcceptConnection(s) ==
  /\ listenerActive[s] /\ accepts < MaxAccepts
  /\ accepts' = accepts + 1
  /\ servers' = [servers EXCEPT ![s] = @ + 1]
  /\ UNCHANGED <<fixed, toBuild, events, services, jobVars, listeners, listenerActive, client,
                 userVars, finished>>

(* Both ends report a connection that has ended as the service's status.   *)
EndServer(s) ==
  /\ servers[s] > 0
  /\ servers' = [servers EXCEPT ![s] = @ - 1]
  /\ Raise({Event("disconnected", s)})
  /\ UNCHANGED <<fixed, toBuild, services, jobVars, listeners, listenerActive, accepts, client,
                 userVars, finished>>

EndClient(s) ==
  /\ client[s] = "open"
  /\ client' = [client EXCEPT ![s] = "ended"]
  /\ Raise({Event("disconnected", s)})
  /\ UNCHANGED <<fixed, toBuild, services, jobVars, listenerVars, userVars, finished>>
-----------------------------------------------------------------------------
(* PiVisionFrameCoord and PiVisionGrayscaleImage                           *)

(* What a user provides once it has what it wants.                         *)
Provides(o) == CASE o = "frameCoord" -> Event("provided", "color")
                 [] o = "grayscale"  -> Event("provided", "bw")

(* A plausible wrong one: which service is available is not looked at.     *)
OfferedWhateverComes(s) == {Provides(o) : o \in {u \in DOMAIN Wanted : Present(u)}}

Offered(s) == {Provides(o) : o \in {u \in DOMAIN Wanted : Present(u) /\ Wanted[u] = s}}

ServiceAvailable(s) ==
  /\ Handle(Event("available", s), Offered(s))
  /\ cameraServiceAvailable' = (cameraServiceAvailable \/ (s = "camera" /\ Present("frameCoord")))
  /\ colorSubscribed' = (colorSubscribed \/ (s = "color" /\ Present("grayscale")))
  /\ UNCHANGED <<fixed, toBuild, services, jobVars, listenerVars, client, finished>>

(* Only the frame coordinator listens; without its camera it stops all.    *)
ServiceUnavailable(s) ==
  /\ Handle(Event("unavailable", s),
            IF s = "camera" /\ Present("frameCoord") THEN {Stop} ELSE {})
  /\ UNCHANGED <<fixed, toBuild, services, jobVars, listenerVars, client, userVars, finished>>

(* The listeners end; connections end by themselves (EndServer, EndClient). *)
HandleStop ==
  /\ Handle(Stop, IF Present("frameCoord") THEN {Shutdown} ELSE {})
  /\ listenerActive' = [s \in Services |-> FALSE]
  /\ UNCHANGED <<fixed, toBuild, services, jobVars, listeners, servers, accepts, client,
                 userVars, finished>>

HandleShutdown ==
  /\ Handle(Shutdown, {})
  /\ finished' = TRUE
  /\ UNCHANGED <<fixed, toBuild, services, jobVars, listenerVars, client, userVars>>
-----------------------------------------------------------------------------
HandleEvent(s) == \/ ServiceProvided(s) \/ SubscribeService(s) \/ ConnectCfm(s) \/ ConnectRej(s)
                  \/ ProvideService(s) \/ ConnectToService(s)
                  \/ ServiceStatusLost(s) \/ ServiceStatusConnected(s)
                  \/ ServiceAvailable(s) \/ ServiceUnavailable(s)

ExecuteJob(s) == FindService(s) \/ FindNothing(s) \/ ConnectToServer(s)

Connections(s) == AcceptConnection(s) \/ EndServer(s) \/ EndClient(s)

(* What happens by itself: constructors return, events are handed out,     *)
(* threads run and timers fire.                                            *)
Proceed == /\ ~finished
           /\ \/ Construct \/ HandleStop \/ HandleShutdown
              \/ \E s \in Services : HandleEvent(s) \/ ExecuteJob(s) \/ DiscoveryTimeout(s)

Next == \/ Proceed
        \/ ~finished /\ \E s \in Services : SpuriousWakeUp(s) \/ Connections(s)

(* No more is needed than that something of it happens as long as anything *)
(* can: it cannot go on for ever.                                          *)
Fairness == WF_vars(Proceed)

Spec == Init /\ [][Next]_vars
FairSpec == Spec /\ Fairness
-----------------------------------------------------------------------------
TypeOK ==
  /\ program \in Programs
  /\ network \in SUBSET {"camera", "color"}
  /\ toBuild \in {<<"frameCoord", "grayscale">>, <<"frameCoord">>, <<"grayscale">>, << >>}
  /\ events \in [Events -> Nat]
  /\ services \in [Services -> {"absent", "disconnected", "local", "remote"}]
  /\ job \in [Services -> {"none", "find", "wait", "connect", "connected", "failed"}]
  /\ numAttempts \in [Services -> 0..MaxAttempts]
  /\ timers \in [Services -> 0..MaxAttempts]
  /\ listeners \in [Services -> Nat]
  /\ listenerActive \in [Services -> BOOLEAN]
  /\ client \in [Services -> {"none", "open", "ended"}]
  /\ servers \in [Services -> 0..MaxAccepts]
  /\ accepts \in 0..MaxAccepts
  /\ cameraServiceAvailable \in BOOLEAN /\ colorSubscribed \in BOOLEAN
  /\ finished \in BOOLEAN

Raised(k, s) == events[Event(k, s)]

(* A second listener of a service could not bind its port and would end    *)
(* the process (pivision_ethtermservicelistener.cpp:133-148): however      *)
(* often a service becomes available to its users, it is published once.   *)
OneListener == \A s \in Services : Raised("provide", s) + listeners[s] <= 1

(* A service is looked for once, and not while it is connected: whatever   *)
(* is reported about it, by its other connections too, starts no second    *)
(* search (pivision_servicehandler.cpp:52-58, 75-80).                      *)
OneSearch ==
  \A s \in Services :
    Raised("connectReq", s) + One(job[s] \in {"find", "wait", "connect"})
      + Raised("connected", s) + One(client[s] = "open") <= 1

(* All values are of their types, and no service is published or looked    *)
(* for twice.                                                              *)
NothingTwice == TypeOK /\ OneListener /\ OneSearch

(* A confirmation is of a service in the directory, whose entry is used    *)
(* without a test for its absence (pivision_servicehandler.cpp:66).        *)
CfmFindsEntry == \A s \in Services : Raised("cfm", s) > 0 => services[s] # "absent"

(* What is published has an input: black and white images are only offered *)
(* in a process whose grayscale object was told of color images, and color *)
(* images in one whose frame coordinator was told of a camera.             *)
PublishedHasInput ==
  /\ listeners["bw"] > 0 => colorSubscribed /\ services["color"] \in {"local", "remote"}
  /\ listeners["color"] > 0 => cameraServiceAvailable /\ services["camera"] = "remote"

(* Events come in any order, and yet none before what it relies on.        *)
NothingTooEarly == CfmFindsEntry /\ PublishedHasInput

(* Whatever order the dispatcher hands events out in, nothing happens      *)
(* twice, and nothing before what it relies on                             *)
(* (pivision_servicehandler.cpp:24-81).                                    *)
BrokerInOrder == NothingTwice /\ NothingTooEarly

(* The frame coordinator has its camera, or the process ends: a search     *)
(* ends, because each attempt waits for its own timeout                    *)
(* (pivision_ethtermconnectservice.cpp:128-147), its result is passed on   *)
(* by way of the directory, and so is the end of the connection            *)
(* (pivision_framecoord.cpp:28-37, 60-65).                                 *)
CameraOrEnd == (Raised("subscribe", "camera") > 0 \/ client["camera"] = "ended")
                 ~> (finished \/ (cameraServiceAvailable /\ client["camera"] # "ended"))

(* Color images reach the grayscale object by a connection only, even in   *)
(* the process that makes them.  It is never made if the search was over,  *)
(* or not asked for, when the service was published in the process itself  *)
(* (pivision_servicehandler.cpp:42-58).                                    *)
SearchedInVain == job["color"] = "failed"
NeverSearched == services["color"] = "local" /\ job["color"] = "none" /\ Raised("connectReq", "color") = 0
GrayscaleGetsImages ==
  Raised("subscribe", "color") > 0 ~>
    \/ colorSubscribed /\ client["color"] # "none"
    \/ SearchedInVain \/ NeverSearched \/ finished
-----------------------------------------------------------------------------
(* The broker implements the service directory.  A search is asked for by  *)
(* an event, is under way as a job, and has ended when the job has.        *)
SearchOf(s) == CASE job[s] = "connected" -> "found"
                 [] job[s] = "failed"    -> "failed"
                 [] job[s] \in {"find", "wait", "connect"} -> "asked"
                 [] job[s] = "none" -> IF Raised("connectReq", s) > 0 THEN "asked" ELSE "none"

Directory == INSTANCE ServiceDirectory WITH entry <- services,
                                            search <- [s \in Services |-> SearchOf(s)],
                                            published <- listeners,
                                            connection <- client

(* Whatever order events come in, each service is searched, found,         *)
(* published and connected in the order the directory promises, once.      *)
ImplementsDirectory == Directory!Spec
=============================================================================
