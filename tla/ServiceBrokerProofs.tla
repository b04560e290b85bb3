------------------------ MODULE ServiceBrokerProofs ------------------------
(***************************************************************************)
(* Proofs about ServiceBroker, for every number of attempts and of         *)
(* connections: whatever order the dispatcher hands events out in, no      *)
(* service is published or looked for twice, and none before what it needs *)
(* is there; and the broker implements ServiceDirectory.                   *)
(***************************************************************************)
EXTENDS ServiceBroker, TLAPS

LEMMA EventsDiffer ==
  /\ \A k, l, s, t : Event(k, s) = Event(l, t) <=> k = l /\ s = t
  /\ \A k \in Kinds, s \in Services : Event(k, s) \in Events /\ Event(k, s) # Stop /\ Event(k, s) # Shutdown
  /\ Stop \in Events /\ Shutdown \in Events
BY DEF Event, Events, Stop, Shutdown, Kinds, Services

(* How often an event is raised after another was handled.                 *)
LEMMA AfterHandle ==
  ASSUME events \in [Events -> Nat], NEW e \in Events, NEW raised, Handle(e, raised)
  PROVE  /\ events[e] > 0 /\ events' \in [Events -> Nat]
         /\ \A k \in Kinds, s \in Services :
              Raised(k, s)' = Raised(k, s) - One(Event(k, s) = e) + One(Event(k, s) \in raised)
<1>1. \A x \in Events : events[x] \in Nat /\ One(x = e) \in {0, 1} /\ One(x \in raised) \in {0, 1}
  BY DEF One
<1>2. events[e] > 0 /\ events' = [x \in Events |-> events[x] - One(x = e) + One(x \in raised)]
  BY DEF Handle
<1>3. \A x \in Events : events[x] - One(x = e) \in Nat
  BY <1>1, <1>2 DEF One
<1>4. \A x \in Events : events[x] - One(x = e) + One(x \in raised) \in Nat
  BY <1>1, <1>3
<1> QED
  BY <1>2, <1>4, EventsDiffer DEF Raised

LEMMA AfterRaise ==
  ASSUME events \in [Events -> Nat], NEW raised, Raise(raised)
  PROVE  /\ events' \in [Events -> Nat]
         /\ \A k \in Kinds, s \in Services : Raised(k, s)' = Raised(k, s) + One(Event(k, s) \in raised)
<1>1. \A x \in Events : events[x] \in Nat /\ One(x \in raised) \in {0, 1}
  BY DEF One
<1>2. events' = [x \in Events |-> events[x] + One(x \in raised)]
  BY DEF Raise
<1> QED
  BY <1>1, <1>2, EventsDiffer DEF Raised

(* An entry of the directory, once made, only changes from disconnected to *)
(* local or remote.  A local one was published once; a search was asked    *)
(* for once, when the entry was made, and a connection and a confirmation  *)
(* follow from a search that has found it.                                 *)
EntryInv(s) ==
  /\ Raised("provide", s) + listeners[s] = One(services[s] = "local")
  /\ Raised("connectReq", s) + One(job[s] # "none") <= One(services[s] # "absent")
  /\ Raised("connected", s) + One(client[s] # "none") = One(job[s] = "connected")
  /\ Raised("cfm", s) > 0 => job[s] = "connected"
  /\ Raised("available", s) > 0 => services[s] \in {"local", "remote"}

(* An attempt is counted when its timeout is raised.                       *)
AttemptsInv(s) ==
  /\ job[s] = "none" => numAttempts[s] = 0
  /\ job[s] = "find" => numAttempts[s] < MaxAttempts
  /\ timers[s] <= numAttempts[s]
  /\ servers[s] <= accepts

(* What a user provides has an input.                                      *)
InputsInv ==
  /\ Raised("provided", "bw") > 0 \/ services["bw"] = "local" =>
       colorSubscribed /\ services["color"] \in {"local", "remote"}
  /\ Raised("provided", "color") > 0 \/ services["color"] = "local" =>
       cameraServiceAvailable /\ services["camera"] = "remote"
  /\ Raised("provided", "camera") = 0 /\ services["camera"] # "local"

BrokerInv == TypeOK /\ InputsInv /\ \A s \in Services : EntryInv(s) /\ AttemptsInv(s)

LEMMA BrokerInvSuffices == BrokerInv => NothingTwice /\ NothingTooEarly
<1> SUFFICES ASSUME BrokerInv PROVE NothingTwice /\ NothingTooEarly
  OBVIOUS
<1>1. \A k \in Kinds, s \in Services : Raised(k, s) \in Nat
  BY EventsDiffer DEF Raised, BrokerInv, TypeOK
<1>2. \A s \in Services : /\ Raised("provide", s) \in Nat /\ Raised("connectReq", s) \in Nat
                          /\ Raised("connected", s) \in Nat /\ Raised("cfm", s) \in Nat
                          /\ listeners[s] \in Nat
  BY <1>1 DEF Kinds, BrokerInv, TypeOK
<1>3. OneListener
  BY <1>2 DEF OneListener, BrokerInv, EntryInv, One
<1>4. OneSearch
  BY <1>2 DEF OneSearch, BrokerInv, EntryInv, One
<1>5. CfmFindsEntry
  BY <1>2 DEF CfmFindsEntry, BrokerInv, EntryInv, One
<1>6. PublishedHasInput
  <2>1. \A s \in Services : listeners[s] > 0 => services[s] = "local"
    BY <1>2 DEF BrokerInv, EntryInv, One
  <2> QED
    BY <2>1 DEF PublishedHasInput, BrokerInv, InputsInv, Services
<1> QED
  BY <1>3, <1>4, <1>5, <1>6 DEF NothingTwice, NothingTooEarly, BrokerInv

LEMMA BrokerInit == Init => BrokerInv
<1> SUFFICES ASSUME Init PROVE BrokerInv
  OBVIOUS
<1>1. \A k \in Kinds, s \in Services : Raised(k, s) = 0
  BY EventsDiffer DEF Init, Raised
<1>2. \A k \in {"provide", "connectReq", "connected", "cfm", "available", "provided"}, s \in Services :
        Raised(k, s) = 0
  BY <1>1 DEF Kinds
<1>3. TypeOK
  <2>1. toBuild \in {<<"frameCoord", "grayscale">>, <<"frameCoord">>, <<"grayscale">>, << >>}
    BY DEF Init, Programs, Constructed
  <2>2. network \in SUBSET {"camera", "color"}
    BY DEF Init, Wanted
  <2>3. listenerActive \in [Services -> BOOLEAN] /\ cameraServiceAvailable \in BOOLEAN
        /\ colorSubscribed \in BOOLEAN /\ finished \in BOOLEAN
    BY DEF Init
  <2> QED
    BY <2>1, <2>2, <2>3, MaxAttemptsAssumption, MaxAcceptsAssumption DEF Init, TypeOK
<1>4. InputsInv
  BY <1>2 DEF Init, InputsInv, Services
<1>5. \A s \in Services : EntryInv(s) /\ AttemptsInv(s)
  BY <1>2, MaxAttemptsAssumption DEF Init, EntryInv, AttemptsInv, One
<1> QED
  BY <1>3, <1>4, <1>5 DEF BrokerInv
-----------------------------------------------------------------------------
(* The kinds of events that the invariant counts.                          *)
Counted == {"provide", "provided", "connectReq", "connected", "cfm", "available"}

(* Nothing that the invariant says of a service changes.                   *)
Same(s) ==
  /\ \A k \in Counted : Raised(k, s)' = Raised(k, s)
  /\ UNCHANGED <<services[s], listeners[s], job[s], client[s], numAttempts[s], timers[s], servers[s]>>

LEMMA SameKeepsEntry ==
  ASSUME NEW s \in Services, EntryInv(s), AttemptsInv(s), Same(s), TypeOK, accepts' \in Nat, accepts' >= accepts
  PROVE  EntryInv(s)' /\ AttemptsInv(s)'
<1>1. servers[s] \in Nat /\ accepts \in Nat
  BY MaxAcceptsAssumption DEF TypeOK
<1> QED
  BY <1>1 DEF Same, EntryInv, AttemptsInv, Counted

LEMMA CountsAfterHandle ==
  ASSUME events \in [Events -> Nat], NEW l \in Kinds, NEW t \in Services, NEW raised,
         Handle(Event(l, t), raised)
  PROVE  /\ Raised(l, t) > 0 /\ events' \in [Events -> Nat]
         /\ \A k \in Counted, s \in Services :
              /\ Raised(k, s) \in Nat /\ Raised(k, s)' \in Nat
              /\ Raised(k, s)' = Raised(k, s) - One(k = l /\ s = t) + One(Event(k, s) \in raised)
<1>1. Event(l, t) \in Events /\ Counted \subseteq Kinds
  BY EventsDiffer DEF Counted, Kinds
<1>2. /\ events[Event(l, t)] > 0 /\ events' \in [Events -> Nat]
      /\ \A k \in Kinds, s \in Services :
           Raised(k, s)' = Raised(k, s) - One(Event(k, s) = Event(l, t)) + One(Event(k, s) \in raised)
  BY <1>1, AfterHandle
<1>3. \A k \in Kinds, s \in Services : Raised(k, s) \in Nat /\ Raised(k, s)' \in Nat
  BY <1>2, EventsDiffer DEF Raised
<1>4. \A k, s : Event(k, s) = Event(l, t) <=> k = l /\ s = t
  BY EventsDiffer
<1> QED
  BY <1>1, <1>2, <1>3, <1>4 DEF Raised

(* The counts after an event of kind l and service t was handled, and the  *)
(* kinds were raised for the same service.                                 *)
Counts(l, t, kinds) ==
  /\ Raised(l, t) > 0 /\ events' \in [Events -> Nat]
  /\ \A s \in Services \ {t}, k \in Counted : Raised(k, s)' = Raised(k, s)
  /\ \A k \in Counted :
       /\ Raised(k, t) \in Nat /\ Raised(k, t)' \in Nat
       /\ Raised(k, t)' = Raised(k, t) - One(k = l) + One(k \in kinds)

LEMMA CountsOfOneService ==
  ASSUME events \in [Events -> Nat], NEW l \in Kinds, NEW t \in Services, NEW raised, NEW kinds,
         Handle(Event(l, t), raised),
         \A k, s : Event(k, s) \in raised <=> s = t /\ k \in kinds
  PROVE  Counts(l, t, kinds)
<1>1. /\ Raised(l, t) > 0 /\ events' \in [Events -> Nat]
      /\ \A k \in Counted, s \in Services :
           /\ Raised(k, s) \in Nat /\ Raised(k, s)' \in Nat
           /\ Raised(k, s)' = Raised(k, s) - One(k = l /\ s = t) + One(Event(k, s) \in raised)
  BY CountsAfterHandle
<1>2. \A k \in Counted, s \in Services \ {t} : Raised(k, s)' = Raised(k, s)
  BY <1>1 DEF One
<1>3. \A k \in Counted : Raised(k, t)' = Raised(k, t) - One(k = l) + One(k \in kinds)
  BY <1>1 DEF One
<1> QED
  BY <1>1, <1>2, <1>3 DEF Counts

(* Handlers that raise nothing, one event or two of their service.         *)
LEMMA NoneRaised ==
  ASSUME events \in [Events -> Nat], NEW l \in Kinds, NEW t \in Services, Handle(Event(l, t), {})
  PROVE  Counts(l, t, {})
BY CountsOfOneService

LEMMA OneRaised ==
  ASSUME events \in [Events -> Nat], NEW l \in Kinds, NEW t \in Services, NEW a,
         Handle(Event(l, t), {Event(a, t)})
  PROVE  Counts(l, t, {a})
<1>1. \A k, s : Event(k, s) \in {Event(a, t)} <=> s = t /\ k \in {a}
  BY EventsDiffer
<1> QED
  BY <1>1, CountsOfOneService

LEMMA TwoRaised ==
  ASSUME events \in [Events -> Nat], NEW l \in Kinds, NEW t \in Services, NEW a, NEW b,
         Handle(Event(l, t), {Event(a, t), Event(b, t)})
  PROVE  Counts(l, t, {a, b})
<1>1. \A k, s : Event(k, s) \in {Event(a, t), Event(b, t)} <=> s = t /\ k \in {a, b}
  BY EventsDiffer
<1> QED
  BY <1>1, CountsOfOneService

(* An event that is handled and raises nothing that is counted.            *)
LEMMA CountsAfterOther ==
  ASSUME events \in [Events -> Nat], NEW e \in Events, NEW raised, Handle(e, raised) \/ Raise(raised),
         \A k \in Counted, s \in Services : Event(k, s) # e /\ Event(k, s) \notin raised
  PROVE  /\ events' \in [Events -> Nat]
         /\ \A k \in Counted, s \in Services : Raised(k, s)' = Raised(k, s)
<1>1. Counted \subseteq Kinds
  BY DEF Counted, Kinds
<1>2. \A k \in Counted, s \in Services : Raised(k, s) \in Nat
  BY <1>1, EventsDiffer DEF Raised
<1>3. CASE Handle(e, raised)
  BY <1>1, <1>2, <1>3, AfterHandle DEF One
<1>4. CASE Raise(raised)
  BY <1>1, <1>2, <1>4, AfterRaise DEF One
<1> QED
  BY <1>3, <1>4

(* Most steps are about one service, and change nothing of the others.     *)
LEMMA StepOfOneService ==
  ASSUME BrokerInv, NEW s \in Services, TypeOK', accepts' >= accepts, InputsInv',
         EntryInv(s)', AttemptsInv(s)', \A t \in Services \ {s} : Same(t)
  PROVE  BrokerInv'
<1>1. TypeOK /\ accepts' \in Nat /\ \A t \in Services : EntryInv(t) /\ AttemptsInv(t)
  <2>1. accepts' \in 0..MaxAccepts
    BY DEF TypeOK
  <2>2. accepts' \in Nat
    BY <2>1, MaxAcceptsAssumption
  <2> QED
    BY <2>2, Zenon DEF BrokerInv
<1>2. \A t \in Services \ {s} : EntryInv(t)' /\ AttemptsInv(t)'
  BY <1>1, SameKeepsEntry
<1> QED
  BY <1>2 DEF BrokerInv

(* An entry that is disconnected or remote now serves as input before and  *)
(* after.                                                                  *)
LEMMA InputsKept ==
  ASSUME InputsInv, UNCHANGED userVars,
         \A t \in Services : Raised("provided", t)' = Raised("provided", t),
         \A t \in Services : \/ services'[t] = services[t]
                             \/ /\ services[t] \in {"absent", "disconnected"}
                                /\ services'[t] \in {"disconnected", "remote"}
  PROVE  InputsInv'
BY DEF InputsInv, userVars, Services

(* The counts are natural numbers.                                         *)
LEMMA CountsAreNumbers ==
  ASSUME events \in [Events -> Nat]
  PROVE  \A k \in Counted, s \in Services : Raised(k, s) \in Nat
BY EventsDiffer DEF Counted, Kinds, Raised

LEMMA ProvidedStep ==
  ASSUME BrokerInv, NEW s \in Services, ServiceProvided(s)
  PROVE  BrokerInv'
<1>1. TypeOK /\ InputsInv /\ (\A t \in Services : EntryInv(t) /\ AttemptsInv(t)) /\ events \in [Events -> Nat]
  BY DEF BrokerInv, TypeOK
<1>2. UNCHANGED <<fixed, toBuild, jobVars, listenerVars, client, userVars, finished>>
  BY DEF ServiceProvided
<1>3. CASE /\ services[s] \in {"absent", "disconnected"}
           /\ Handle(Event("provided", s), {Event("available", s), Event("provide", s)})
           /\ services' = [services EXCEPT ![s] = "local"]
  <2>1. Counts("provided", s, {"available", "provide"})
    BY <1>1, <1>3, TwoRaised DEF Kinds
  <2>2. /\ Raised("provided", s)' = Raised("provided", s) - 1
        /\ Raised("provide", s)' = Raised("provide", s) + 1
        /\ \A k \in {"connectReq", "connected", "cfm"} : Raised(k, s)' = Raised(k, s)
        /\ services'[s] = "local" /\ \A t \in Services \ {s} : services'[t] = services[t]
    <3>1. services'[s] = "local" /\ \A t \in Services \ {s} : services'[t] = services[t]
      BY <1>1, <1>3 DEF TypeOK
    <3> QED
      BY <2>1, <3>1 DEF Counts, Counted, One
  <2>3. TypeOK'
    BY <1>1, <1>2, <1>3, <2>1 DEF Counts, TypeOK, jobVars, listenerVars, userVars, fixed
  <2>4. EntryInv(s)' /\ AttemptsInv(s)'
    <3>0. EntryInv(s)
      BY <1>1
    <3>4. /\ listeners[s] \in Nat /\ services[s] # "local"
          /\ Raised("provide", s) \in Nat /\ Raised("connectReq", s) \in Nat
      BY <1>1, <1>3, <2>1 DEF Counts, Counted, TypeOK
    <3>1. Raised("provide", s) = 0 /\ listeners[s] = 0
      BY <3>0, <3>4 DEF EntryInv, One
    <3>5. UNCHANGED <<listeners[s], job[s], client[s]>>
      BY <1>2 DEF jobVars, listenerVars
    <3>2. EntryInv(s)'
      BY <2>2, <3>0, <3>1, <3>4, <3>5 DEF EntryInv, One
    <3>3. AttemptsInv(s)'
      BY <1>1, <1>2 DEF AttemptsInv, jobVars, listenerVars
    <3> QED
      BY <3>2, <3>3
  <2>5. \A t \in Services \ {s} : Same(t)
    BY <1>2, <2>1, <2>2 DEF Counts, Same, jobVars, listenerVars
  <2>6. InputsInv'
    <3>1. s \in {"color", "bw"} /\ Raised("provided", s) > 0
      BY <1>1, <2>1 DEF InputsInv, Services, Counts
    <3>2. /\ Raised("provided", "camera")' = Raised("provided", "camera")
          /\ \A t \in Services : Raised("provided", t)' > 0 => Raised("provided", t) > 0
      BY <2>1, <2>2, <3>1 DEF Counts, Counted, Services
    <3> QED
      BY <1>1, <1>2, <1>3, <2>2, <3>1, <3>2 DEF InputsInv, Services, userVars
  <2> QED
    <3>1. accepts' \in Nat /\ accepts' >= accepts
      BY <1>1, <1>2, MaxAcceptsAssumption DEF TypeOK, listenerVars
    <3>2. \A t \in Services \ {s} : EntryInv(t)' /\ AttemptsInv(t)'
      BY <1>1, <2>5, <3>1, SameKeepsEntry
    <3> QED
      BY <2>3, <2>4, <2>6, <3>2 DEF BrokerInv
<1>4. CASE /\ services[s] \in {"local", "remote"}
           /\ Handle(Event("provided", s), {})
           /\ UNCHANGED services
  <2>1. Counts("provided", s, {})
    BY <1>1, <1>4, NoneRaised DEF Kinds
  <2>2. TypeOK'
    BY <1>1, <1>2, <1>4, <2>1 DEF Counts, TypeOK, jobVars, listenerVars, userVars, fixed
  <2>3. \A t \in Services : EntryInv(t)' /\ AttemptsInv(t)'
    BY <1>1, <1>2, <1>4, <2>1 DEF Counts, EntryInv, AttemptsInv, jobVars, listenerVars, One, Counted
  <2>4. InputsInv'
    BY <1>1, <1>2, <1>4, <2>1 DEF Counts, InputsInv, userVars, One, Counted, Services
  <2> QED
    BY <2>2, <2>3, <2>4 DEF BrokerInv
<1> QED
  BY <1>3, <1>4 DEF ServiceProvided

LEMMA SubscribeStep ==
  ASSUME BrokerInv, NEW s \in Services, SubscribeService(s)
  PROVE  BrokerInv'
<1>1. TypeOK /\ InputsInv /\ EntryInv(s) /\ AttemptsInv(s) /\ events \in [Events -> Nat]
  BY DEF BrokerInv, TypeOK
<1>2. UNCHANGED <<fixed, toBuild, jobVars, listenerVars, client, userVars, finished>>
  BY DEF SubscribeService
<1>3. \/ /\ services[s] \in {"local", "remote"} /\ UNCHANGED services
         /\ Handle(Event("subscribe", s), {Event("available", s)})
      \/ /\ services[s] = "disconnected" /\ UNCHANGED services
         /\ Handle(Event("subscribe", s), {})
      \/ /\ services[s] = "absent" /\ services' = [services EXCEPT ![s] = "disconnected"]
         /\ Handle(Event("subscribe", s), {Event("connectReq", s)})
  <2>1. /\ services[s] # "disconnected" => {e \in {Event("available", s)} : services[s] # "disconnected"} = {Event("available", s)}
        /\ services[s] = "disconnected" => {e \in {Event("available", s)} : services[s] # "disconnected"} = {}
    OBVIOUS
  <2> QED
    BY <1>1, <2>1 DEF SubscribeService, TypeOK
<1>4. \/ Counts("subscribe", s, {"available"}) \/ Counts("subscribe", s, {})
      \/ Counts("subscribe", s, {"connectReq"})
  BY <1>1, <1>3, NoneRaised, OneRaised DEF Kinds
<1>5. /\ events' \in [Events -> Nat] /\ \A t \in Services \ {s}, k \in Counted : Raised(k, t)' = Raised(k, t)
      /\ \A k \in {"provide", "provided", "connected", "cfm"} : Raised(k, s)' = Raised(k, s)
  BY <1>4 DEF Counts, Counted, One
<1>6. \A k \in Counted, t \in Services : Raised(k, t) \in Nat
  BY <1>1, CountsAreNumbers
<1>7. /\ services' \in [Services -> {"absent", "disconnected", "local", "remote"}]
      /\ \A t \in Services \ {s} : services'[t] = services[t]
  BY <1>1, <1>3 DEF TypeOK
<1>8. TypeOK'
  BY <1>1, <1>2, <1>5, <1>7 DEF TypeOK, jobVars, listenerVars, userVars, fixed
<1>9. EntryInv(s)'
  <2>1. CASE services[s] \in {"local", "remote"}
    BY <1>1, <1>2, <1>3, <1>5, <2>1, OneRaised DEF EntryInv, jobVars, listenerVars, Kinds, Counts, Counted, One
  <2>2. CASE services[s] = "disconnected"
    BY <1>1, <1>2, <1>3, <1>5, <2>2, NoneRaised DEF EntryInv, jobVars, listenerVars, Kinds, Counts, Counted, One
  <2>3. CASE services[s] = "absent"
    <3>1. Counts("subscribe", s, {"connectReq"}) /\ services'[s] = "disconnected"
      BY <1>1, <1>3, <2>3, OneRaised DEF Kinds, TypeOK
    <3>2. Raised("connectReq", s) = 0 /\ job[s] = "none" /\ Raised("available", s) = 0
      BY <1>1, <1>6, <2>3 DEF EntryInv, One, Counted
    <3>3. Raised("connectReq", s)' = 1 /\ Raised("available", s)' = 0
      BY <3>1, <3>2 DEF Counts, Counted, One
    <3>4. UNCHANGED <<listeners[s], job[s], client[s]>>
      BY <1>2 DEF jobVars, listenerVars
    <3> QED
      BY <1>1, <1>5, <2>3, <3>1, <3>2, <3>3, <3>4 DEF EntryInv, One
  <2> QED
    BY <1>1, <2>1, <2>2, <2>3 DEF TypeOK
<1>10. AttemptsInv(s)'
  BY <1>1, <1>2 DEF AttemptsInv, jobVars, listenerVars
<1>11. InputsInv'
  <2>1. \A t \in Services : Raised("provided", t)' = Raised("provided", t)
    BY <1>5 DEF Counted
  <2>2. services'[s] = services[s] \/ (services[s] = "absent" /\ services'[s] = "disconnected")
    BY <1>1, <1>3 DEF TypeOK
  <2> QED
    BY <1>1, <1>2, <1>7, <2>1, <2>2, InputsKept
<1>12. \A t \in Services \ {s} : Same(t)
  BY <1>2, <1>5, <1>7 DEF Same, jobVars, listenerVars
<1>13. accepts' >= accepts
  BY <1>1, <1>2, MaxAcceptsAssumption DEF TypeOK, listenerVars
<1> QED
  BY <1>8, <1>9, <1>10, <1>11, <1>12, <1>13, StepOfOneService

LEMMA CfmStep ==
  ASSUME BrokerInv, NEW s \in Services, ConnectCfm(s)
  PROVE  BrokerInv'
<1>1. TypeOK /\ InputsInv /\ EntryInv(s) /\ AttemptsInv(s) /\ events \in [Events -> Nat]
  BY DEF BrokerInv, TypeOK
<1>2. UNCHANGED <<fixed, toBuild, jobVars, listenerVars, client, userVars, finished>>
  BY DEF ConnectCfm
<1>3. \/ /\ services[s] = "disconnected" /\ services' = [services EXCEPT ![s] = "remote"]
         /\ Counts("cfm", s, {"available"})
      \/ /\ services[s] # "disconnected" /\ UNCHANGED services
         /\ Counts("cfm", s, {})
  BY <1>1, NoneRaised, OneRaised DEF ConnectCfm, Kinds
<1>4. /\ events' \in [Events -> Nat] /\ \A t \in Services \ {s}, k \in Counted : Raised(k, t)' = Raised(k, t)
      /\ \A k \in {"provide", "provided", "connectReq", "connected"} : Raised(k, s)' = Raised(k, s)
      /\ Raised("cfm", s) > 0
      /\ \A k \in Counted : Raised(k, s) \in Nat
  BY <1>3 DEF Counts, Counted, One
<1>5. /\ services' \in [Services -> {"absent", "disconnected", "local", "remote"}]
      /\ \A t \in Services \ {s} : services'[t] = services[t]
      /\ services'[s] = IF services[s] = "disconnected" THEN "remote" ELSE services[s]
      /\ services[s] # "absent"
  <2>1. Raised("connectReq", s) \in Nat
    BY <1>4 DEF Counted
  <2>2. services[s] # "absent"
    BY <1>1, <1>4, <2>1 DEF EntryInv, One
  <2> QED
    BY <1>1, <1>3, <2>2 DEF TypeOK
<1>6. TypeOK'
  BY <1>1, <1>2, <1>4, <1>5 DEF TypeOK, jobVars, listenerVars, userVars, fixed
<1>7. EntryInv(s)'
  <2>1. UNCHANGED <<listeners[s], job[s], client[s]>>
    BY <1>2 DEF jobVars, listenerVars
  <2>2. Raised("available", s)' > 0 => services'[s] \in {"local", "remote"}
    BY <1>1, <1>3, <1>5 DEF EntryInv, Counts, Counted, One
  <2> QED
    BY <1>1, <1>4, <1>5, <2>1, <2>2 DEF EntryInv, One
<1>8. AttemptsInv(s)'
  BY <1>1, <1>2 DEF AttemptsInv, jobVars, listenerVars
<1>9. InputsInv'
  <2>1. \A t \in Services : Raised("provided", t)' = Raised("provided", t)
    BY <1>4 DEF Counted
  <2> QED
    BY <1>1, <1>2, <1>5, <2>1, InputsKept
<1>10. \A t \in Services \ {s} : Same(t)
  BY <1>2, <1>4, <1>5 DEF Same, jobVars, listenerVars
<1>11. accepts' >= accepts
  BY <1>1, <1>2, MaxAcceptsAssumption DEF TypeOK, listenerVars
<1> QED
  BY <1>6, <1>7, <1>8, <1>9, <1>10, <1>11, StepOfOneService

LEMMA PublishStep ==
  ASSUME BrokerInv, NEW s \in Services, ProvideService(s)
  PROVE  BrokerInv'
<1>1. TypeOK /\ InputsInv /\ EntryInv(s) /\ AttemptsInv(s) /\ events \in [Events -> Nat]
  BY DEF BrokerInv, TypeOK
<1>2. /\ UNCHANGED <<fixed, toBuild, services, jobVars, servers, accepts, client, userVars, finished>>
      /\ listeners' = [listeners EXCEPT ![s] = @ + 1]
      /\ listenerActive' = [listenerActive EXCEPT ![s] = TRUE]
  BY DEF ProvideService
<1>3. Counts("provide", s, {})
  BY <1>1, NoneRaised DEF ProvideService, Kinds
<1>4. /\ events' \in [Events -> Nat] /\ \A t \in Services \ {s}, k \in Counted : Raised(k, t)' = Raised(k, t)
      /\ \A k \in {"provided", "connectReq", "connected", "cfm", "available"} : Raised(k, s)' = Raised(k, s)
      /\ Raised("provide", s)' = Raised("provide", s) - 1
      /\ \A k \in Counted : Raised(k, s) \in Nat
  BY <1>3 DEF Counts, Counted, One
<1>5. /\ listeners' \in [Services -> Nat] /\ listenerActive' \in [Services -> BOOLEAN]
      /\ listeners'[s] = listeners[s] + 1 /\ \A t \in Services \ {s} : listeners'[t] = listeners[t]
      /\ listeners[s] \in Nat
  BY <1>1, <1>2 DEF TypeOK
<1>6. TypeOK'
  BY <1>1, <1>2, <1>4, <1>5 DEF TypeOK, jobVars, userVars, fixed
<1>7. EntryInv(s)'
  <2>1. UNCHANGED <<services[s], job[s], client[s]>> /\ Raised("provide", s) \in Nat
    BY <1>2, <1>4 DEF jobVars, Counted
  <2> QED
    BY <1>1, <1>4, <1>5, <2>1 DEF EntryInv, One
<1>8. AttemptsInv(s)'
  BY <1>1, <1>2 DEF AttemptsInv, jobVars
<1>9. InputsInv'
  <2>1. \A t \in Services : Raised("provided", t)' = Raised("provided", t)
    BY <1>4 DEF Counted
  <2> QED
    BY <1>1, <1>2, <2>1, InputsKept
<1>10. \A t \in Services \ {s} : Same(t)
  BY <1>2, <1>4, <1>5 DEF Same, jobVars
<1>11. accepts' >= accepts
  BY <1>1, <1>2, MaxAcceptsAssumption DEF TypeOK
<1> QED
  BY <1>6, <1>7, <1>8, <1>9, <1>10, <1>11, StepOfOneService

LEMMA ConnectStep ==
  ASSUME BrokerInv, NEW s \in Services, ConnectToService(s)
  PROVE  BrokerInv'
<1>1. TypeOK /\ InputsInv /\ EntryInv(s) /\ AttemptsInv(s) /\ events \in [Events -> Nat]
  BY DEF BrokerInv, TypeOK
<1>2. /\ UNCHANGED <<fixed, toBuild, services, timers, listenerVars, client, userVars, finished>>
      /\ job' = [job EXCEPT ![s] = "find"] /\ numAttempts' = [numAttempts EXCEPT ![s] = 0]
  BY DEF ConnectToService
<1>3. Counts("connectReq", s, {})
  BY <1>1, NoneRaised DEF ConnectToService, Kinds
<1>4. /\ events' \in [Events -> Nat] /\ \A t \in Services \ {s}, k \in Counted : Raised(k, t)' = Raised(k, t)
      /\ \A k \in {"provided", "provide", "connected", "cfm", "available"} : Raised(k, s)' = Raised(k, s)
      /\ Raised("connectReq", s)' = Raised("connectReq", s) - 1 /\ Raised("connectReq", s) > 0
      /\ \A k \in Counted : Raised(k, s) \in Nat
  BY <1>3 DEF Counts, Counted, One
<1>5. /\ job' \in [Services -> {"none", "find", "wait", "connect", "connected", "failed"}]
      /\ numAttempts' \in [Services -> 0..MaxAttempts]
      /\ job'[s] = "find" /\ numAttempts'[s] = 0
      /\ \A t \in Services \ {s} : job'[t] = job[t] /\ numAttempts'[t] = numAttempts[t]
  BY <1>1, <1>2, MaxAttemptsAssumption DEF TypeOK
<1>6. job[s] = "none" /\ Raised("connectReq", s) = 1 /\ services[s] # "absent"
  <2>1. Raised("connectReq", s) \in Nat
    BY <1>4 DEF Counted
  <2> QED
    BY <1>1, <1>4, <2>1 DEF EntryInv, One
<1>7. TypeOK'
  BY <1>1, <1>2, <1>4, <1>5 DEF TypeOK, listenerVars, userVars, fixed
<1>8. EntryInv(s)'
  <2>1. UNCHANGED <<services[s], listeners[s], client[s]>>
    BY <1>2 DEF listenerVars
  <2> QED
    BY <1>1, <1>4, <1>5, <1>6, <2>1 DEF EntryInv, One
<1>9. AttemptsInv(s)'
  BY <1>1, <1>2, <1>5, <1>6, MaxAttemptsAssumption DEF AttemptsInv, listenerVars
<1>10. InputsInv'
  <2>1. \A t \in Services : Raised("provided", t)' = Raised("provided", t)
    BY <1>4 DEF Counted
  <2> QED
    BY <1>1, <1>2, <2>1, InputsKept
<1>11. \A t \in Services \ {s} : Same(t)
  BY <1>2, <1>4, <1>5 DEF Same, listenerVars
<1>12. accepts' >= accepts
  BY <1>1, <1>2, MaxAcceptsAssumption DEF TypeOK, listenerVars
<1> QED
  BY <1>7, <1>8, <1>9, <1>10, <1>11, <1>12, StepOfOneService

LEMMA ConnectedStep ==
  ASSUME BrokerInv, NEW s \in Services, ServiceStatusConnected(s)
  PROVE  BrokerInv'
<1>1. TypeOK /\ InputsInv /\ EntryInv(s) /\ AttemptsInv(s) /\ events \in [Events -> Nat]
  BY DEF BrokerInv, TypeOK
<1>2. /\ UNCHANGED <<fixed, toBuild, services, jobVars, listenerVars, userVars, finished>>
      /\ client' = [client EXCEPT ![s] = "open"]
  BY DEF ServiceStatusConnected
<1>3. Counts("connected", s, {"cfm"})
  BY <1>1, OneRaised DEF ServiceStatusConnected, Kinds
<1>4. /\ events' \in [Events -> Nat] /\ \A t \in Services \ {s}, k \in Counted : Raised(k, t)' = Raised(k, t)
      /\ \A k \in {"provided", "provide", "connectReq", "available"} : Raised(k, s)' = Raised(k, s)
      /\ Raised("connected", s)' = Raised("connected", s) - 1 /\ Raised("connected", s) > 0
      /\ \A k \in Counted : Raised(k, s) \in Nat
  BY <1>3 DEF Counts, Counted, One
<1>5. /\ client' \in [Services -> {"none", "open", "ended"}] /\ client'[s] = "open"
      /\ \A t \in Services \ {s} : client'[t] = client[t]
  BY <1>1, <1>2 DEF TypeOK
<1>6. /\ client[s] = "none" /\ Raised("connected", s) = 1 /\ job[s] = "connected" /\ services[s] # "absent"
  <2>1. Raised("connected", s) \in Nat /\ Raised("connectReq", s) \in Nat
    BY <1>4 DEF Counted
  <2>2. client[s] = "none" /\ Raised("connected", s) = 1 /\ job[s] = "connected"
    BY <1>1, <1>4, <2>1 DEF EntryInv, One
  <2> QED
    BY <1>1, <2>1, <2>2 DEF EntryInv, One
<1>7. TypeOK'
  BY <1>1, <1>2, <1>4, <1>5 DEF TypeOK, jobVars, listenerVars, userVars, fixed
<1>8. EntryInv(s)'
  <2>1. UNCHANGED <<services[s], listeners[s], job[s]>>
    BY <1>2 DEF jobVars, listenerVars
  <2> QED
    BY <1>1, <1>4, <1>5, <1>6, <2>1 DEF EntryInv, One
<1>9. AttemptsInv(s)'
  BY <1>1, <1>2 DEF AttemptsInv, jobVars, listenerVars
<1>10. InputsInv'
  <2>1. \A t \in Services : Raised("provided", t)' = Raised("provided", t)
    BY <1>4 DEF Counted
  <2> QED
    BY <1>1, <1>2, <2>1, InputsKept
<1>11. \A t \in Services \ {s} : Same(t)
  BY <1>2, <1>4, <1>5 DEF Same, jobVars, listenerVars
<1>12. accepts' >= accepts
  BY <1>1, <1>2, MaxAcceptsAssumption DEF TypeOK, listenerVars
<1> QED
  BY <1>7, <1>8, <1>9, <1>10, <1>11, <1>12, StepOfOneService
-----------------------------------------------------------------------------
(* Steps that change nothing that the invariant counts.                    *)
LEMMA NothingCounted ==
  ASSUME BrokerInv, TypeOK', UNCHANGED <<services, jobVars, listeners, servers, accepts, client>>,
         \A k \in Counted, t \in Services : Raised(k, t)' = Raised(k, t),
         UNCHANGED userVars
  PROVE  BrokerInv'
<1>1. TypeOK /\ InputsInv /\ \A t \in Services : EntryInv(t) /\ AttemptsInv(t)
  BY DEF BrokerInv
<1>2. \A t \in Services : Same(t) /\ Raised("provided", t)' = Raised("provided", t)
  BY DEF Same, jobVars, Counted
<1>3. accepts' \in Nat /\ accepts' >= accepts
  BY <1>1, MaxAcceptsAssumption DEF TypeOK
<1>4. \A t \in Services : EntryInv(t)' /\ AttemptsInv(t)'
  BY <1>1, <1>2, <1>3, SameKeepsEntry
<1>5. InputsInv'
  BY <1>1, <1>2, InputsKept
<1> QED
  BY <1>4, <1>5 DEF BrokerInv

(* Kinds of events that are not counted.                                   *)
LEMMA NotCounted ==
  ASSUME events \in [Events -> Nat], NEW e \in Events, NEW raised, Handle(e, raised) \/ Raise(raised),
         \A x \in raised \cup {e} : x.kind \notin Counted
  PROVE  /\ events' \in [Events -> Nat]
         /\ \A k \in Counted, t \in Services : Raised(k, t)' = Raised(k, t)
<1>1. \A k \in Counted, t \in Services : Event(k, t) # e /\ Event(k, t) \notin raised
  BY DEF Event
<1> QED
  BY <1>1, CountsAfterOther

LEMMA ConstructStep == BrokerInv /\ Construct => BrokerInv'
<1> SUFFICES ASSUME BrokerInv, Construct PROVE BrokerInv'
  OBVIOUS
<1>1. TypeOK /\ events \in [Events -> Nat]
  BY DEF BrokerInv, TypeOK
<1>2. /\ UNCHANGED <<fixed, services, jobVars, listenerVars, client, userVars, finished>>
      /\ toBuild' = Tail(toBuild) /\ toBuild # << >> /\ Raise({Event("subscribe", Wanted[Head(toBuild)])})
  BY DEF Construct
<1>3. /\ events' \in [Events -> Nat]
      /\ \A k \in Counted, t \in Services : Raised(k, t)' = Raised(k, t)
  <2>1. \A x \in {Event("subscribe", Wanted[Head(toBuild)])} \cup {Stop} : x.kind \notin Counted
    BY DEF Event, Stop, Counted
  <2> QED
    BY <1>1, <1>2, <2>1, NotCounted, EventsDiffer
<1>4. toBuild' \in {<<"frameCoord", "grayscale">>, <<"frameCoord">>, <<"grayscale">>, << >>}
  <2>1. toBuild = <<"frameCoord", "grayscale">> => toBuild' = <<"grayscale">>
    BY <1>2
  <2>2. toBuild \in {<<"frameCoord">>, <<"grayscale">>} => toBuild' = << >>
    BY <1>2
  <2> QED
    BY <1>1, <1>2, <2>1, <2>2 DEF TypeOK
<1>5. TypeOK'
  BY <1>1, <1>2, <1>3, <1>4 DEF TypeOK, fixed, jobVars, listenerVars, userVars
<1> QED
  BY <1>2, <1>3, <1>5, NothingCounted DEF listenerVars

LEMMA RejStep ==
  ASSUME BrokerInv, NEW s \in Services, ConnectRej(s) \/ ServiceStatusLost(s) \/ ServiceUnavailable(s)
  PROVE  BrokerInv'
<1>1. TypeOK /\ events \in [Events -> Nat]
  BY DEF BrokerInv, TypeOK
<1>2. UNCHANGED <<fixed, toBuild, services, jobVars, listenerVars, client, userVars, finished>>
  BY DEF ConnectRej, ServiceStatusLost, ServiceUnavailable
<1>3. PICK k \in {"rej", "disconnected", "notFound", "unavailable"} :
        \E raised \in SUBSET {Event("unavailable", s), Event("rej", s), Stop} : Handle(Event(k, s), raised)
  BY DEF ConnectRej, ServiceStatusLost, ServiceUnavailable
<1>4. PICK raised \in SUBSET {Event("unavailable", s), Event("rej", s), Stop} : Handle(Event(k, s), raised)
  BY <1>3
<1>5. /\ events' \in [Events -> Nat]
      /\ \A l \in Counted, t \in Services : Raised(l, t)' = Raised(l, t)
  <2>1. \A x \in raised \cup {Event(k, s)} : x.kind \notin Counted
    BY DEF Event, Stop, Counted
  <2>2. Event(k, s) \in Events
    BY EventsDiffer DEF Kinds
  <2> QED
    BY <1>1, <1>4, <2>1, <2>2, NotCounted
<1>6. TypeOK'
  BY <1>1, <1>2, <1>5 DEF TypeOK, fixed, jobVars, listenerVars, userVars
<1> QED
  BY <1>2, <1>5, <1>6, NothingCounted DEF listenerVars

LEMMA StopStep == BrokerInv /\ (HandleStop \/ HandleShutdown) => BrokerInv'
<1> SUFFICES ASSUME BrokerInv, HandleStop \/ HandleShutdown PROVE BrokerInv'
  OBVIOUS
<1>1. TypeOK /\ events \in [Events -> Nat]
  BY DEF BrokerInv, TypeOK
<1>2. /\ UNCHANGED <<fixed, toBuild, services, jobVars, listeners, servers, accepts, client, userVars>>
      /\ listenerActive' \in [Services -> BOOLEAN] /\ finished' \in BOOLEAN
  BY <1>1 DEF HandleStop, HandleShutdown, listenerVars, TypeOK
<1>3. /\ events' \in [Events -> Nat]
      /\ \A k \in Counted, t \in Services : Raised(k, t)' = Raised(k, t)
  <2>1. \A x \in {Shutdown, Stop} : x \in Events /\ x.kind \notin Counted
    BY EventsDiffer DEF Event, Stop, Shutdown, Counted
  <2>2. CASE HandleStop
    BY <1>1, <2>1, <2>2, NotCounted DEF HandleStop
  <2>3. CASE HandleShutdown
    BY <1>1, <2>1, <2>3, NotCounted DEF HandleShutdown
  <2> QED
    BY <2>2, <2>3
<1>4. TypeOK'
  BY <1>1, <1>2, <1>3 DEF TypeOK, fixed, jobVars, userVars
<1> QED
  BY <1>2, <1>3, <1>4, NothingCounted

(* The end of a connection is only reported.                               *)
LEMMA EndClientStep ==
  ASSUME BrokerInv, NEW s \in Services, EndClient(s)
  PROVE  BrokerInv'
<1>1. TypeOK /\ InputsInv /\ EntryInv(s) /\ AttemptsInv(s) /\ events \in [Events -> Nat]
  BY DEF BrokerInv, TypeOK
<1>2. /\ UNCHANGED <<fixed, toBuild, services, jobVars, listenerVars, userVars, finished>>
      /\ client[s] = "open" /\ client' = [client EXCEPT ![s] = "ended"]
      /\ Raise({Event("disconnected", s)})
  BY DEF EndClient
<1>3. /\ events' \in [Events -> Nat]
      /\ \A k \in Counted, t \in Services : Raised(k, t)' = Raised(k, t)
  <2>1. \A x \in {Event("disconnected", s)} \cup {Stop} : x.kind \notin Counted
    BY DEF Event, Stop, Counted
  <2> QED
    BY <1>1, <1>2, <2>1, NotCounted, EventsDiffer
<1>4. /\ client' \in [Services -> {"none", "open", "ended"}] /\ client'[s] = "ended"
      /\ \A t \in Services \ {s} : client'[t] = client[t]
  BY <1>1, <1>2 DEF TypeOK
<1>5. TypeOK'
  BY <1>1, <1>2, <1>3, <1>4 DEF TypeOK, fixed, jobVars, listenerVars, userVars
<1>6. EntryInv(s)'
  BY <1>1, <1>2, <1>3, <1>4 DEF EntryInv, One, Counted, jobVars, listenerVars
<1>7. AttemptsInv(s)' /\ accepts' >= accepts
  BY <1>1, <1>2, MaxAcceptsAssumption DEF AttemptsInv, jobVars, listenerVars, TypeOK
<1>8. InputsInv'
  BY <1>1, <1>2, <1>3, InputsKept DEF Counted
<1>9. \A t \in Services \ {s} : Same(t)
  BY <1>2, <1>3, <1>4 DEF Same, jobVars, listenerVars
<1> QED
  BY <1>5, <1>6, <1>7, <1>8, <1>9, StepOfOneService

LEMMA EndServerStep ==
  ASSUME BrokerInv, NEW s \in Services, EndServer(s)
  PROVE  BrokerInv'
<1>1. TypeOK /\ InputsInv /\ EntryInv(s) /\ AttemptsInv(s) /\ events \in [Events -> Nat]
  BY DEF BrokerInv, TypeOK
<1>2. /\ UNCHANGED <<fixed, toBuild, services, jobVars, listeners, listenerActive, accepts, client, userVars, finished>>
      /\ servers[s] > 0 /\ servers' = [servers EXCEPT ![s] = @ - 1]
      /\ Raise({Event("disconnected", s)})
  BY DEF EndServer
<1>3. /\ events' \in [Events -> Nat]
      /\ \A k \in Counted, t \in Services : Raised(k, t)' = Raised(k, t)
  <2>1. \A x \in {Event("disconnected", s)} \cup {Stop} : x.kind \notin Counted
    BY DEF Event, Stop, Counted
  <2> QED
    BY <1>1, <1>2, <2>1, NotCounted, EventsDiffer
<1>4. /\ servers' \in [Services -> 0..MaxAccepts] /\ servers'[s] = servers[s] - 1 /\ servers[s] \in Nat
      /\ \A t \in Services \ {s} : servers'[t] = servers[t]
  BY <1>1, <1>2, MaxAcceptsAssumption DEF TypeOK
<1>5. TypeOK'
  BY <1>1, <1>2, <1>3, <1>4 DEF TypeOK, fixed, jobVars, userVars
<1>6. EntryInv(s)'
  BY <1>1, <1>2, <1>3 DEF EntryInv, Counted, jobVars
<1>7. AttemptsInv(s)' /\ accepts' >= accepts
  BY <1>1, <1>2, <1>4, MaxAcceptsAssumption DEF AttemptsInv, jobVars, TypeOK
<1>8. InputsInv'
  BY <1>1, <1>2, <1>3, InputsKept DEF Counted
<1>9. \A t \in Services \ {s} : Same(t)
  BY <1>2, <1>3, <1>4 DEF Same, jobVars
<1> QED
  BY <1>5, <1>6, <1>7, <1>8, <1>9, StepOfOneService

LEMMA AcceptStep ==
  ASSUME BrokerInv, NEW s \in Services, AcceptConnection(s)
  PROVE  BrokerInv'
<1>1. TypeOK /\ InputsInv /\ EntryInv(s) /\ AttemptsInv(s)
  BY DEF BrokerInv
<1>2. /\ UNCHANGED <<fixed, toBuild, events, services, jobVars, listeners, listenerActive, client, userVars, finished>>
      /\ accepts < MaxAccepts /\ accepts' = accepts + 1 /\ servers' = [servers EXCEPT ![s] = @ + 1]
  BY DEF AcceptConnection
<1>3. \A k, t : Raised(k, t)' = Raised(k, t)
  BY <1>2 DEF Raised
<1>4. /\ servers' \in [Services -> 0..MaxAccepts] /\ servers'[s] = servers[s] + 1 /\ servers[s] \in Nat
      /\ \A t \in Services \ {s} : servers'[t] = servers[t]
      /\ accepts \in Nat /\ accepts' \in 0..MaxAccepts
  BY <1>1, <1>2, MaxAcceptsAssumption DEF TypeOK, AttemptsInv
<1>5. TypeOK'
  BY <1>1, <1>2, <1>4 DEF TypeOK, fixed, jobVars, userVars
<1>6. EntryInv(s)'
  BY <1>1, <1>2, <1>3 DEF EntryInv, jobVars
<1>7. AttemptsInv(s)' /\ accepts' >= accepts
  BY <1>1, <1>2, <1>4 DEF AttemptsInv, jobVars
<1>8. InputsInv'
  BY <1>1, <1>2, <1>3, InputsKept
<1>9. \A t \in Services \ {s} : Same(t)
  BY <1>2, <1>3, <1>4 DEF Same, jobVars
<1> QED
  BY <1>5, <1>6, <1>7, <1>8, <1>9, StepOfOneService
-----------------------------------------------------------------------------
(* The steps of a connect job, in which it neither starts nor is over with *)
(* a connection.                                                           *)
LEMMA JobKeepsEntry ==
  ASSUME BrokerInv, NEW s \in Services, TypeOK', AttemptsInv(s)',
         UNCHANGED <<services, listeners, client, servers, accepts, userVars>>,
         job[s] \notin {"none", "connected"}, job'[s] \notin {"none", "connected"},
         \A t \in Services \ {s} : UNCHANGED <<job[t], numAttempts[t], timers[t]>>,
         \A k \in Counted, t \in Services : Raised(k, t)' = Raised(k, t)
  PROVE  BrokerInv'
<1>1. TypeOK /\ InputsInv /\ EntryInv(s)
  BY DEF BrokerInv
<1>2. EntryInv(s)'
  BY <1>1 DEF EntryInv, One, Counted
<1>3. InputsInv' /\ accepts' >= accepts
  BY <1>1, InputsKept, MaxAcceptsAssumption DEF Counted, TypeOK
<1>4. \A t \in Services \ {s} : Same(t)
  BY DEF Same
<1> QED
  BY <1>2, <1>3, <1>4, StepOfOneService

JobStates == {"none", "find", "wait", "connect", "connected", "failed"}

LEMMA FindStep ==
  ASSUME BrokerInv, NEW s \in Services, FindService(s) \/ FindNothing(s)
  PROVE  BrokerInv'
<1>1. TypeOK /\ AttemptsInv(s)
  BY DEF BrokerInv
<1>2. /\ UNCHANGED <<fixed, toBuild, events, services, listenerVars, client, userVars, finished>>
      /\ job[s] = "find" /\ \E j \in {"connect", "wait"} : job' = [job EXCEPT ![s] = j]
      /\ \/ UNCHANGED <<numAttempts, timers>>
         \/ /\ numAttempts' = [numAttempts EXCEPT ![s] = @ + 1]
            /\ timers' = [timers EXCEPT ![s] = @ + 1]
  BY DEF FindService, FindNothing
<1>3. /\ job' \in [Services -> JobStates] /\ job'[s] \in {"connect", "wait"}
      /\ \A t \in Services \ {s} : job'[t] = job[t]
  BY <1>1, <1>2 DEF TypeOK, JobStates
<1>4. /\ numAttempts[s] \in Nat /\ timers[s] \in Nat /\ numAttempts[s] < MaxAttempts /\ timers[s] <= numAttempts[s]
  BY <1>1, <1>2, MaxAttemptsAssumption DEF TypeOK, AttemptsInv
<1>5. /\ numAttempts' \in [Services -> 0..MaxAttempts] /\ timers' \in [Services -> 0..MaxAttempts]
      /\ timers'[s] <= numAttempts'[s]
      /\ \A t \in Services \ {s} : UNCHANGED <<numAttempts[t], timers[t]>>
  <2>1. numAttempts \in [Services -> 0..MaxAttempts] /\ timers \in [Services -> 0..MaxAttempts]
    BY <1>1 DEF TypeOK
  <2>2. numAttempts[s] + 1 \in 0..MaxAttempts /\ timers[s] + 1 \in 0..MaxAttempts
    BY <1>4, MaxAttemptsAssumption
  <2>3. CASE UNCHANGED <<numAttempts, timers>>
    BY <1>4, <2>1, <2>3
  <2>4. CASE /\ numAttempts' = [numAttempts EXCEPT ![s] = @ + 1]
             /\ timers' = [timers EXCEPT ![s] = @ + 1]
    BY <1>4, <2>1, <2>2, <2>4
  <2> QED
    BY <1>2, <2>3, <2>4
<1>6. TypeOK'
  BY <1>1, <1>2, <1>3, <1>5 DEF TypeOK, JobStates, fixed, listenerVars, userVars
<1>7. AttemptsInv(s)'
  BY <1>1, <1>2, <1>3, <1>5 DEF AttemptsInv, listenerVars
<1>8. \A k, t : Raised(k, t)' = Raised(k, t)
  BY <1>2 DEF Raised
<1> QED
  BY <1>2, <1>3, <1>5, <1>6, <1>7, <1>8, JobKeepsEntry DEF listenerVars

LEMMA WakeUpRaises ==
  ASSUME events \in [Events -> Nat], NEW s \in Services, WakeUp(s)
  PROVE  /\ events' \in [Events -> Nat]
         /\ \A k \in Counted, t \in Services : Raised(k, t)' = Raised(k, t)
<1>1. CASE UNCHANGED events
  BY <1>1 DEF Raised
<1>2. CASE Raise({Event("notFound", s)})
  <2>1. \A x \in {Event("notFound", s)} \cup {Stop} : x.kind \notin Counted
    BY DEF Event, Stop, Counted
  <2> QED
    BY <1>2, <2>1, NotCounted, EventsDiffer
<1> QED
  BY <1>1, <1>2 DEF WakeUp

LEMMA WakeUpStep ==
  ASSUME BrokerInv, NEW s \in Services, job[s] = "wait", WakeUp(s),
         timers' \in [Services -> 0..MaxAttempts], timers'[s] <= timers[s],
         \A t \in Services \ {s} : timers'[t] = timers[t],
         UNCHANGED <<fixed, toBuild, services, numAttempts, listenerVars, client, userVars, finished>>
  PROVE  BrokerInv'
<1>1. TypeOK /\ AttemptsInv(s) /\ events \in [Events -> Nat]
  BY DEF BrokerInv, TypeOK
<1>2. /\ events' \in [Events -> Nat]
      /\ \A k \in Counted, t \in Services : Raised(k, t)' = Raised(k, t)
  BY <1>1, WakeUpRaises
<1>3. \/ numAttempts[s] < MaxAttempts /\ job' = [job EXCEPT ![s] = "find"]
      \/ job' = [job EXCEPT ![s] = "failed"]
  BY DEF WakeUp
<1>4. /\ job' \in [Services -> JobStates]
      /\ job'[s] \in {"find", "failed"} /\ (job'[s] = "find" => numAttempts[s] < MaxAttempts)
      /\ \A t \in Services \ {s} : job'[t] = job[t]
  BY <1>1, <1>3 DEF TypeOK, JobStates
<1>5. timers[s] \in Nat /\ timers'[s] \in Nat /\ numAttempts[s] \in Nat
  BY <1>1, MaxAttemptsAssumption DEF TypeOK
<1>6. TypeOK'
  BY <1>1, <1>2, <1>4 DEF TypeOK, JobStates, fixed, listenerVars, userVars
<1>7. AttemptsInv(s)'
  BY <1>1, <1>4, <1>5 DEF AttemptsInv, listenerVars
<1> QED
  BY <1>2, <1>4, <1>6, <1>7, JobKeepsEntry DEF listenerVars

LEMMA TimerStep ==
  ASSUME BrokerInv, NEW s \in Services, DiscoveryTimeout(s) \/ SpuriousWakeUp(s)
  PROVE  BrokerInv'
<1>1. TypeOK /\ InputsInv /\ EntryInv(s) /\ AttemptsInv(s)
  BY DEF BrokerInv
<1>2. timers[s] \in 0..MaxAttempts /\ numAttempts[s] \in 0..MaxAttempts
  BY <1>1 DEF TypeOK
<1>3. CASE SpuriousWakeUp(s)
  <2>1. job[s] = "wait" /\ WakeUp(s) /\ UNCHANGED timers
        /\ UNCHANGED <<fixed, toBuild, services, numAttempts, listenerVars, client, userVars, finished>>
    BY <1>3 DEF SpuriousWakeUp
  <2>2. timers' \in [Services -> 0..MaxAttempts] /\ timers'[s] <= timers[s]
        /\ \A t \in Services \ {s} : timers'[t] = timers[t]
    BY <1>1, <1>2, <2>1, MaxAttemptsAssumption DEF TypeOK
  <2> QED
    BY <2>1, <2>2, WakeUpStep
<1>4. CASE DiscoveryTimeout(s)
  <2>1. /\ timers[s] > 0 /\ timers' = [timers EXCEPT ![s] = @ - 1]
        /\ UNCHANGED <<fixed, toBuild, services, numAttempts, listenerVars, client, userVars, finished>>
    BY <1>4 DEF DiscoveryTimeout
  <2>2. timers' \in [Services -> 0..MaxAttempts] /\ timers'[s] <= timers[s]
        /\ \A t \in Services \ {s} : timers'[t] = timers[t]
    BY <1>1, <1>2, <2>1, MaxAttemptsAssumption DEF TypeOK
  <2>3. CASE job[s] = "wait" /\ WakeUp(s)
    BY <2>1, <2>2, <2>3, WakeUpStep
  <2>4. CASE UNCHANGED <<job, events>>
    <3>1. TypeOK'
      BY <1>1, <2>1, <2>2, <2>4 DEF TypeOK, fixed, listenerVars, userVars
    <3>2. \A k, t : Raised(k, t)' = Raised(k, t)
      BY <2>4 DEF Raised
    <3>3. EntryInv(s)'
      BY <1>1, <2>1, <2>4, <3>2 DEF EntryInv, listenerVars
    <3>4. AttemptsInv(s)'
      BY <1>1, <1>2, <2>1, <2>2, <2>4, MaxAttemptsAssumption DEF AttemptsInv, listenerVars, TypeOK
    <3>5. InputsInv' /\ accepts' >= accepts
      BY <1>1, <2>1, <3>2, InputsKept, MaxAcceptsAssumption DEF TypeOK, listenerVars
    <3>6. \A t \in Services \ {s} : Same(t)
      BY <2>1, <2>2, <2>4, <3>2 DEF Same, listenerVars
    <3> QED
      BY <3>1, <3>3, <3>4, <3>5, <3>6, StepOfOneService
  <2> QED
    BY <1>4, <2>3, <2>4 DEF DiscoveryTimeout
<1> QED
  BY <1>3, <1>4

LEMMA JobConnectsStep ==
  ASSUME BrokerInv, NEW s \in Services, ConnectToServer(s)
  PROVE  BrokerInv'
<1>1. TypeOK /\ InputsInv /\ EntryInv(s) /\ AttemptsInv(s) /\ events \in [Events -> Nat]
  BY DEF BrokerInv, TypeOK
<1>2. /\ UNCHANGED <<fixed, toBuild, services, numAttempts, timers, listenerVars, client, userVars, finished>>
      /\ job[s] = "connect"
  BY DEF ConnectToServer
<1>3. CASE job' = [job EXCEPT ![s] = "connected"] /\ Raise({Event("connected", s)})
  <2>1. /\ events' \in [Events -> Nat] /\ \A k \in Counted, t \in Services : Raised(k, t) \in Nat
        /\ \A k \in Counted, t \in Services : Raised(k, t)' = Raised(k, t) + One(k = "connected" /\ t = s)
    BY <1>1, <1>3, AfterRaise, EventsDiffer, CountsAreNumbers DEF Counted, Kinds, One
  <2>2. /\ Raised("connected", s)' = Raised("connected", s) + 1 /\ Raised("connected", s) \in Nat
        /\ \A k \in Counted \ {"connected"} : Raised(k, s)' = Raised(k, s)
        /\ \A t \in Services \ {s}, k \in Counted : Raised(k, t)' = Raised(k, t)
    BY <2>1 DEF One, Counted
  <2>3. /\ job' \in [Services -> JobStates] /\ job'[s] = "connected"
        /\ \A t \in Services \ {s} : job'[t] = job[t]
    BY <1>1, <1>3 DEF TypeOK, JobStates
  <2>4. TypeOK'
    BY <1>1, <1>2, <2>1, <2>3 DEF TypeOK, JobStates, fixed, listenerVars, userVars
  <2>5. EntryInv(s)'
    <3>1. UNCHANGED <<services[s], listeners[s], client[s]>> /\ Raised("connectReq", s) \in Nat
      BY <1>2, <2>1 DEF listenerVars, Counted
    <3> QED
      BY <1>1, <1>2, <2>2, <2>3, <3>1 DEF EntryInv, One, Counted
  <2>6. AttemptsInv(s)' /\ accepts' >= accepts
    BY <1>1, <1>2, <2>3, MaxAcceptsAssumption DEF AttemptsInv, listenerVars, TypeOK
  <2>7. InputsInv'
    <3>1. \A t \in Services : Raised("provided", t)' = Raised("provided", t)
      BY <2>2 DEF Counted
    <3> QED
      BY <1>1, <1>2, <3>1, InputsKept
  <2>8. \A t \in Services \ {s} : Same(t)
    BY <1>2, <2>2, <2>3 DEF Same, listenerVars
  <2> QED
    BY <2>4, <2>5, <2>6, <2>7, <2>8, StepOfOneService
<1>4. CASE job' = [job EXCEPT ![s] = "failed"] /\ Raise({Event("disconnected", s)})
  <2>1. /\ events' \in [Events -> Nat]
        /\ \A k \in Counted, t \in Services : Raised(k, t)' = Raised(k, t)
    <3>1. \A x \in {Event("disconnected", s)} \cup {Stop} : x.kind \notin Counted
      BY DEF Event, Stop, Counted
    <3> QED
      BY <1>1, <1>4, <3>1, NotCounted, EventsDiffer
  <2>2. /\ job' \in [Services -> JobStates] /\ job'[s] = "failed"
        /\ \A t \in Services \ {s} : job'[t] = job[t]
    BY <1>1, <1>4 DEF TypeOK, JobStates
  <2>3. TypeOK'
    BY <1>1, <1>2, <2>1, <2>2 DEF TypeOK, JobStates, fixed, listenerVars, userVars
  <2>4. AttemptsInv(s)'
    BY <1>1, <1>2, <2>2 DEF AttemptsInv, listenerVars
  <2> QED
    BY <1>2, <2>1, <2>2, <2>3, <2>4, JobKeepsEntry DEF listenerVars
<1> QED
  BY <1>3, <1>4 DEF ConnectToServer
-----------------------------------------------------------------------------
(* What the users provide when a service becomes available.                *)
LEMMA OfferedIs ==
  ASSUME NEW s \in Services, NEW x \in Offered(s)
  PROVE  \/ s = "camera" /\ Present("frameCoord") /\ x = Event("provided", "color")
         \/ s = "color" /\ Present("grayscale") /\ x = Event("provided", "bw")
<1>1. DOMAIN Wanted = {"frameCoord", "grayscale"} /\ Wanted.frameCoord = "camera" /\ Wanted.grayscale = "color"
  BY DEF Wanted
<1>2. PICK o \in {"frameCoord", "grayscale"} : Present(o) /\ Wanted[o] = s /\ x = Provides(o)
  BY <1>1 DEF Offered
<1>3. Provides("frameCoord") = Event("provided", "color") /\ Provides("grayscale") = Event("provided", "bw")
  BY DEF Provides
<1> QED
  BY <1>1, <1>2, <1>3

LEMMA AvailableStep ==
  ASSUME BrokerInv, NEW s \in Services, ServiceAvailable(s)
  PROVE  BrokerInv'
<1>1. TypeOK /\ InputsInv /\ (\A t \in Services : EntryInv(t) /\ AttemptsInv(t)) /\ events \in [Events -> Nat]
  BY DEF BrokerInv, TypeOK
<1>2. /\ UNCHANGED <<fixed, toBuild, services, jobVars, listenerVars, client, finished>>
      /\ Handle(Event("available", s), Offered(s))
      /\ cameraServiceAvailable' = (cameraServiceAvailable \/ (s = "camera" /\ Present("frameCoord")))
      /\ colorSubscribed' = (colorSubscribed \/ (s = "color" /\ Present("grayscale")))
  BY DEF ServiceAvailable
<1>3. /\ Raised("available", s) > 0 /\ events' \in [Events -> Nat]
      /\ \A k \in Counted, t \in Services :
           /\ Raised(k, t) \in Nat /\ Raised(k, t)' \in Nat
           /\ Raised(k, t)' = Raised(k, t) - One(k = "available" /\ t = s) + One(Event(k, t) \in Offered(s))
  BY <1>1, <1>2, CountsAfterHandle DEF Kinds
<1>4. \A k \in Counted, t \in Services :
        Event(k, t) \in Offered(s) => /\ k = "provided"
                                      /\ \/ s = "camera" /\ t = "color" /\ Present("frameCoord")
                                         \/ s = "color" /\ t = "bw" /\ Present("grayscale")
  BY OfferedIs, EventsDiffer
<1>5. \A t \in Services :
        /\ \A k \in {"provide", "connectReq", "connected", "cfm"} : Raised(k, t)' = Raised(k, t)
        /\ Raised("available", t)' > 0 => Raised("available", t) > 0
        /\ Raised("provided", t)' > 0 => \/ Raised("provided", t) > 0
                                         \/ s = "camera" /\ t = "color" /\ Present("frameCoord")
                                         \/ s = "color" /\ t = "bw" /\ Present("grayscale")
  <2> TAKE t \in Services
  <2>1. \A k \in {"provide", "connectReq", "connected", "cfm"} : Raised(k, t)' = Raised(k, t)
    BY <1>3, <1>4 DEF Counted, One
  <2>2. Raised("available", t)' > 0 => Raised("available", t) > 0
    BY <1>3, <1>4 DEF Counted, One
  <2>3. Raised("provided", t)' = Raised("provided", t) + One(Event("provided", t) \in Offered(s))
        /\ Raised("provided", t) \in Nat
    BY <1>3 DEF Counted, One
  <2> QED
    BY <1>4, <2>1, <2>2, <2>3 DEF One, Counted
<1>6. TypeOK'
  BY <1>1, <1>2, <1>3 DEF TypeOK, fixed, jobVars, listenerVars
<1>7. \A t \in Services : EntryInv(t)' /\ AttemptsInv(t)'
  BY <1>1, <1>2, <1>5 DEF EntryInv, AttemptsInv, jobVars, listenerVars
<1>8. InputsInv'
  <2>1. services[s] \in {"local", "remote"} /\ services["camera"] # "local"
    BY <1>1, <1>3 DEF EntryInv, InputsInv
  <2>2. Raised("provided", "camera")' = 0
    BY <1>1, <1>3, <1>5 DEF InputsInv, Services, Counted
  <2>3. Raised("provided", "bw")' > 0 \/ services'["bw"] = "local" =>
          colorSubscribed' /\ services'["color"] \in {"local", "remote"}
    BY <1>1, <1>2, <1>5, <2>1 DEF InputsInv, Services
  <2>4. Raised("provided", "color")' > 0 \/ services'["color"] = "local" =>
          cameraServiceAvailable' /\ services'["camera"] = "remote"
    BY <1>1, <1>2, <1>5, <2>1 DEF InputsInv, Services
  <2> QED
    BY <1>2, <2>1, <2>2, <2>3, <2>4 DEF InputsInv
<1> QED
  BY <1>6, <1>7, <1>8 DEF BrokerInv
-----------------------------------------------------------------------------
LEMMA BrokerStep == BrokerInv /\ [Next]_vars => BrokerInv'
<1> SUFFICES ASSUME BrokerInv, [Next]_vars PROVE BrokerInv'
  OBVIOUS
<1>1. ASSUME NEW s \in Services, HandleEvent(s) PROVE BrokerInv'
  BY <1>1, ProvidedStep, SubscribeStep, CfmStep, RejStep, PublishStep, ConnectStep, ConnectedStep,
     AvailableStep DEF HandleEvent
<1>2. ASSUME NEW s \in Services, ExecuteJob(s) PROVE BrokerInv'
  BY <1>2, FindStep, JobConnectsStep DEF ExecuteJob
<1>3. ASSUME NEW s \in Services, DiscoveryTimeout(s) \/ SpuriousWakeUp(s) PROVE BrokerInv'
  BY <1>3, TimerStep
<1>4. ASSUME NEW s \in Services, Connections(s) PROVE BrokerInv'
  BY <1>4, AcceptStep, EndServerStep, EndClientStep DEF Connections
<1>5. CASE Construct \/ HandleStop \/ HandleShutdown
  BY <1>5, ConstructStep, StopStep
<1>6. CASE UNCHANGED vars
  <2>1. TypeOK'
    BY <1>6 DEF BrokerInv, TypeOK, vars
  <2>2. \A k, t : Raised(k, t)' = Raised(k, t)
    BY <1>6 DEF vars, Raised
  <2> QED
    BY <1>6, <2>1, <2>2, NothingCounted DEF vars, jobVars, userVars
<1> QED
  BY <1>1, <1>2, <1>3, <1>4, <1>5, <1>6 DEF Next, Proceed

LEMMA BrokerInvHolds == Spec => []BrokerInv
<1> QED
  BY BrokerInit, BrokerStep, PTL DEF Spec

(* In every order of the events, no service is published or looked for     *)
(* twice, a confirmation finds its entry, and what is published has its    *)
(* input (pivision_servicehandler.cpp:24-81, pivision_framecoord.cpp:      *)
(* 28-37, pivision_grayscaleimage.cpp:36-55).                              *)
THEOREM BrokerStaysInOrder == Spec => []BrokerInOrder
<1>1. BrokerInv => BrokerInOrder
  BY BrokerInvSuffices DEF BrokerInOrder
<1> QED
  BY <1>1, BrokerInvHolds, PTL
-----------------------------------------------------------------------------
(* The refinement of the service directory.  An entry, a search, a         *)
(* publication or a connection changes where the directory may; all other  *)
(* steps are stutters of it.                                               *)

LEMMA DirectoryInit == Init => Directory!Init
<1> SUFFICES ASSUME Init PROVE Directory!Init
  OBVIOUS
<1>1. \A s \in Services : Raised("connectReq", s) = 0
  BY EventsDiffer DEF Init, Raised, Kinds
<1>2. \A s \in Services : SearchOf(s) = "none"
  BY <1>1 DEF Init, SearchOf
<1>3. [s \in Services |-> SearchOf(s)] = [s \in Services |-> "none"]
  BY <1>2
<1> QED
  BY <1>3, Zenon DEF Init, Directory!Init

(* A search is asked for, under way, or over.                              *)
LEMMA SearchIs ==
  ASSUME BrokerInv, NEW s \in Services
  PROVE  /\ job[s] = "none" => (Raised("connectReq", s) > 0 <=> SearchOf(s) = "asked")
         /\ job[s] = "none" => (Raised("connectReq", s) = 0 <=> SearchOf(s) = "none")
         /\ Raised("connectReq", s) \in Nat
         /\ job[s] \in {"find", "wait", "connect"} => SearchOf(s) = "asked"
         /\ job[s] = "connected" => SearchOf(s) = "found"
         /\ job[s] = "failed" => SearchOf(s) = "failed"
<1>1. Raised("connectReq", s) \in Nat
  BY CountsAreNumbers DEF BrokerInv, TypeOK, Counted
<1> QED
  BY <1>1 DEF SearchOf

(* Events that ask for no search leave the requests as they are.           *)
LEMMA RequestsStay ==
  ASSUME BrokerInv, NEW raised,
         (\E k \in Kinds \ {"connectReq"}, s \in Services : Handle(Event(k, s), raised))
           \/ Handle(Stop, raised) \/ Handle(Shutdown, raised) \/ Raise(raised),
         \A s \in Services : Event("connectReq", s) \notin raised
  PROVE  \A s \in Services : Raised("connectReq", s)' = Raised("connectReq", s)
<1>1. events \in [Events -> Nat] /\ "connectReq" \in Kinds
  BY DEF BrokerInv, TypeOK, Kinds
<1>2. \A s \in Services : Raised("connectReq", s) \in Nat
  BY <1>1, EventsDiffer DEF Raised
<1>3. ASSUME NEW e \in Events, Handle(e, raised), \A s \in Services : Event("connectReq", s) # e
      PROVE  \A s \in Services : Raised("connectReq", s)' = Raised("connectReq", s)
  <2>1. \A s \in Services : Raised("connectReq", s)' = Raised("connectReq", s) - 0 + 0
    BY <1>1, <1>3, AfterHandle DEF One
  <2> QED
    BY <1>2, <2>1
<1>4. CASE Raise(raised)
  <2>1. \A s \in Services : Raised("connectReq", s)' = Raised("connectReq", s) + 0
    BY <1>1, <1>4, AfterRaise DEF One
  <2> QED
    BY <1>2, <2>1
<1>5. CASE Handle(Stop, raised) \/ Handle(Shutdown, raised)
  BY <1>1, <1>3, <1>5, EventsDiffer
<1>6. ASSUME NEW k \in Kinds \ {"connectReq"}, NEW s \in Services, Handle(Event(k, s), raised)
      PROVE  \A t \in Services : Raised("connectReq", t)' = Raised("connectReq", t)
  <2>1. Event(k, s) \in Events /\ \A t \in Services : Event("connectReq", t) # Event(k, s)
    BY EventsDiffer
  <2> QED
    BY <1>3, <1>6, <2>1
<1> QED
  BY <1>4, <1>5, <1>6

(* The searches after a step that leaves the jobs and their requests as    *)
(* they are, and after one that is about one service.                      *)
LEMMA SearchesStay ==
  ASSUME UNCHANGED job, \A s \in Services : Raised("connectReq", s)' = Raised("connectReq", s)
  PROVE  [s \in Services |-> SearchOf(s)]' = [s \in Services |-> SearchOf(s)]
<1>1. \A s \in Services : SearchOf(s)' = SearchOf(s)
  BY DEF SearchOf
<1> QED
  BY <1>1

LEMMA SearchOfOne ==
  ASSUME NEW s \in Services, NEW new, SearchOf(s)' = new,
         \A t \in Services \ {s} : job'[t] = job[t] /\ Raised("connectReq", t)' = Raised("connectReq", t)
  PROVE  [t \in Services |-> SearchOf(t)]' = [[t \in Services |-> SearchOf(t)] EXCEPT ![s] = new]
<1>1. \A t \in Services \ {s} : SearchOf(t)' = SearchOf(t)
  BY DEF SearchOf
<1> QED
  BY <1>1

LEMMA Stutters ==
  ASSUME UNCHANGED <<services, listeners, client, job>>,
         \A s \in Services : Raised("connectReq", s)' = Raised("connectReq", s)
  PROVE  UNCHANGED Directory!directoryVars
BY SearchesStay DEF Directory!directoryVars
-----------------------------------------------------------------------------
LEMMA AskStep ==
  ASSUME BrokerInv, NEW s \in Services, SubscribeService(s)
  PROVE  Directory!Ask(s) \/ UNCHANGED Directory!directoryVars
<1>1. TypeOK /\ EntryInv(s) /\ events \in [Events -> Nat]
  BY DEF BrokerInv, TypeOK
<1>2. UNCHANGED <<listeners, client, job>>
  BY DEF SubscribeService, jobVars, listenerVars
<1>3. CASE services[s] # "absent"
  <2> DEFINE raised == {e \in {Event("available", s)} : services[s] # "disconnected"}
  <2>1. Handle(Event("subscribe", s), raised) /\ UNCHANGED services
    BY <1>3 DEF SubscribeService
  <2>2. \A t \in Services : Event("connectReq", t) \notin raised
    BY EventsDiffer
  <2>3. "subscribe" \in Kinds \ {"connectReq"}
    BY DEF Kinds
  <2> HIDE DEF raised
  <2>4. \A t \in Services : Raised("connectReq", t)' = Raised("connectReq", t)
    BY <2>1, <2>2, <2>3, RequestsStay
  <2> QED
    BY <1>2, <2>1, <2>4, Stutters
<1>4. CASE services[s] = "absent"
  <2>1. /\ Handle(Event("subscribe", s), {Event("connectReq", s)})
        /\ services' = [services EXCEPT ![s] = "disconnected"]
    BY <1>4 DEF SubscribeService
  <2>2. Counts("subscribe", s, {"connectReq"})
    BY <1>1, <2>1, OneRaised DEF Kinds
  <2>3. /\ Raised("connectReq", s) \in Nat /\ Raised("connectReq", s)' = Raised("connectReq", s) + 1
        /\ \A t \in Services \ {s} : Raised("connectReq", t)' = Raised("connectReq", t)
    BY <2>2 DEF Counts, Counted, One
  <2>4. job[s] = "none" /\ Raised("connectReq", s) = 0
    BY <1>1, <1>4, <2>3 DEF EntryInv, One
  <2>5. SearchOf(s) = "none" /\ SearchOf(s)' = "asked"
    BY <1>2, <2>3, <2>4 DEF SearchOf
  <2>6. [t \in Services |-> SearchOf(t)]' = [[t \in Services |-> SearchOf(t)] EXCEPT ![s] = "asked"]
    BY <1>2, <2>3, <2>5, SearchOfOne
  <2> QED
    BY <1>2, <1>4, <2>1, <2>5, <2>6 DEF Directory!Ask
<1> QED
  BY <1>3, <1>4

LEMMA LearnStep ==
  ASSUME BrokerInv, NEW s \in Services, ConnectCfm(s)
  PROVE  Directory!LearnRemote(s) \/ UNCHANGED Directory!directoryVars
<1>1. UNCHANGED <<listeners, client, job>>
  BY DEF ConnectCfm, jobVars, listenerVars
<1>2. /\ Handle(Event("cfm", s), {Event("available", s)}) \/ Handle(Event("cfm", s), {})
      /\ \/ UNCHANGED services
         \/ services[s] = "disconnected" /\ services' = [services EXCEPT ![s] = "remote"]
  BY DEF ConnectCfm
<1>3. \A t \in Services : Raised("connectReq", t)' = Raised("connectReq", t)
  <2>1. \A t \in Services : Event("connectReq", t) \notin {Event("available", s)} /\ Event("connectReq", t) \notin {}
    BY EventsDiffer
  <2>2. "cfm" \in Kinds \ {"connectReq"}
    BY DEF Kinds
  <2> QED
    BY <1>2, <2>1, <2>2, RequestsStay
<1>4. SearchOf(s) = "found"
  <2>1. Raised("cfm", s) > 0
    BY <1>2 DEF Handle, Raised
  <2> QED
    BY <2>1 DEF BrokerInv, EntryInv, SearchOf
<1>5. [t \in Services |-> SearchOf(t)]' = [t \in Services |-> SearchOf(t)]
  BY <1>1, <1>3, SearchesStay
<1>6. CASE services[s] = "disconnected" /\ services' = [services EXCEPT ![s] = "remote"]
  BY <1>1, <1>4, <1>5, <1>6 DEF Directory!LearnRemote
<1> QED
  BY <1>1, <1>2, <1>3, <1>6, Stutters

LEMMA ProvideStep ==
  ASSUME BrokerInv, NEW s \in Services, ServiceProvided(s)
  PROVE  Directory!Provide(s) \/ UNCHANGED Directory!directoryVars
<1>1. UNCHANGED <<listeners, client, job>>
  BY DEF ServiceProvided, jobVars, listenerVars
<1>2. /\ \/ Handle(Event("provided", s), {Event("available", s), Event("provide", s)})
         \/ Handle(Event("provided", s), {})
      /\ \/ UNCHANGED services
         \/ services[s] \in {"absent", "disconnected"} /\ services' = [services EXCEPT ![s] = "local"]
  BY DEF ServiceProvided
<1>3. \A t \in Services : Raised("connectReq", t)' = Raised("connectReq", t)
  <2>1. \A t \in Services : /\ Event("connectReq", t) \notin {Event("available", s), Event("provide", s)}
                            /\ Event("connectReq", t) \notin {}
    BY EventsDiffer
  <2>2. "provided" \in Kinds \ {"connectReq"}
    BY DEF Kinds
  <2> QED
    BY <1>2, <2>1, <2>2, RequestsStay
<1>4. [t \in Services |-> SearchOf(t)]' = [t \in Services |-> SearchOf(t)]
  BY <1>1, <1>3, SearchesStay
<1>5. CASE services[s] \in {"absent", "disconnected"} /\ services' = [services EXCEPT ![s] = "local"]
  BY <1>1, <1>4, <1>5 DEF Directory!Provide
<1> QED
  BY <1>1, <1>2, <1>3, <1>5, Stutters

LEMMA ListenStep ==
  ASSUME BrokerInv, NEW s \in Services, ProvideService(s)
  PROVE  Directory!Publish(s)
<1>1. TypeOK /\ EntryInv(s) /\ events \in [Events -> Nat]
  BY DEF BrokerInv, TypeOK
<1>2. UNCHANGED <<services, client, job>> /\ listeners' = [listeners EXCEPT ![s] = @ + 1]
  BY DEF ProvideService, jobVars
<1>3. Counts("provide", s, {})
  BY <1>1, NoneRaised DEF ProvideService, Kinds
<1>4. /\ Raised("provide", s) > 0 /\ Raised("provide", s) \in Nat
      /\ \A t \in Services : Raised("connectReq", t)' = Raised("connectReq", t)
  BY <1>3 DEF Counts, Counted, One
<1>5. services[s] = "local" /\ listeners[s] = 0
  <2>1. listeners[s] \in Nat
    BY <1>1 DEF TypeOK
  <2> QED
    BY <1>1, <1>4, <2>1 DEF EntryInv, One
<1>6. [t \in Services |-> SearchOf(t)]' = [t \in Services |-> SearchOf(t)]
  BY <1>2, <1>4, SearchesStay
<1>7. listeners' = [listeners EXCEPT ![s] = 1]
  BY <1>2, <1>5
<1> QED
  BY <1>2, <1>5, <1>6, <1>7 DEF Directory!Publish

LEMMA ConnectionStep ==
  ASSUME BrokerInv, NEW s \in Services, ServiceStatusConnected(s)
  PROVE  Directory!Connect(s)
<1>1. TypeOK /\ EntryInv(s) /\ events \in [Events -> Nat]
  BY DEF BrokerInv, TypeOK
<1>2. UNCHANGED <<services, listeners, job>> /\ client' = [client EXCEPT ![s] = "open"]
  BY DEF ServiceStatusConnected, jobVars, listenerVars
<1>3. Counts("connected", s, {"cfm"})
  BY <1>1, OneRaised DEF ServiceStatusConnected, Kinds
<1>4. /\ Raised("connected", s) > 0 /\ Raised("connected", s) \in Nat
      /\ \A t \in Services : Raised("connectReq", t)' = Raised("connectReq", t)
  BY <1>3 DEF Counts, Counted, One
<1>5. job[s] = "connected" /\ client[s] = "none"
  BY <1>1, <1>4 DEF EntryInv, One
<1>6. SearchOf(s) = "found"
  BY <1>5 DEF SearchOf
<1>7. [t \in Services |-> SearchOf(t)]' = [t \in Services |-> SearchOf(t)]
  BY <1>2, <1>4, SearchesStay
<1> QED
  BY <1>2, <1>5, <1>6, <1>7 DEF Directory!Connect

LEMMA DisconnectStep ==
  ASSUME BrokerInv, NEW s \in Services, EndClient(s)
  PROVE  Directory!Disconnect(s)
<1>1. UNCHANGED <<services, listeners, job>> /\ client[s] = "open" /\ client' = [client EXCEPT ![s] = "ended"]
  BY DEF EndClient, jobVars, listenerVars
<1>2. \A t \in Services : Raised("connectReq", t)' = Raised("connectReq", t)
  <2>1. Raise({Event("disconnected", s)}) /\ \A t \in Services : Event("connectReq", t) \notin {Event("disconnected", s)}
    BY EventsDiffer DEF EndClient
  <2> QED
    BY <2>1, RequestsStay
<1>3. [t \in Services |-> SearchOf(t)]' = [t \in Services |-> SearchOf(t)]
  BY <1>1, <1>2, SearchesStay
<1> QED
  BY <1>1, <1>3 DEF Directory!Disconnect
-----------------------------------------------------------------------------
(* A request for a search becomes a job that searches.                     *)
LEMMA RequestStep ==
  ASSUME BrokerInv, NEW s \in Services, ConnectToService(s)
  PROVE  UNCHANGED Directory!directoryVars
<1>1. TypeOK /\ EntryInv(s) /\ events \in [Events -> Nat]
  BY DEF BrokerInv, TypeOK
<1>2. UNCHANGED <<services, listeners, client>> /\ job' = [job EXCEPT ![s] = "find"]
  BY DEF ConnectToService, listenerVars
<1>3. Counts("connectReq", s, {})
  BY <1>1, NoneRaised DEF ConnectToService, Kinds
<1>4. /\ Raised("connectReq", s) > 0 /\ Raised("connectReq", s) \in Nat
      /\ \A t \in Services \ {s} : Raised("connectReq", t)' = Raised("connectReq", t)
  BY <1>3 DEF Counts, Counted
<1>5. job[s] = "none"
  BY <1>1, <1>4 DEF EntryInv, One
<1>6. job'[s] = "find" /\ \A t \in Services \ {s} : job'[t] = job[t]
  BY <1>1, <1>2 DEF TypeOK
<1>7. SearchOf(s) = "asked" /\ SearchOf(s)' = "asked"
  BY <1>4, <1>5, <1>6 DEF SearchOf
<1>8. [t \in Services |-> SearchOf(t)]' = [[t \in Services |-> SearchOf(t)] EXCEPT ![s] = "asked"]
  BY <1>4, <1>6, <1>7, SearchOfOne
<1>9. [t \in Services |-> SearchOf(t)]' = [t \in Services |-> SearchOf(t)]
  BY <1>7, <1>8
<1> QED
  BY <1>2, <1>9 DEF Directory!directoryVars

(* A job that searches goes on, or ends the search.                        *)
LEMMA SearchStep ==
  ASSUME BrokerInv, NEW s \in Services, NEW j \in {"find", "wait", "connect", "connected", "failed"},
         job[s] \in {"find", "wait", "connect"}, job' = [job EXCEPT ![s] = j],
         UNCHANGED <<services, listeners, client>>,
         \A t \in Services : Raised("connectReq", t)' = Raised("connectReq", t)
  PROVE  Directory!EndSearch(s) \/ UNCHANGED Directory!directoryVars
<1>1. job'[s] = j /\ \A t \in Services \ {s} : job'[t] = job[t]
  BY DEF BrokerInv, TypeOK
<1>2. SearchOf(s) = "asked"
  BY DEF SearchOf
<1>3. CASE j \in {"find", "wait", "connect"}
  <2>1. SearchOf(s)' = "asked"
    BY <1>1, <1>3 DEF SearchOf
  <2>2. [t \in Services |-> SearchOf(t)]' = [[t \in Services |-> SearchOf(t)] EXCEPT ![s] = "asked"]
    BY <1>1, <2>1, SearchOfOne
  <2>3. [t \in Services |-> SearchOf(t)]' = [t \in Services |-> SearchOf(t)]
    BY <1>2, <2>2
  <2> QED
    BY <2>3 DEF Directory!directoryVars
<1>4. CASE j \in {"connected", "failed"}
  <2>1. PICK result \in {"found", "failed"} : SearchOf(s)' = result
    BY <1>1, <1>4 DEF SearchOf
  <2>2. [t \in Services |-> SearchOf(t)]' = [[t \in Services |-> SearchOf(t)] EXCEPT ![s] = result]
    BY <1>1, <2>1, SearchOfOne
  <2> QED
    BY <1>2, <2>2 DEF Directory!EndSearch
<1> QED
  BY <1>3, <1>4

LEMMA JobStep ==
  ASSUME BrokerInv, NEW s \in Services, ExecuteJob(s)
  PROVE  Directory!EndSearch(s) \/ UNCHANGED Directory!directoryVars
<1>1. UNCHANGED <<services, listeners, client>>
  BY DEF ExecuteJob, FindService, FindNothing, ConnectToServer, listenerVars
<1>2. PICK j \in {"find", "wait", "connect", "connected", "failed"} :
        job[s] \in {"find", "wait", "connect"} /\ job' = [job EXCEPT ![s] = j]
  BY DEF ExecuteJob, FindService, FindNothing, ConnectToServer
<1>3. \/ UNCHANGED events \/ Raise({Event("connected", s)}) \/ Raise({Event("disconnected", s)})
  BY DEF ExecuteJob, FindService, FindNothing, ConnectToServer
<1>4. \A t \in Services : Raised("connectReq", t)' = Raised("connectReq", t)
  <2>1. CASE UNCHANGED events
    BY <2>1 DEF Raised
  <2>2. \A t \in Services : /\ Event("connectReq", t) \notin {Event("connected", s)}
                            /\ Event("connectReq", t) \notin {Event("disconnected", s)}
    BY EventsDiffer
  <2> QED
    BY <1>3, <2>1, <2>2, RequestsStay
<1> QED
  BY <1>1, <1>2, <1>4, SearchStep

LEMMA TimeoutStep ==
  ASSUME BrokerInv, NEW s \in Services, DiscoveryTimeout(s) \/ SpuriousWakeUp(s)
  PROVE  Directory!EndSearch(s) \/ UNCHANGED Directory!directoryVars
<1>1. UNCHANGED <<services, listeners, client>>
  BY DEF DiscoveryTimeout, SpuriousWakeUp, listenerVars
<1>2. (job[s] = "wait" /\ WakeUp(s)) \/ UNCHANGED <<job, events>>
  BY DEF DiscoveryTimeout, SpuriousWakeUp
<1>3. CASE job[s] = "wait" /\ WakeUp(s)
  <2>1. PICK j \in {"find", "wait", "connect", "connected", "failed"} : job' = [job EXCEPT ![s] = j]
    BY <1>3 DEF WakeUp
  <2>2. \A t \in Services : Raised("connectReq", t)' = Raised("connectReq", t)
    BY <1>3, WakeUpRaises DEF BrokerInv, TypeOK, Counted
  <2> QED
    BY <1>1, <1>3, <2>1, <2>2, SearchStep
<1>4. CASE UNCHANGED <<job, events>>
  <2>1. \A t \in Services : Raised("connectReq", t)' = Raised("connectReq", t)
    BY <1>4 DEF Raised
  <2> QED
    BY <1>1, <1>4, <2>1, Stutters
<1> QED
  BY <1>2, <1>3, <1>4
-----------------------------------------------------------------------------
(* All that is lost, offered, stopped, accepted or constructed is no       *)
(* matter of the directory.                                                *)
LEMMA ReportStutters ==
  ASSUME BrokerInv, NEW s \in Services,
         ConnectRej(s) \/ ServiceStatusLost(s) \/ ServiceAvailable(s) \/ ServiceUnavailable(s)
  PROVE  UNCHANGED Directory!directoryVars
<1>1. UNCHANGED <<services, listeners, client, job>>
  BY DEF ConnectRej, ServiceStatusLost, ServiceAvailable, ServiceUnavailable, jobVars, listenerVars
<1>2. PICK k \in Kinds \ {"connectReq"}, raised \in {{Event("unavailable", s)}, {Event("rej", s)}, {Stop}, {}, Offered(s)} :
        Handle(Event(k, s), raised)
  <2>1. CASE ConnectRej(s)
    BY <2>1 DEF ConnectRej, Kinds
  <2>2. CASE ServiceStatusLost(s)
    BY <2>2 DEF ServiceStatusLost, Kinds
  <2>3. CASE ServiceAvailable(s)
    BY <2>3 DEF ServiceAvailable, Kinds
  <2>4. CASE ServiceUnavailable(s)
    BY <2>4 DEF ServiceUnavailable, Kinds
  <2> QED
    BY <2>1, <2>2, <2>3, <2>4
<1>3. \A t \in Services : Event("connectReq", t) \notin raised
  <2> TAKE t \in Services
  <2>1. Event("connectReq", t) \notin Offered(s)
    BY OfferedIs, EventsDiffer
  <2>2. Event("connectReq", t) # Stop
    BY EventsDiffer DEF Kinds
  <2>3. Event("connectReq", t) \notin {Event("unavailable", s)} /\ Event("connectReq", t) \notin {Event("rej", s)}
    BY EventsDiffer
  <2> QED
    BY <1>2, <2>1, <2>2, <2>3
<1>4. \A t \in Services : Raised("connectReq", t)' = Raised("connectReq", t)
  BY <1>2, <1>3, RequestsStay
<1> QED
  BY <1>1, <1>4, Stutters

LEMMA ServerStutters ==
  ASSUME BrokerInv, NEW s \in Services, AcceptConnection(s) \/ EndServer(s)
  PROVE  UNCHANGED Directory!directoryVars
<1>1. UNCHANGED <<services, listeners, client, job>>
  BY DEF AcceptConnection, EndServer, jobVars
<1>2. UNCHANGED events \/ Raise({Event("disconnected", s)})
  BY DEF AcceptConnection, EndServer
<1>3. \A t \in Services : Raised("connectReq", t)' = Raised("connectReq", t)
  <2>1. CASE UNCHANGED events
    BY <2>1 DEF Raised
  <2>2. \A t \in Services : Event("connectReq", t) \notin {Event("disconnected", s)}
    BY EventsDiffer
  <2> QED
    BY <1>2, <2>1, <2>2, RequestsStay
<1> QED
  BY <1>1, <1>3, Stutters

LEMMA MainStutters ==
  BrokerInv /\ (Construct \/ HandleStop \/ HandleShutdown) => UNCHANGED Directory!directoryVars
<1> SUFFICES ASSUME BrokerInv, Construct \/ HandleStop \/ HandleShutdown
             PROVE  UNCHANGED Directory!directoryVars
  OBVIOUS
<1>1. UNCHANGED <<services, listeners, client, job>>
  BY DEF Construct, HandleStop, HandleShutdown, jobVars, listenerVars
<1>2. \A t \in Services : Raised("connectReq", t)' = Raised("connectReq", t)
  <2>1. CASE Construct
    <3>1. \A t \in Services : Event("connectReq", t) \notin {Event("subscribe", Wanted[Head(toBuild)])}
      BY EventsDiffer
    <3> QED
      BY <2>1, <3>1, RequestsStay DEF Construct
  <2>2. \A t \in Services : Event("connectReq", t) \notin {Shutdown} /\ Event("connectReq", t) \notin {}
    BY EventsDiffer DEF Kinds
  <2>3. CASE HandleStop
    <3>1. Handle(Stop, {Shutdown}) \/ Handle(Stop, {})
      BY <2>3 DEF HandleStop
    <3> QED
      BY <2>2, <3>1, RequestsStay
  <2>4. CASE HandleShutdown
    <3>1. Handle(Shutdown, {})
      BY <2>4 DEF HandleShutdown
    <3> QED
      BY <2>2, <3>1, RequestsStay
  <2> QED
    BY <2>1, <2>3, <2>4
<1> QED
  BY <1>1, <1>2, Stutters
-----------------------------------------------------------------------------
LEMMA DirectoryStep == BrokerInv /\ [Next]_vars => [Directory!Next]_(Directory!directoryVars)
<1> SUFFICES ASSUME BrokerInv, [Next]_vars
             PROVE  Directory!Next \/ UNCHANGED Directory!directoryVars
  OBVIOUS
<1>1. ASSUME NEW s \in Services, HandleEvent(s)
      PROVE  Directory!Next \/ UNCHANGED Directory!directoryVars
  <2>1. CASE ServiceProvided(s)
    BY <2>1, ProvideStep, Zenon DEF Directory!Next
  <2>2. CASE SubscribeService(s)
    BY <2>2, AskStep, Zenon DEF Directory!Next
  <2>3. CASE ConnectCfm(s)
    BY <2>3, LearnStep, Zenon DEF Directory!Next
  <2>4. CASE ProvideService(s)
    BY <2>4, ListenStep, Zenon DEF Directory!Next
  <2>5. CASE ServiceStatusConnected(s)
    BY <2>5, ConnectionStep, Zenon DEF Directory!Next
  <2>6. CASE ConnectToService(s)
    BY <2>6, RequestStep
  <2>7. CASE ConnectRej(s) \/ ServiceStatusLost(s) \/ ServiceAvailable(s) \/ ServiceUnavailable(s)
    BY <2>7, ReportStutters
  <2> QED
    BY <1>1, <2>1, <2>2, <2>3, <2>4, <2>5, <2>6, <2>7 DEF HandleEvent
<1>2. ASSUME NEW s \in Services, ExecuteJob(s) \/ DiscoveryTimeout(s) \/ SpuriousWakeUp(s)
      PROVE  Directory!Next \/ UNCHANGED Directory!directoryVars
  <2>1. Directory!EndSearch(s) \/ UNCHANGED Directory!directoryVars
    BY <1>2, JobStep, TimeoutStep
  <2> QED
    BY <2>1, Zenon DEF Directory!Next
<1>3. ASSUME NEW s \in Services, Connections(s)
      PROVE  Directory!Next \/ UNCHANGED Directory!directoryVars
  <2>1. CASE EndClient(s)
    BY <2>1, DisconnectStep, Zenon DEF Directory!Next
  <2>2. CASE AcceptConnection(s) \/ EndServer(s)
    BY <2>2, ServerStutters
  <2> QED
    BY <1>3, <2>1, <2>2 DEF Connections
<1>4. CASE Construct \/ HandleStop \/ HandleShutdown
  BY <1>4, MainStutters
<1>5. CASE UNCHANGED vars
  <2>1. UNCHANGED <<services, listeners, client, job, events>>
    BY <1>5 DEF vars, jobVars, listenerVars
  <2>2. \A t \in Services : Raised("connectReq", t)' = Raised("connectReq", t)
    BY <2>1 DEF Raised
  <2> QED
    BY <2>1, <2>2, Stutters
<1> QED
  BY <1>1, <1>2, <1>3, <1>4, <1>5 DEF Next, Proceed

(* Events come in any order, timeouts wake the wrong jobs, connections end *)
(* at any time: the directory keeps its promises                           *)
(* (pivision_servicehandler.cpp:24-81,                                     *)
(* pivision_ethtermconnectservice.cpp:35-149).                             *)
THEOREM BrokerImplementsDirectory == Spec => ImplementsDirectory
<1> QED
  BY BrokerInvHolds, DirectoryInit, DirectoryStep, PTL DEF Spec, ImplementsDirectory, Directory!Spec
=============================================================================
