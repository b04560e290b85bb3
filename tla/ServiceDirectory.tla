-------------------------- MODULE ServiceDirectory --------------------------
(***************************************************************************)
(* What the service directory of the C++ program promises to the objects   *)
(* that provide and want services.  Each service is looked for once at     *)
(* most, and only because it was wanted before it was known; it is known   *)
(* as remote only after the search has found it, and as local only because *)
(* it was provided here; it is published once, and only if it is local;    *)
(* and there is one connection to it at most, after it was found.          *)
(* Nothing is promised about a service that is lost: it is not forgotten,  *)
(* and not looked for again.                                               *)
(*                                                                         *)
(* This is a specification, not a translation: ServiceBroker implements    *)
(* it, with events between the objects and jobs that search.               *)
(***************************************************************************)
EXTENDS Naturals

CONSTANT Services

VARIABLES entry,       \* what is known of a service
          search,      \* how far the search for it has come
          published,   \* how often it has been published
          connection   \* this program's connection to it

directoryVars == <<entry, search, published, connection>>

Init == /\ entry = [s \in Services |-> "absent"]
        /\ search = [s \in Services |-> "none"]
        /\ published = [s \in Services |-> 0]
        /\ connection = [s \in Services |-> "none"]

(* Somebody wants a service nobody knows: the network is asked.            *)
Ask(s) == /\ entry[s] = "absent" /\ search[s] = "none"
          /\ entry' = [entry EXCEPT ![s] = "disconnected"]
          /\ search' = [search EXCEPT ![s] = "asked"]
          /\ UNCHANGED <<published, connection>>

EndSearch(s) == /\ search[s] = "asked"
                /\ \E result \in {"found", "failed"} : search' = [search EXCEPT ![s] = result]
                /\ UNCHANGED <<entry, published, connection>>

(* The search's success reaches the directory, and makes a connection.     *)
LearnRemote(s) == /\ entry[s] = "disconnected" /\ search[s] = "found"
                  /\ entry' = [entry EXCEPT ![s] = "remote"]
                  /\ UNCHANGED <<search, published, connection>>

Connect(s) == /\ search[s] = "found" /\ connection[s] = "none"
              /\ connection' = [connection EXCEPT ![s] = "open"]
              /\ UNCHANGED <<entry, search, published>>

Disconnect(s) == /\ connection[s] = "open"
                 /\ connection' = [connection EXCEPT ![s] = "ended"]
                 /\ UNCHANGED <<entry, search, published>>

(* A service is provided here; a search for it goes on.                    *)
Provide(s) == /\ entry[s] \in {"absent", "disconnected"}
              /\ entry' = [entry EXCEPT ![s] = "local"]
              /\ UNCHANGED <<search, published, connection>>

Publish(s) == /\ entry[s] = "local" /\ published[s] = 0
              /\ published' = [published EXCEPT ![s] = 1]
              /\ UNCHANGED <<entry, search, connection>>

Next == \E s \in Services : \/ Ask(s) \/ EndSearch(s) \/ LearnRemote(s)
                            \/ Connect(s) \/ Disconnect(s)
                            \/ Provide(s) \/ Publish(s)

Spec == Init /\ [][Next]_directoryVars
=============================================================================
