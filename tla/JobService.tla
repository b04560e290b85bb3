----------------------------- MODULE JobService -----------------------------
(***************************************************************************)
(* What the C server's thread pool promises to the code that calls it: a   *)
(* first-in first-out queue of jobs in front of a fixed set of servers.    *)
(* Every submission is handed to one server, once, in submission order,    *)
(* and no server runs two jobs at a time.  Nothing is promised about WHEN  *)
(* a job starts: the pool does not deliver that (see ThreadPool).          *)
(*                                                                         *)
(* This is a specification, not a translation: ThreadPool implements it.   *)
(***************************************************************************)
EXTENDS Sequences, Naturals

CONSTANTS Jobs,     \* the queue items a caller can submit
          Servers,  \* the worker slots
          NoJob     \* what an idle server is serving

VARIABLES pending,  \* the jobs not yet started, oldest first
          serving   \* the job each server is running

jobVars == <<pending, serving>>

Submitted(j) == \/ \E i \in 1..Len(pending) : pending[i] = j
                \/ \E s \in Servers : serving[s] = j

Init == /\ pending = << >>
        /\ serving = [s \in Servers |-> NoJob]

Submit(j) == /\ ~Submitted(j)
             /\ pending' = Append(pending, j)
             /\ UNCHANGED serving

Start(s) == /\ serving[s] = NoJob
            /\ pending # << >>
            /\ serving' = [serving EXCEPT ![s] = Head(pending)]
            /\ pending' = Tail(pending)

Finish(s) == /\ serving[s] # NoJob
             /\ serving' = [serving EXCEPT ![s] = NoJob]
             /\ UNCHANGED pending

Next == \/ \E j \in Jobs : Submit(j)
        \/ \E s \in Servers : Start(s) \/ Finish(s)

Spec == Init /\ [][Next]_jobVars
=============================================================================
