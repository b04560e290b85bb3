----------------------------- MODULE ThreadPool -----------------------------
(***************************************************************************)
(* src/C/src/external/thread_pool.c: a queue of jobs, a pool of at most    *)
(* MaxThreads worker threads that is grown on demand, and sched_job, which *)
(* queues a job and then looks for an idle worker to notify.               *)
(*                                                                         *)
(* A step is one critical section.  sched_job holds contextMutex from the  *)
(* push of the item to its return and takes every worker's execMutex in    *)
(* turn in between: `cursor' is the worker it looks at next, 0 when        *)
(* contextMutex is free.  A worker's pc is where pool_thread_func stands.  *)
(*                                                                         *)
(* A job is the address of a malloc'ed QueueItem: sched_job's malloc       *)
(* returns an item that is not in use and the worker frees it after the    *)
(* job function returned, so a job can be submitted again once finished.   *)
(*                                                                         *)
(* Left out: maxThreads = 0 (an unlimited pool) and destroy_thread_pool,   *)
(* which no caller uses, so that a thread's `active' flag is always 1; a   *)
(* malloc or pthread_create that fails.                                    *)
(***************************************************************************)
EXTENDS Naturals, Sequences

CONSTANTS Jobs,        \* the addresses malloc can return for a QueueItem
          MaxThreads,  \* init_thread_pool's argument
          NoJob        \* the null QueueItem pointer

ASSUME MaxThreadsAssumption == MaxThreads \in Nat \ {0}
ASSUME NoJobAssumption == NoJob \notin Jobs

VARIABLES jobQueue,    \* ThreadContext.jobQueue, oldest item first
          cursor,      \* sched_job's position in ThreadContext.threads
          numThreads,  \* ThreadContext.numThreads
          busy,        \* Thread.busy of every thread
          pc,          \* where every thread stands
          item         \* pool_thread_func's local `item'

poolVars == <<jobQueue, cursor, numThreads, busy, pc, item>>

(* The slots of the list of threads, in the order create_thread fills it.  *)
Threads == 1..MaxThreads

Queued(j) == \E i \in 1..Len(jobQueue) : jobQueue[i] = j
Running(j) == \E t \in Threads : item[t] = j
Outstanding(j) == Queued(j) \/ Running(j)

PoolInit == /\ jobQueue = << >>
            /\ cursor = 0
            /\ numThreads = 0
            /\ busy = [t \in Threads |-> FALSE]
            /\ pc = [t \in Threads |-> "absent"]
            /\ item = [t \in Threads |-> NoJob]
-----------------------------------------------------------------------------
(* sched_job                                                               *)

(* A plausible wrong push: the new item in front of the queue.             *)
SchedJobInFront(j) ==
  /\ cursor = 0
  /\ ~Outstanding(j)
  /\ jobQueue' = <<j>> \o jobQueue
  /\ cursor' = 1
  /\ UNCHANGED <<numThreads, busy, pc, item>>

(* Lock the pool, allocate an item and append it to the queue.             *)
SchedJob(j) ==
  /\ cursor = 0
  /\ ~Outstanding(j)
  /\ jobQueue' = Append(jobQueue, j)
  /\ cursor' = 1
  /\ UNCHANGED <<numThreads, busy, pc, item>>

(* The thread looked at is idle: mark it busy, signal its condition and    *)
(* return.  Only a thread that waits is woken by the signal.               *)
ClaimIdle(t) ==
  /\ cursor = t
  /\ t <= numThreads
  /\ ~busy[t]
  /\ busy' = [busy EXCEPT ![t] = TRUE]
  /\ pc' = [pc EXCEPT ![t] = IF @ = "waiting" THEN "pop" ELSE @]
  /\ cursor' = 0
  /\ UNCHANGED <<jobQueue, numThreads, item>>

SkipBusy(t) ==
  /\ cursor = t
  /\ t <= numThreads
  /\ busy[t]
  /\ cursor' = t + 1
  /\ UNCHANGED <<jobQueue, numThreads, busy, pc, item>>

(* A plausible wrong growth: the pool's limit is not looked at.            *)
CreateThreadUnlimited ==
  /\ cursor = numThreads + 1
  /\ numThreads' = numThreads + 1
  /\ busy' = [busy EXCEPT ![numThreads + 1] = TRUE]
  /\ pc' = [pc EXCEPT ![numThreads + 1] = "pop"]
  /\ cursor' = 0
  /\ UNCHANGED <<jobQueue, item>>

(* Every thread was busy and the pool may grow: create_thread starts a     *)
(* thread that is busy from the outset.                                    *)
CreateThread ==
  /\ cursor = numThreads + 1
  /\ numThreads < MaxThreads
  /\ numThreads' = numThreads + 1
  /\ busy' = [busy EXCEPT ![numThreads + 1] = TRUE]
  /\ pc' = [pc EXCEPT ![numThreads + 1] = "pop"]
  /\ cursor' = 0
  /\ UNCHANGED <<jobQueue, item>>

(* Every thread was busy and the pool is full: some thread is expected to  *)
(* find the item when it next looks at the queue.                          *)
PoolFull ==
  /\ cursor = numThreads + 1
  /\ numThreads = MaxThreads
  /\ cursor' = 0
  /\ UNCHANGED <<jobQueue, numThreads, busy, pc, item>>
-----------------------------------------------------------------------------
(* pool_thread_func                                                        *)

(* A plausible wrong pop: the item is read but not unlinked.               *)
PopJobAndKeep(t) ==
  /\ pc[t] = "pop"
  /\ jobQueue # << >>
  /\ item' = [item EXCEPT ![t] = Head(jobQueue)]
  /\ pc' = [pc EXCEPT ![t] = "exec"]
  /\ UNCHANGED <<jobQueue, cursor, numThreads, busy>>

PopJob(t) ==
  /\ pc[t] = "pop"
  /\ jobQueue # << >>
  /\ item' = [item EXCEPT ![t] = Head(jobQueue)]
  /\ jobQueue' = Tail(jobQueue)
  /\ pc' = [pc EXCEPT ![t] = "exec"]
  /\ UNCHANGED <<cursor, numThreads, busy>>

PopNothing(t) ==
  /\ pc[t] = "pop"
  /\ jobQueue = << >>
  /\ pc' = [pc EXCEPT ![t] = "markIdle"]
  /\ UNCHANGED <<jobQueue, cursor, numThreads, busy, item>>

(* The job function returns and its item is freed.                         *)
FinishJob(t) ==
  /\ pc[t] = "exec"
  /\ item' = [item EXCEPT ![t] = NoJob]
  /\ pc' = [pc EXCEPT ![t] = "pop"]
  /\ UNCHANGED <<jobQueue, cursor, numThreads, busy>>

MarkIdle(t) ==
  /\ pc[t] = "markIdle"
  /\ busy' = [busy EXCEPT ![t] = FALSE]
  /\ pc' = [pc EXCEPT ![t] = "check"]
  /\ UNCHANGED <<jobQueue, cursor, numThreads, item>>

(* A plausible wrong wait: without looking at `busy' again.                *)
WaitUnchecked(t) ==
  /\ pc[t] = "check"
  /\ pc' = [pc EXCEPT ![t] = "waiting"]
  /\ UNCHANGED <<jobQueue, cursor, numThreads, busy, item>>

(* Wait, unless sched_job claimed this thread since MarkIdle.              *)
CheckNotified(t) ==
  /\ pc[t] = "check"
  /\ pc' = [pc EXCEPT ![t] = IF busy[t] THEN "pop" ELSE "waiting"]
  /\ UNCHANGED <<jobQueue, cursor, numThreads, busy, item>>

(* pthread_cond_wait may return although nobody signalled; the code does   *)
(* not test anything after it.                                             *)
SpuriousWakeup(t) ==
  /\ pc[t] = "waiting"
  /\ pc' = [pc EXCEPT ![t] = "pop"]
  /\ UNCHANGED <<jobQueue, cursor, numThreads, busy, item>>
-----------------------------------------------------------------------------
(* The rest of a sched_job call, once the item is queued.                  *)
Walk == \/ \E t \in Threads : ClaimIdle(t) \/ SkipBusy(t)
        \/ CreateThread
        \/ PoolFull

(* What a worker does between two jobs.                                    *)
BetweenJobs(t) == PopJob(t) \/ PopNothing(t) \/ MarkIdle(t) \/ CheckNotified(t)

(* What the code itself does, on a platform that never wakes a thread      *)
(* without a signal.                                                       *)
SignalledNext ==
  \/ \E j \in Jobs : SchedJob(j)
  \/ Walk
  \/ \E t \in Threads : BetweenJobs(t) \/ FinishJob(t)

PoolNext == SignalledNext \/ \E t \in Threads : SpuriousWakeup(t)

PoolSpec == PoolInit /\ [][PoolNext]_poolVars

(* The operating system runs every thread that can run and gives every     *)
(* mutex to everyone who waits for it, and every job function returns.     *)
(* Nothing obliges a caller to submit or a wait to end without a signal.   *)
PoolFairness == /\ WF_poolVars(Walk)
                /\ \A t \in Threads : WF_poolVars(BetweenJobs(t) \/ FinishJob(t))

FairPoolSpec == PoolSpec /\ PoolFairness
-----------------------------------------------------------------------------
PoolTypeOK ==
  /\ jobQueue \in Seq(Jobs)
  /\ numThreads \in 0..MaxThreads
  /\ cursor \in 0..(numThreads + 1)
  /\ busy \in [Threads -> BOOLEAN]
  /\ pc \in [Threads -> {"absent", "pop", "exec", "markIdle", "check", "waiting"}]
  /\ item \in [Threads -> Jobs \cup {NoJob}]
  /\ \A t \in Threads : /\ pc[t] = "absent" <=> t > numThreads
                        /\ item[t] # NoJob <=> pc[t] = "exec"

(* A queue item is in one place: once in the queue, or with the one thread *)
(* that runs and will free it (thread_pool.c:84-85).  Two threads that pop *)
(* while a third party pushes must neither run an item twice nor free it   *)
(* while it is still linked.                                               *)
JobInOnePlace ==
  /\ \A i, k \in 1..Len(jobQueue) : jobQueue[i] = jobQueue[k] => i = k
  /\ \A i \in 1..Len(jobQueue), t \in Threads : jobQueue[i] # item[t]
  /\ \A t, u \in Threads : item[t] = item[u] /\ item[t] # NoJob => t = u

(* A thread that waits on its condition can be claimed by the next         *)
(* sched_job: busy is 0.  A thread that waited with busy = 1 would be      *)
(* skipped by every sched_job and never run again (thread_pool.c:93-99).   *)
WaiterIsClaimable == \A t \in Threads : pc[t] = "waiting" => ~busy[t]

(* There are jobs in the queue that nobody will look at: all threads wait, *)
(* and no sched_job is under way.                                          *)
Stranded == /\ jobQueue # << >>
            /\ cursor = 0
            /\ \A t \in 1..numThreads : pc[t] = "waiting" /\ ~busy[t]

(* Every queued job is started, as long as the pool always leaves the      *)
(* stranded state again (a later sched_job, or a spurious wakeup): the     *)
(* missed notification is the only way the pool loses a job, and no order  *)
(* of pops, claims and creations starves one.                              *)
ServedUnlessStranded ==
  []<>(~Stranded) => \A j \in Jobs : Queued(j) ~> Running(j)
-----------------------------------------------------------------------------
(* The pool implements the job service: its threads are the servers.       *)
Service == INSTANCE JobService WITH Servers <- Threads,
                                    pending <- jobQueue,
                                    serving <- item

(* Jobs are started in submission order, each by one thread, once.         *)
ImplementsJobService == Service!Spec
=============================================================================
