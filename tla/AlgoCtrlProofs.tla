--------------------------- MODULE AlgoCtrlProofs ---------------------------
(***************************************************************************)
(* What the C program's work on an image guarantees: ThreadPool and        *)
(* AlgoCtrl, which extends it, for any set of queue items, any pool size,  *)
(* any frames and any number of parts; and ImageAlgorithms, which says     *)
(* what the jobs compute.                                                  *)
(*                                                                         *)
(* The pool, which knows nothing of its user: its type invariant, that an  *)
(* item is in one place, that a waiting thread is claimable, and that it   *)
(* implements JobService.  PoolInv, the conjunction of the three           *)
(* invariants, is inductive.  The refinement needs it for the submission   *)
(* (an item malloc returns is one the service does not know) and for the   *)
(* start (a thread at the pop has no item).                                *)
(*                                                                         *)
(* The algorithm control: one normalizer at a time, a truthful state, an   *)
(* output that stays put while it is sent, and images that are torn only   *)
(* by a frame that was copied while the normalizer ran.  AlgoInv is        *)
(* inductive.  Its heart is OneJobPending: the main thread submits only    *)
(* after ALGO_COMPLETE, which only a finished job stores, so a job is      *)
(* about to be submitted, or queued, or normalizing, and there is one of   *)
(* them.  The lost wakeup of the pool does not matter here: a stranded job *)
(* is still queued.                                                        *)
(*                                                                         *)
(* The normalizer's results (ImageAlgorithms), for any images of more than *)
(* 255 pixels: the statics carry next to nothing over, and what a crash    *)
(* needs.  A sum over an image is a fold, of which SumsExist and SumBounds *)
(* say what is needed: that it is a sum, and that it lies between          *)
(* multiples of the number of pixels.  AlgorithmsInv adds that the         *)
(* extremes are reset between two runs.                                    *)
(***************************************************************************)
EXTENDS AlgoCtrl, ImageAlgorithms, SequenceTheorems, FiniteSetTheorems, WellFoundedInduction, TLAPS

(* The thread pool                                                         *)

PoolInv == PoolTypeOK /\ JobInOnePlace /\ WaiterIsClaimable

(* What the queue looks like after a push and after a pop.                 *)
LEMMA PushedQueue ==
  ASSUME NEW q \in Seq(Jobs), NEW j \in Jobs
  PROVE  /\ Append(q, j) \in Seq(Jobs)
         /\ Len(Append(q, j)) = Len(q) + 1
         /\ Append(q, j)[Len(q) + 1] = j
         /\ \A i \in 1..Len(q) : Append(q, j)[i] = q[i]
BY AppendProperties

LEMMA PoppedQueue ==
  ASSUME NEW q \in Seq(Jobs), q # << >>
  PROVE  /\ Tail(q) \in Seq(Jobs)
         /\ Len(q) \in Nat \ {0}
         /\ Len(Tail(q)) = Len(q) - 1
         /\ Head(q) = q[1]
         /\ Head(q) \in Jobs
         /\ \A i \in 1..Len(Tail(q)) : Tail(q)[i] = q[i + 1]
BY HeadTailProperties, EmptySeq

LEMMA PoolInvInit == PoolInit => PoolInv
<1> SUFFICES ASSUME PoolInit PROVE PoolInv
  OBVIOUS
<1> USE DEF PoolInit, Threads
<1>1. PoolTypeOK
  BY MaxThreadsAssumption, EmptySeq DEF PoolTypeOK
<1>2. JobInOnePlace
  BY EmptySeq DEF JobInOnePlace
<1>3. WaiterIsClaimable
  BY DEF WaiterIsClaimable
<1> QED
  BY <1>1, <1>2, <1>3 DEF PoolInv

-----------------------------------------------------------------------------
(* The type invariant, one step per action.                                *)
LEMMA TypeStep == PoolTypeOK /\ [PoolNext]_poolVars => PoolTypeOK'
<1> SUFFICES ASSUME PoolTypeOK, [PoolNext]_poolVars
             PROVE  PoolTypeOK'
  OBVIOUS
<1> USE MaxThreadsAssumption, NoJobAssumption DEF PoolTypeOK, Threads
<1>1. ASSUME NEW j \in Jobs, SchedJob(j)
      PROVE  PoolTypeOK'
  BY <1>1, PushedQueue DEF SchedJob
<1>2. ASSUME NEW t \in Threads, ClaimIdle(t)
      PROVE  PoolTypeOK'
  BY <1>2 DEF ClaimIdle
<1>3. ASSUME NEW t \in Threads, SkipBusy(t)
      PROVE  PoolTypeOK'
  BY <1>3 DEF SkipBusy
<1>4. ASSUME CreateThread
      PROVE  PoolTypeOK'
  BY <1>4 DEF CreateThread
<1>5. ASSUME PoolFull
      PROVE  PoolTypeOK'
  BY <1>5 DEF PoolFull
<1>6. ASSUME NEW t \in Threads, PopJob(t)
      PROVE  PoolTypeOK'
  BY <1>6, PoppedQueue DEF PopJob
<1>7. ASSUME NEW t \in Threads, PopNothing(t)
      PROVE  PoolTypeOK'
  BY <1>7 DEF PopNothing
<1>8. ASSUME NEW t \in Threads, FinishJob(t)
      PROVE  PoolTypeOK'
  BY <1>8 DEF FinishJob
<1>9. ASSUME NEW t \in Threads, MarkIdle(t)
      PROVE  PoolTypeOK'
  BY <1>9 DEF MarkIdle
<1>10. ASSUME NEW t \in Threads, CheckNotified(t)
       PROVE  PoolTypeOK'
  BY <1>10 DEF CheckNotified
<1>11. ASSUME NEW t \in Threads, SpuriousWakeup(t)
       PROVE  PoolTypeOK'
  BY <1>11 DEF SpuriousWakeup
<1>12. CASE UNCHANGED poolVars
  BY <1>12 DEF poolVars
<1> QED
  BY <1>1, <1>2, <1>3, <1>4, <1>5, <1>6, <1>7, <1>8, <1>9, <1>10, <1>11, <1>12
  DEF PoolNext, SignalledNext, Walk, BetweenJobs

(* An item enters the queue only when it is nowhere, and moves from the    *)
(* queue to a thread that holds none; no other step moves an item.         *)
LEMMA OnePlaceStep == PoolInv /\ [PoolNext]_poolVars => JobInOnePlace'
<1> SUFFICES ASSUME PoolTypeOK, JobInOnePlace, [PoolNext]_poolVars
             PROVE  JobInOnePlace'
  BY DEF PoolInv
<1> USE NoJobAssumption
<1>1. ASSUME NEW j \in Jobs, SchedJob(j)
      PROVE  JobInOnePlace'
  <2>1. /\ jobQueue \in Seq(Jobs) /\ Len(jobQueue) \in Nat
        /\ jobQueue' = Append(jobQueue, j) /\ item' = item
    BY <1>1, LenProperties DEF SchedJob, PoolTypeOK
  <2>2. /\ \A i \in 1..Len(jobQueue) : jobQueue[i] # j
        /\ \A t \in Threads : item[t] # j
    BY <1>1 DEF SchedJob, Outstanding, Queued, Running
  <2>3. /\ Len(jobQueue') = Len(jobQueue) + 1
        /\ jobQueue'[Len(jobQueue) + 1] = j
        /\ \A i \in 1..Len(jobQueue) : jobQueue'[i] = jobQueue[i]
    BY <2>1, PushedQueue
  <2> QED
    BY <2>1, <2>2, <2>3 DEF JobInOnePlace
<1>2. ASSUME NEW t \in Threads, PopJob(t)
      PROVE  JobInOnePlace'
  <2>1. /\ jobQueue \in Seq(Jobs) /\ jobQueue # << >>
        /\ jobQueue' = Tail(jobQueue)
        /\ item' = [item EXCEPT ![t] = Head(jobQueue)]
        /\ DOMAIN item = Threads
    BY <1>2 DEF PopJob, PoolTypeOK
  <2>2. /\ Len(jobQueue) \in Nat \ {0}
        /\ Len(jobQueue') = Len(jobQueue) - 1
        /\ Head(jobQueue) = jobQueue[1]
        /\ \A i \in 1..Len(jobQueue') : jobQueue'[i] = jobQueue[i + 1]
    BY <2>1, PoppedQueue
  <2>3. \A u \in Threads : item'[u] = IF u = t THEN jobQueue[1] ELSE item[u]
    BY <2>1, <2>2
  <2>4. \A i, k \in 1..Len(jobQueue') : jobQueue'[i] = jobQueue'[k] => i = k
    BY <2>2 DEF JobInOnePlace
  <2>5. \A i \in 1..Len(jobQueue'), u \in Threads : jobQueue'[i] # item'[u]
    BY <2>2, <2>3 DEF JobInOnePlace
  <2>6. \A u, w \in Threads : item'[u] = item'[w] /\ item'[u] # NoJob => u = w
    BY <2>2, <2>3 DEF JobInOnePlace
  <2> QED
    BY <2>4, <2>5, <2>6 DEF JobInOnePlace
<1>3. ASSUME NEW t \in Threads, FinishJob(t)
      PROVE  JobInOnePlace'
  <2>1. /\ jobQueue' = jobQueue /\ DOMAIN item = Threads
        /\ \A u \in Threads : item'[u] = IF u = t THEN NoJob ELSE item[u]
    BY <1>3 DEF FinishJob, PoolTypeOK
  <2>2. \A i \in 1..Len(jobQueue) : jobQueue[i] \in Jobs
    BY ElementOfSeq DEF PoolTypeOK
  <2> QED
    BY <2>1, <2>2 DEF JobInOnePlace
<1>4. CASE UNCHANGED <<jobQueue, item>>
  BY <1>4 DEF JobInOnePlace
<1> QED
  BY <1>1, <1>2, <1>3, <1>4
  DEF PoolNext, SignalledNext, Walk, BetweenJobs, ClaimIdle, SkipBusy, CreateThread,
      PoolFull, PopNothing, MarkIdle, CheckNotified, SpuriousWakeup, poolVars

(* A thread starts to wait only with busy = 0, and the claim that sets     *)
(* busy takes it out of the wait in the same critical section.             *)
LEMMA ClaimableStep == PoolInv /\ [PoolNext]_poolVars => WaiterIsClaimable'
<1> SUFFICES ASSUME PoolTypeOK, WaiterIsClaimable, [PoolNext]_poolVars
             PROVE  WaiterIsClaimable'
  BY DEF PoolInv
<1> USE DEF PoolTypeOK, WaiterIsClaimable, Threads
<1>1. ASSUME NEW t \in Threads, ClaimIdle(t)
      PROVE  WaiterIsClaimable'
  BY <1>1 DEF ClaimIdle
<1>2. ASSUME CreateThread
      PROVE  WaiterIsClaimable'
  BY <1>2 DEF CreateThread
<1>3. ASSUME NEW t \in Threads, BetweenJobs(t) \/ FinishJob(t) \/ SpuriousWakeup(t)
      PROVE  WaiterIsClaimable'
  BY <1>3 DEF BetweenJobs, PopJob, PopNothing, FinishJob, MarkIdle, CheckNotified,
              SpuriousWakeup
<1>4. CASE UNCHANGED <<pc, busy>>
  BY <1>4
<1> QED
  BY <1>1, <1>2, <1>3, <1>4
  DEF PoolNext, SignalledNext, Walk, SchedJob, SkipBusy, PoolFull, poolVars

(* PoolInv is an invariant of the pool for every Jobs and MaxThreads.      *)
THEOREM PoolInvariant == PoolSpec => []PoolInv
<1>1. PoolInv /\ [PoolNext]_poolVars => PoolInv'
  BY TypeStep, OnePlaceStep, ClaimableStep DEF PoolInv
<1> QED
  BY PoolInvInit, <1>1, PTL DEF PoolSpec

(* The state of the pool keeps its shape: the list of threads holds        *)
(* exactly the threads created, and a thread has an item exactly while it  *)
(* runs one.                                                               *)
THEOREM PoolTypeCorrect == PoolSpec => []PoolTypeOK
<1>1. PoolInv => PoolTypeOK
  BY DEF PoolInv
<1> QED
  BY PoolInvariant, <1>1, PTL

(* A queue item is linked once or held by one thread: no job runs twice    *)
(* and no item is freed while it is in the queue.                          *)
THEOREM JobStaysInOnePlace == PoolSpec => []JobInOnePlace
<1>1. PoolInv => JobInOnePlace
  BY DEF PoolInv
<1> QED
  BY PoolInvariant, <1>1, PTL

(* A thread that waits can be claimed by the next sched_job.               *)
THEOREM WaitersStayClaimable == PoolSpec => []WaiterIsClaimable
<1>1. PoolInv => WaiterIsClaimable
  BY DEF PoolInv
<1> QED
  BY PoolInvariant, <1>1, PTL
-----------------------------------------------------------------------------
(* The refinement: the push is the service's Submit, the pop its Start,    *)
(* the return of the job function its Finish; every other step is a        *)
(* stutter of the service.                                                 *)
LEMMA ServiceInit == PoolInit => Service!Init
BY DEF PoolInit, Service!Init

LEMMA ServiceStep ==
  PoolInv /\ [PoolNext]_poolVars => [Service!Next]_(Service!jobVars)
<1> SUFFICES ASSUME PoolTypeOK, [PoolNext]_poolVars
             PROVE  [Service!Next]_(Service!jobVars)
  BY DEF PoolInv
<1>1. ASSUME NEW j \in Jobs, SchedJob(j)
      PROVE  Service!Submit(j)
  BY <1>1 DEF SchedJob, Outstanding, Queued, Running, Service!Submit, Service!Submitted
<1>2. ASSUME NEW t \in Threads, PopJob(t)
      PROVE  Service!Start(t)
  BY <1>2 DEF PopJob, PoolTypeOK, Service!Start
<1>3. ASSUME NEW t \in Threads, FinishJob(t)
      PROVE  Service!Finish(t)
  BY <1>3 DEF FinishJob, PoolTypeOK, Service!Finish
<1>4. CASE UNCHANGED <<jobQueue, item>>
  BY <1>4 DEF Service!jobVars
<1> QED
  BY <1>1, <1>2, <1>3, <1>4
  DEF PoolNext, SignalledNext, Walk, BetweenJobs, ClaimIdle, SkipBusy, CreateThread,
      PoolFull, PopNothing, MarkIdle, CheckNotified, SpuriousWakeup, poolVars,
      Service!Next

(* The pool implements the job service.                                    *)
THEOREM PoolImplementsService == PoolSpec => ImplementsJobService
<1>1. PoolInv /\ [PoolNext]_poolVars => [Service!Next]_(Service!jobVars)
  BY ServiceStep
<1> QED
  BY PoolInvariant, ServiceInit, <1>1, PTL
  DEF PoolSpec, ImplementsJobService, Service!Spec

-----------------------------------------------------------------------------
(* The algorithm control, on top of the pool                               *)

(* One job at most is pending, in one of three places.                     *)
OneJobPending ==
  /\ Len(jobQueue) <= 1
  /\ jobQueue # << >> => ctrlPc # "sched" /\ \A t \in Threads : ~Normalizing(t)
  /\ ctrlPc = "sched" => \A t \in Threads : ~Normalizing(t)
  /\ ctrlPc = "sending" => algoState = "COMPLETE"

(* What the copy and the passes have produced so far is of one frame, and  *)
(* equal to the input unless that was overwritten.                         *)
PassesFollowInput ==
  /\ ctrlPc = "copy" => \A p \in Parts : p < copyPart => recBuffer[p] = camFrame
  /\ ctrlPc = "dispatch" => \A p \in Parts : recBuffer[p] = camFrame
  /\ algoState = "RUNNING" /\ ~overwritten => OneFrame(recBuffer)
  /\ \A t \in Threads : ~overwritten =>
       /\ phase[t] = "gray" =>
            \A p \in Parts : p < part[t] => grayscaleImage[p] = recBuffer[p]
       /\ phase[t] = "normalize" =>
            /\ grayscaleImage = recBuffer
            /\ \A p \in Parts : p < part[t] => normalizedImage[p] = recBuffer[p]
       /\ phase[t] = "complete" => normalizedImage = recBuffer

ControlInv == AlgoTypeOK /\ OneNormalizer /\ RunningIffJobPending /\ OneJobPending
AlgoInv == ControlInv /\ PassesFollowInput /\ TornOnlyByDrop
-----------------------------------------------------------------------------
LEMMA AlgoInvInit == AlgoInit => AlgoInv
<1> SUFFICES ASSUME AlgoInit PROVE AlgoInv
  OBVIOUS
<1> USE NumPartsAssumption DEF AlgoInit, Parts, Blank
<1>1. PoolTypeOK
  BY PoolInvInit DEF PoolInv
<1>2. AlgoTypeOK
  <2>1. 1 \in Parts /\ Blank \in Image
    BY DEF Image
  <2>2. \A t \in Threads : phase[t] = "none" /\ pc[t] # "exec"
    BY DEF PoolInit
  <2>3. phase \in [Threads -> Phases] /\ part \in [Threads -> Parts] /\ cursor = 0
    BY <2>1 DEF Phases, PoolInit
  <2> HIDE DEF Parts
  <2> QED
    BY <1>1, <2>1, <2>2, <2>3 DEF AlgoTypeOK
<1>3. jobQueue = << >> /\ Len(jobQueue) = 0
  BY DEF PoolInit
<1>4. OneNormalizer /\ RunningIffJobPending /\ OneJobPending
  BY <1>3 DEF OneNormalizer, RunningIffJobPending, OneJobPending, Normalizing
<1>5. PassesFollowInput /\ TornOnlyByDrop
  BY DEF PassesFollowInput, TornOnlyByDrop
<1> QED
  BY <1>2, <1>4, <1>5 DEF AlgoInv, ControlInv

(* How a thread moves through the parts and phases of its job.             *)
LEMMA AdvanceMoves ==
  ASSUME AlgoTypeOK, NEW t \in Threads, NEW next \in Phases, Advance(t, next)
  PROVE  /\ phase' \in [Threads -> Phases]
         /\ part' \in [Threads -> Parts]
         /\ \A u \in Threads : u # t => phase'[u] = phase[u] /\ part'[u] = part[u]
         /\ part[t] = NumParts => phase'[t] = next
         /\ part[t] # NumParts => phase'[t] = phase[t] /\ part'[t] = part[t] + 1
BY NumPartsAssumption DEF AlgoTypeOK, Advance, Parts

(* Every step of AlgoCtrl is a step of the pool, or leaves it alone.       *)
LEMMA StepOfPool == [AlgoNext]_algoVars => [PoolNext]_poolVars
<1> SUFFICES ASSUME AlgoNext PROVE [PoolNext]_poolVars
  BY DEF algoVars, poolVars
<1>1. CASE MainStep
  BY <1>1 DEF MainStep, BeginSend, EndSend, NothingToSend, FetchNothing, FetchFrame,
     CopyPart, Dispatch, DropFrame, CallSchedJob, SchedJobStep, PoolNext, SignalledNext
<1>2. ASSUME NEW t \in Threads, WorkerStep(t)
      PROVE  [PoolNext]_poolVars
  BY <1>2 DEF WorkerStep, BeginJob, GrayscalePart, NormalizePart, Complete, EndJob,
     GoIdle, PoolNext, SignalledNext, BetweenJobs
<1>3. ASSUME NEW t \in Threads, WakeSpuriously(t)
      PROVE  [PoolNext]_poolVars
  BY <1>3 DEF WakeSpuriously, PoolNext
<1> QED
  BY <1>1, <1>2, <1>3 DEF AlgoNext, SignalledAlgoNext

LEMMA AlgoTypeStep == AlgoTypeOK /\ [AlgoNext]_algoVars => AlgoTypeOK'
<1> SUFFICES ASSUME AlgoTypeOK, [AlgoNext]_algoVars
             PROVE  AlgoTypeOK'
  OBVIOUS
<1>1. PoolTypeOK'
  BY StepOfPool, TypeStep DEF AlgoTypeOK
<1> USE <1>1, NumPartsAssumption, MaxThreadsAssumption DEF AlgoTypeOK, Image, Parts, Phases
<1>2. CASE BeginSend \/ EndSend \/ NothingToSend \/ FetchNothing \/ DropFrame
  BY <1>2 DEF BeginSend, EndSend, NothingToSend, FetchNothing, DropFrame, poolVars, workVars
<1>3. ASSUME NEW f \in Frames, FetchFrame(f)
      PROVE  AlgoTypeOK'
  BY <1>3 DEF FetchFrame, poolVars, workVars
<1>4. CASE CopyPart
  BY <1>4 DEF CopyPart, poolVars, workVars
<1>5. CASE Dispatch
  BY <1>5 DEF Dispatch, poolVars, workVars
<1>6. ASSUME NEW j \in Jobs, CallSchedJob(j)
      PROVE  AlgoTypeOK'
  BY <1>6 DEF CallSchedJob, SchedJob, workVars
<1>7. CASE SchedJobStep
  <2>1. \A t \in Threads : pc'[t] = "exec" <=> pc[t] = "exec"
    BY <1>7 DEF SchedJobStep, Walk, ClaimIdle, SkipBusy, CreateThread, PoolFull,
       PoolTypeOK, Threads
  <2> QED
    BY <1>7, <2>1 DEF SchedJobStep, workVars
<1>8. ASSUME NEW t \in Threads, BeginJob(t)
      PROVE  AlgoTypeOK'
  BY <1>8 DEF BeginJob, PopJob, ctrlVars, PoolTypeOK
<1>9. ASSUME NEW t \in Threads, GrayscalePart(t) \/ NormalizePart(t)
      PROVE  AlgoTypeOK'
  <2>1. /\ phase[t] \in {"gray", "normalize"}
        /\ phase' \in [Threads -> Phases]
        /\ part' \in [Threads -> Parts]
        /\ \A u \in Threads : phase'[u] = "none" <=> phase[u] = "none"
    <3>1. CASE GrayscalePart(t)
      BY <3>1, AdvanceMoves, "normalize" \in Phases DEF GrayscalePart, Phases
    <3>2. CASE NormalizePart(t)
      BY <3>2, AdvanceMoves, "complete" \in Phases DEF NormalizePart, Phases
    <3> QED
      BY <1>9, <3>1, <3>2
  <2>2. grayscaleImage' \in Image /\ normalizedImage' \in Image
    BY <1>9 DEF GrayscalePart, NormalizePart
  <2>3. UNCHANGED <<poolVars, ctrlVars, algoState>>
    BY <1>9 DEF GrayscalePart, NormalizePart
  <2> QED
    BY <2>1, <2>2, <2>3 DEF ctrlVars, poolVars
<1>10. ASSUME NEW t \in Threads, Complete(t)
       PROVE  AlgoTypeOK'
  BY <1>10 DEF Complete, ctrlVars, poolVars
<1>11. ASSUME NEW t \in Threads, EndJob(t)
       PROVE  AlgoTypeOK'
  BY <1>11 DEF EndJob, FinishJob, ctrlVars, PoolTypeOK
<1>12. ASSUME NEW t \in Threads, GoIdle(t) \/ WakeSpuriously(t)
       PROVE  AlgoTypeOK'
  <2>1. UNCHANGED <<ctrlVars, workVars, algoState>>
    BY <1>12 DEF GoIdle, WakeSpuriously
  <2>2. \A u \in Threads : pc'[u] = "exec" <=> pc[u] = "exec"
    <3>1. pc \in [Threads -> {"absent", "pop", "exec", "markIdle", "check", "waiting"}]
      BY DEF PoolTypeOK
    <3>2. CASE PopNothing(t)
      BY <3>1, <3>2 DEF PopNothing
    <3>3. CASE MarkIdle(t)
      BY <3>1, <3>3 DEF MarkIdle
    <3>4. CASE CheckNotified(t)
      BY <3>1, <3>4 DEF CheckNotified
    <3>5. CASE SpuriousWakeup(t)
      BY <3>1, <3>5 DEF SpuriousWakeup
    <3> QED
      BY <1>12, <3>2, <3>3, <3>4, <3>5 DEF GoIdle, WakeSpuriously
  <2>3. /\ UNCHANGED <<ctrlPc, algoState, camFrame, copyPart, recBuffer>>
        /\ UNCHANGED <<grayscaleImage, normalizedImage, phase, part, overwritten>>
    BY <2>1, Zenon DEF ctrlVars, workVars
  <2>4. \A u \in Threads : phase'[u] = "none" <=> pc'[u] # "exec"
    BY <2>2, <2>3, Zenon DEF AlgoTypeOK
  <2>5. cursor' = cursor
    BY <1>12 DEF GoIdle, WakeSpuriously, PopNothing, MarkIdle, CheckNotified, SpuriousWakeup
  <2> QED
    BY <2>3, <2>4, <2>5, Zenon DEF AlgoTypeOK
<1>13. CASE UNCHANGED algoVars
  BY <1>13 DEF algoVars, ctrlVars, workVars, poolVars
<1> QED
  BY <1>2, <1>3, <1>4, <1>5, <1>6, <1>7, <1>8, <1>9, <1>10, <1>11, <1>12, <1>13
  DEF AlgoNext, SignalledAlgoNext, MainStep, WorkerStep
-----------------------------------------------------------------------------
(* One job at a time.  The cases that leave jobs, states and phases alone  *)
(* are together in the first step.                                         *)
LEMMA ControlStep == ControlInv /\ [AlgoNext]_algoVars => ControlInv'
<1> SUFFICES ASSUME ControlInv, [AlgoNext]_algoVars
             PROVE  ControlInv'
  OBVIOUS
<1>1. AlgoTypeOK /\ AlgoTypeOK' /\ PoolTypeOK
  BY AlgoTypeStep DEF ControlInv, AlgoTypeOK
<1> DEFINE Job == OneNormalizer /\ RunningIffJobPending /\ OneJobPending
<1>2. Job
  BY DEF ControlInv
<1> USE DEF OneNormalizer, RunningIffJobPending, OneJobPending, Normalizing
<1>3. CASE /\ UNCHANGED <<jobQueue, algoState, phase>>
           /\ ctrlPc' # "sched" /\ ctrlPc # "sched"
           /\ ctrlPc' = "sending" => algoState = "COMPLETE"
  BY <1>1, <1>2, <1>3 DEF ControlInv
<1>4. CASE Dispatch
  BY <1>1, <1>2, <1>4 DEF Dispatch, poolVars, workVars, ControlInv
<1>5. ASSUME NEW j \in Jobs, CallSchedJob(j)
      PROVE  ControlInv'
  <2>1. jobQueue = << >> /\ Len(jobQueue) = 0
    BY <1>2, <1>5, EmptySeq DEF CallSchedJob
  <2>2. Len(jobQueue') = 1 /\ jobQueue' # << >>
    BY <1>1, <1>5, <2>1, AppendProperties DEF CallSchedJob, SchedJob, PoolTypeOK
  <2> QED
    BY <1>1, <1>2, <1>5, <2>1, <2>2 DEF CallSchedJob, workVars, ControlInv
<1>6. ASSUME NEW t \in Threads, BeginJob(t)
      PROVE  ControlInv'
  <2>1. /\ jobQueue \in Seq(Jobs) /\ jobQueue # << >> /\ jobQueue' = Tail(jobQueue)
        /\ Len(jobQueue) <= 1
    BY <1>1, <1>2, <1>6 DEF BeginJob, PopJob, PoolTypeOK
  <2>2. Len(jobQueue') = 0 /\ jobQueue' = << >>
    <3>1. /\ jobQueue' \in Seq(Jobs) /\ Len(jobQueue) \in Nat \ {0}
          /\ Len(jobQueue') = Len(jobQueue) - 1
      BY <2>1, PoppedQueue
    <3>2. Len(jobQueue') = 0
      BY <2>1, <3>1
    <3> QED
      BY <3>1, <3>2, EmptySeq
  <2>3. /\ \A u \in Threads : phase'[u] = IF u = t THEN "gray" ELSE phase[u]
        /\ UNCHANGED <<algoState, ctrlPc>>
    BY <1>1, <1>6 DEF BeginJob, AlgoTypeOK, ctrlVars
  <2> QED
    BY <1>1, <1>2, <2>1, <2>2, <2>3 DEF ControlInv
<1>7. ASSUME NEW t \in Threads, GrayscalePart(t) \/ NormalizePart(t)
      PROVE  ControlInv'
  <2>1. /\ \A u \in Threads : u # t => phase'[u] = phase[u]
        /\ Normalizing(t) /\ Normalizing(t)'
    <3>1. CASE GrayscalePart(t)
      BY <1>1, <3>1, AdvanceMoves, "normalize" \in Phases DEF GrayscalePart, Phases
    <3>2. CASE NormalizePart(t)
      BY <1>1, <3>2, AdvanceMoves, "complete" \in Phases DEF NormalizePart, Phases
    <3> QED
      BY <1>7, <3>1, <3>2
  <2>2. \A u \in Threads : Normalizing(u)' <=> Normalizing(u)
    BY <2>1
  <2>3. UNCHANGED <<jobQueue, algoState, ctrlPc>>
    BY <1>7 DEF GrayscalePart, NormalizePart, ctrlVars, poolVars
  <2> QED
    BY <1>1, <1>2, <2>2, <2>3 DEF ControlInv
<1>8. ASSUME NEW t \in Threads, Complete(t)
      PROVE  ControlInv'
  <2>1. Normalizing(t) /\ \A u \in Threads : ~Normalizing(u)'
    BY <1>1, <1>2, <1>8 DEF Complete, AlgoTypeOK
  <2>2. /\ algoState' = "COMPLETE" /\ UNCHANGED <<jobQueue, ctrlPc>>
        /\ jobQueue = << >> /\ ctrlPc # "sched"
    BY <1>2, <1>8, <2>1 DEF Complete, ctrlVars, poolVars
  <2> QED
    BY <1>1, <1>2, <2>1, <2>2 DEF ControlInv
<1>9. ASSUME NEW t \in Threads, EndJob(t)
      PROVE  ControlInv'
  <2>1. \A u \in Threads : Normalizing(u)' <=> Normalizing(u)
    BY <1>1, <1>9 DEF EndJob, AlgoTypeOK
  <2>2. UNCHANGED <<jobQueue, algoState, ctrlPc>>
    BY <1>9 DEF EndJob, FinishJob, ctrlVars
  <2> QED
    BY <1>1, <1>2, <2>1, <2>2 DEF ControlInv
<1>10. ASSUME NEW t \in Threads, GoIdle(t) \/ WakeSpuriously(t)
       PROVE  ControlInv'
  BY <1>1, <1>2, <1>10 DEF GoIdle, WakeSpuriously, PopNothing, MarkIdle, CheckNotified,
     SpuriousWakeup, ctrlVars, workVars, ControlInv
<1>11. CASE UNCHANGED algoVars
  BY <1>1, <1>2, <1>11 DEF algoVars, ctrlVars, workVars, poolVars, ControlInv
<1>12. ASSUME BeginSend \/ EndSend \/ NothingToSend \/ FetchNothing \/ CopyPart
              \/ DropFrame \/ SchedJobStep \/ \E f \in Frames : FetchFrame(f)
       PROVE  ControlInv'
  <2>1. UNCHANGED <<jobQueue, algoState, phase>>
    BY <1>12 DEF BeginSend, EndSend, NothingToSend, FetchNothing, CopyPart, DropFrame,
       SchedJobStep, FetchFrame, poolVars, workVars, Walk, ClaimIdle, SkipBusy,
       CreateThread, PoolFull
  <2>2. /\ ctrlPc' # "sched" /\ ctrlPc # "sched"
        /\ ctrlPc' = "sending" => algoState = "COMPLETE"
    BY <1>12 DEF BeginSend, EndSend, NothingToSend, FetchNothing, CopyPart, DropFrame,
       SchedJobStep, FetchFrame
  <2> QED
    BY <1>3, <2>1, <2>2
<1> QED
  BY <1>4, <1>5, <1>6, <1>7, <1>8, <1>9, <1>10, <1>11, <1>12
  DEF AlgoNext, SignalledAlgoNext, MainStep, WorkerStep

-----------------------------------------------------------------------------
(* The data: between a dispatch and its completion nothing but CopyPart    *)
(* writes the input, and CopyPart then sets `overwritten'.                 *)
LEMMA DataStep == AlgoInv /\ [AlgoNext]_algoVars => PassesFollowInput' /\ TornOnlyByDrop'
<1> SUFFICES ASSUME AlgoInv, [AlgoNext]_algoVars
             PROVE  PassesFollowInput' /\ TornOnlyByDrop'
  OBVIOUS
<1>1. AlgoTypeOK /\ OneNormalizer /\ RunningIffJobPending /\ OneJobPending
  BY DEF AlgoInv, ControlInv
<1>2. PassesFollowInput /\ TornOnlyByDrop
  BY DEF AlgoInv
<1>3. \A t \in Threads : phase[t] \in {"gray", "normalize", "complete"} => algoState = "RUNNING"
  BY <1>1 DEF RunningIffJobPending, Normalizing
<1> USE DEF PassesFollowInput, TornOnlyByDrop, OneFrame
<1>4. CASE /\ UNCHANGED <<camFrame, recBuffer, overwritten, grayscaleImage, normalizedImage,
                          phase, part, algoState>>
           /\ ctrlPc' \notin {"copy", "dispatch"}
  BY <1>2, <1>4
<1>5. ASSUME NEW f \in Frames, FetchFrame(f)
      PROVE  PassesFollowInput' /\ TornOnlyByDrop'
  BY <1>1, <1>2, <1>5 DEF FetchFrame, workVars, poolVars, Parts
<1>6. CASE CopyPart
  <2>1. /\ recBuffer' = [recBuffer EXCEPT ![copyPart] = camFrame]
        /\ overwritten' = (overwritten \/ algoState = "RUNNING")
        /\ UNCHANGED <<camFrame, algoState, grayscaleImage, normalizedImage, phase, part>>
        /\ ctrlPc = "copy" /\ copyPart \in Parts /\ recBuffer \in Image
    BY <1>1, <1>6 DEF CopyPart, workVars, AlgoTypeOK
  <2>2. /\ ctrlPc' = "copy" => copyPart # NumParts /\ copyPart' = copyPart + 1
        /\ ctrlPc' = "dispatch" => copyPart = NumParts
        /\ ctrlPc' \in {"copy", "dispatch"}
    BY <1>6 DEF CopyPart
  <2>3. \A p \in Parts : p <= copyPart => recBuffer'[p] = camFrame
    BY <1>2, <2>1, NumPartsAssumption DEF Image, Parts
  <2>4. algoState = "RUNNING" => overwritten'
    BY <2>1
  <2>5. ctrlPc' = "copy" => \A p \in Parts : p < copyPart' => recBuffer'[p] = camFrame'
    BY <2>1, <2>2, <2>3, NumPartsAssumption DEF Parts
  <2>6. ctrlPc' = "dispatch" => \A p \in Parts : recBuffer'[p] = camFrame'
    BY <2>1, <2>2, <2>3, NumPartsAssumption DEF Parts
  <2>7. \A t \in Threads : ~overwritten' => phase'[t] \notin {"gray", "normalize", "complete"}
    BY <1>3, <2>1, <2>4
  <2>8. PassesFollowInput'
    BY <2>1, <2>4, <2>5, <2>6, <2>7
  <2>9. TornOnlyByDrop'
    BY <1>2, <2>1
  <2> QED
    BY <2>8, <2>9
<1>7. CASE Dispatch
  <2>1. /\ ctrlPc = "dispatch" /\ ctrlPc' = "sched" /\ algoState # "RUNNING"
        /\ algoState' = "RUNNING"
        /\ UNCHANGED <<recBuffer, grayscaleImage, normalizedImage, phase, part>>
    BY <1>7 DEF Dispatch, workVars
  <2>2. \A t \in Threads : phase'[t] \notin {"gray", "normalize", "complete"}
    BY <1>3, <2>1
  <2> QED
    BY <1>2, <2>1, <2>2
<1>8. ASSUME NEW t \in Threads, BeginJob(t)
      PROVE  PassesFollowInput' /\ TornOnlyByDrop'
  <2>1. /\ \A u \in Threads : u # t => phase'[u] = phase[u] /\ part'[u] = part[u]
        /\ phase'[t] = "gray" /\ part'[t] = 1
        /\ UNCHANGED <<ctrlVars, grayscaleImage, normalizedImage, algoState>>
    BY <1>1, <1>8 DEF BeginJob, AlgoTypeOK
  <2>2. \A p \in Parts : ~(p < 1)
    BY NumPartsAssumption DEF Parts
  <2> QED
    BY <1>2, <2>1, <2>2 DEF ctrlVars
<1>9. ASSUME NEW t \in Threads, GrayscalePart(t)
      PROVE  PassesFollowInput' /\ TornOnlyByDrop'
  <2>1. /\ phase[t] = "gray" /\ part[t] \in Parts /\ grayscaleImage \in Image
        /\ recBuffer \in Image
        /\ grayscaleImage' = [grayscaleImage EXCEPT ![part[t]] = recBuffer[part[t]]]
        /\ UNCHANGED <<ctrlVars, normalizedImage, algoState>>
    BY <1>1, <1>9 DEF GrayscalePart, AlgoTypeOK
  <2>2. /\ \A u \in Threads : u # t => phase'[u] = phase[u] /\ part'[u] = part[u]
        /\ part[t] = NumParts => phase'[t] = "normalize" /\ part'[t] = 1
        /\ part[t] # NumParts => phase'[t] = phase[t] /\ part'[t] = part[t] + 1
    BY <1>1, <1>9 DEF GrayscalePart, Advance, AlgoTypeOK
  <2>3. \A u \in Threads : u # t => phase'[u] \notin {"gray", "normalize", "complete"}
    BY <1>1, <2>1, <2>2 DEF OneNormalizer, Normalizing
  <2>4. ~overwritten => \A p \in Parts : p <= part[t] => grayscaleImage'[p] = recBuffer[p]
    BY <1>2, <2>1, NumPartsAssumption DEF Image, Parts
  <2>5. CASE part[t] = NumParts
    <3>1. ~overwritten => grayscaleImage' = recBuffer
      BY <2>1, <2>4, <2>5, NumPartsAssumption DEF Image, Parts
    <3>2. \A p \in Parts : ~(p < 1)
      BY NumPartsAssumption DEF Parts
    <3> QED
      BY <1>2, <2>1, <2>2, <2>3, <2>5, <3>1, <3>2 DEF ctrlVars
  <2>6. CASE part[t] # NumParts
    <3>1. \A p \in Parts : p < part[t] + 1 => p <= part[t]
      BY <2>1, NumPartsAssumption DEF Parts
    <3> QED
      BY <1>2, <2>1, <2>2, <2>3, <2>4, <2>6, <3>1 DEF ctrlVars
  <2> QED
    BY <2>5, <2>6
<1>10. ASSUME NEW t \in Threads, NormalizePart(t)
       PROVE  PassesFollowInput' /\ TornOnlyByDrop'
  <2>1. /\ phase[t] = "normalize" /\ part[t] \in Parts /\ normalizedImage \in Image
        /\ recBuffer \in Image
        /\ normalizedImage' = [normalizedImage EXCEPT ![part[t]] = grayscaleImage[part[t]]]
        /\ UNCHANGED <<ctrlVars, grayscaleImage, algoState>>
    BY <1>1, <1>10 DEF NormalizePart, AlgoTypeOK
  <2>2. /\ \A u \in Threads : u # t => phase'[u] = phase[u] /\ part'[u] = part[u]
        /\ part[t] = NumParts => phase'[t] = "complete" /\ part'[t] = 1
        /\ part[t] # NumParts => phase'[t] = phase[t] /\ part'[t] = part[t] + 1
    BY <1>1, <1>10 DEF NormalizePart, Advance, AlgoTypeOK
  <2>3. \A u \in Threads : u # t => phase'[u] \notin {"gray", "normalize", "complete"}
    BY <1>1, <2>1, <2>2 DEF OneNormalizer, Normalizing
  <2>4. ~overwritten => \A p \in Parts : p <= part[t] => normalizedImage'[p] = recBuffer[p]
    BY <1>2, <2>1, NumPartsAssumption DEF Image, Parts
  <2>5. algoState' = "RUNNING" /\ algoState = "RUNNING"
    BY <1>3, <2>1
  <2>6. CASE part[t] = NumParts
    <3>1. ~overwritten => normalizedImage' = recBuffer
      BY <2>1, <2>4, <2>6, NumPartsAssumption DEF Image, Parts
    <3> QED
      BY <1>2, <2>1, <2>2, <2>3, <2>5, <2>6, <3>1 DEF ctrlVars
  <2>7. CASE part[t] # NumParts
    <3>1. \A p \in Parts : p < part[t] + 1 => p <= part[t]
      BY <2>1, NumPartsAssumption DEF Parts
    <3> QED
      BY <1>2, <2>1, <2>2, <2>3, <2>4, <2>5, <2>7, <3>1 DEF ctrlVars
  <2> QED
    BY <2>6, <2>7
<1>11. ASSUME NEW t \in Threads, Complete(t)
       PROVE  PassesFollowInput' /\ TornOnlyByDrop'
  <2>1. /\ phase[t] = "complete" /\ algoState = "RUNNING" /\ algoState' = "COMPLETE"
        /\ UNCHANGED <<ctrlVars, grayscaleImage, normalizedImage, part>>
        /\ \A u \in Threads : phase'[u] = IF u = t THEN "return" ELSE phase[u]
    BY <1>1, <1>3, <1>11 DEF Complete, AlgoTypeOK
  <2> QED
    BY <1>2, <2>1 DEF ctrlVars
<1>12. ASSUME NEW t \in Threads, EndJob(t)
       PROVE  PassesFollowInput' /\ TornOnlyByDrop'
  <2>1. /\ UNCHANGED <<ctrlVars, grayscaleImage, normalizedImage, part, algoState>>
        /\ \A u \in Threads : phase'[u] = IF u = t THEN "none" ELSE phase[u]
    BY <1>1, <1>12 DEF EndJob, AlgoTypeOK
  <2> QED
    BY <1>2, <2>1 DEF ctrlVars
<1>13. ASSUME NEW t \in Threads, GoIdle(t) \/ WakeSpuriously(t)
       PROVE  PassesFollowInput' /\ TornOnlyByDrop'
  BY <1>2, <1>13 DEF GoIdle, WakeSpuriously, ctrlVars, workVars
<1>14. CASE UNCHANGED algoVars
  BY <1>2, <1>14 DEF algoVars, ctrlVars, workVars
<1>15. ASSUME BeginSend \/ EndSend \/ NothingToSend \/ FetchNothing \/ DropFrame
              \/ SchedJobStep \/ \E j \in Jobs : CallSchedJob(j)
       PROVE  PassesFollowInput' /\ TornOnlyByDrop'
  BY <1>4, <1>15 DEF BeginSend, EndSend, NothingToSend, FetchNothing, DropFrame,
     SchedJobStep, CallSchedJob, workVars
<1> QED
  BY <1>5, <1>6, <1>7, <1>8, <1>9, <1>10, <1>11, <1>12, <1>13, <1>14, <1>15
  DEF AlgoNext, SignalledAlgoNext, MainStep, WorkerStep

THEOREM AlgoInvariant == AlgoSpec => []AlgoInv
<1>1. AlgoInv /\ [AlgoNext]_algoVars => AlgoInv'
  BY ControlStep, DataStep DEF AlgoInv
<1> QED
  BY AlgoInvInit, <1>1, PTL DEF AlgoSpec

(* The normalizer's static images have one user at a time.                 *)
THEOREM NormalizerRunsAlone == AlgoSpec => []OneNormalizer
<1>1. AlgoInv => OneNormalizer
  BY DEF AlgoInv, ControlInv
<1> QED
  BY AlgoInvariant, <1>1, PTL

(* ALGO_RUNNING means that a job is there which will store ALGO_COMPLETE,  *)
(* and nothing else does.                                                  *)
THEOREM StateIsTruthful == AlgoSpec => []RunningIffJobPending
<1>1. AlgoInv => RunningIffJobPending
  BY DEF AlgoInv, ControlInv
<1> QED
  BY AlgoInvariant, <1>1, PTL

(* A result is of one frame unless a frame was copied during the run.      *)
THEOREM ImagesTornOnlyByDrops == AlgoSpec => []TornOnlyByDrop
<1>1. AlgoInv => TornOnlyByDrop
  BY DEF AlgoInv
<1> QED
  BY AlgoInvariant, <1>1, PTL

(* What is being sent is not written: a writer would be normalizing, and   *)
(* the state would be ALGO_RUNNING.                                        *)
THEOREM OutputIsStable == AlgoSpec => OutputStableWhileSending
<1>1. AlgoInv /\ [AlgoNext]_algoVars
        => [ctrlPc = "sending" => normalizedImage' = normalizedImage]_algoVars
  <2> SUFFICES ASSUME AlgoInv, AlgoNext, ctrlPc = "sending"
               PROVE  normalizedImage' = normalizedImage
    BY DEF algoVars, workVars
  <2>1. \A t \in Threads : phase[t] # "normalize"
    BY DEF AlgoInv, ControlInv, OneJobPending, RunningIffJobPending, Normalizing
  <2>2. CASE MainStep
    BY <2>2 DEF MainStep, BeginSend, EndSend, NothingToSend, FetchNothing, FetchFrame,
       CopyPart, Dispatch, DropFrame, CallSchedJob, SchedJobStep, workVars
  <2>3. ASSUME NEW t \in Threads, WorkerStep(t) \/ WakeSpuriously(t)
        PROVE  normalizedImage' = normalizedImage
    BY <2>1, <2>3 DEF WorkerStep, BeginJob, GrayscalePart, NormalizePart, Complete,
       EndJob, GoIdle, WakeSpuriously, workVars
  <2> QED
    BY <2>2, <2>3 DEF AlgoNext, SignalledAlgoNext
<1> QED
  BY AlgoInvariant, <1>1, PTL DEF AlgoSpec, OutputStableWhileSending

(* Composing does not change the pool: a run of ALGOCTRL is a run of the   *)
(* pool, so every theorem about PoolSpec holds in it.                      *)
THEOREM AlgoCtrlRunsThePool == AlgoSpec => PoolSpec
<1>1. AlgoInit => PoolInit
  BY DEF AlgoInit
<1> QED
  BY <1>1, StepOfPool, PTL DEF AlgoSpec, PoolSpec
-----------------------------------------------------------------------------
(* What the normalizer computes, from one image to the next                *)

(* A set of numbers that is not empty has a least one.                     *)
LEMMA LeastNumber ==
  ASSUME NEW T \in SUBSET Nat, T # {}
  PROVE  \E x \in T : \A y \in T : x <= y
<1>1. PICK R : /\ IsWellFoundedOn(R, Nat)
               /\ \A x, y \in Nat : <<x, y>> \in R <=> x < y
  <2>1. \A x, y \in Nat : <<x, y>> \in OpToRel(<, Nat) <=> x < y
    BY DEF OpToRel
  <2> QED
    BY <2>1, NatLessThanWellFounded, Zenon
<1>2. PICK x \in T : \A y \in T : ~ (<<y, x>> \in R)
  <2>1. IsWellFoundedOn(R, Nat) /\ T \subseteq Nat
    BY <1>1
  <2> QED
    BY <2>1, WFMin, Zenon
<1>3. \A y \in T : ~ (y < x)
  BY <1>1, <1>2, Zenon
<1> QED
  BY <1>3

(* g holds the sums of f over the subsets of S, as a fold makes them: over *)
(* one element, whichever, and over the others.                            *)
Some(s) == CHOOSE x \in s : TRUE
IsSums(g, f, subsets) == g = [s \in subsets |-> IF s = {} THEN 0 ELSE f[Some(s)] + g[s \ {Some(s)}]]

(* There are such sums: over the subsets of at most n elements there are,  *)
(* because there are over those of fewer.                                  *)
LEMMA SumsExist ==
  ASSUME NEW S, IsFiniteSet(S), NEW f
  PROVE  \E g : IsSums(g, f, SUBSET S)
<1> DEFINE Few(n) == {s \in SUBSET S : Cardinality(s) <= n}
           Bad == {n \in Nat : ~ \E g : IsSums(g, f, Few(n))}
<1>1. Cardinality(S) \in Nat /\ Few(Cardinality(S)) = SUBSET S
  BY FS_CardinalityType, FS_Subset
<1>2. SUFFICES ASSUME Bad # {}
               PROVE  FALSE
  BY <1>1
<1>3. PICK m \in Bad : \A n \in Bad : m <= n
  <2>1. Bad \in SUBSET Nat
    OBVIOUS
  <2> HIDE DEF Bad
  <2> QED
    BY <1>2, <2>1, LeastNumber
<1>4. m # 0
  <2> SUFFICES ASSUME m = 0 PROVE FALSE
    OBVIOUS
  <2>1. \A s \in Few(0) : s = {}
    <3> TAKE s \in Few(0)
    <3>1. IsFiniteSet(s)
      BY FS_Subset
    <3> QED
      BY <3>1, FS_CardinalityType, FS_EmptySet
  <2>2. IsSums([s \in Few(0) |-> 0], f, Few(0))
    BY <2>1 DEF IsSums
  <2> QED
    BY <2>2
<1>5. m - 1 \in Nat /\ m - 1 \notin Bad
  <2>1. m \in Nat
    OBVIOUS
  <2>2. m - 1 \in Nat /\ ~ (m <= m - 1)
    BY <1>4, <2>1
  <2> HIDE DEF Bad
  <2> QED
    BY <1>3, <2>2, Zenon
<1>6. PICK g : IsSums(g, f, Few(m - 1))
  BY <1>5
<1> DEFINE more == [s \in Few(m) |-> IF s = {} THEN 0 ELSE f[Some(s)] + g[s \ {Some(s)}]]
<1>7. \A s \in Few(m) : s # {} => s \ {Some(s)} \in Few(m - 1)
  <2> TAKE s \in Few(m)
  <2>1. IsFiniteSet(s) /\ Cardinality(s) \in Nat /\ m \in Nat
    BY FS_Subset, FS_CardinalityType
  <2>2. s # {} => Some(s) \in s
    BY Zenon DEF Some
  <2> QED
    <3>1. ASSUME s # {}
          PROVE  Cardinality(s \ {Some(s)}) = Cardinality(s) - 1
      BY <2>1, <2>2, <3>1, FS_RemoveElement
    <3>2. s \ {Some(s)} \in SUBSET S
      OBVIOUS
    <3> QED
      BY <2>1, <3>1, <3>2
<1>8. \A s \in Few(m - 1) : s \in Few(m) /\ more[s] = g[s]
  <2> TAKE s \in Few(m - 1)
  <2>1. s \in Few(m)
    <3>1. Cardinality(s) \in Nat /\ m \in Nat
      BY FS_Subset, FS_CardinalityType
    <3> QED
      BY <3>1
  <2>2. g[s] = IF s = {} THEN 0 ELSE f[Some(s)] + g[s \ {Some(s)}]
    BY <1>6, Zenon DEF IsSums
  <2> QED
    BY <2>1, <2>2, Zenon
<1>9. IsSums(more, f, Few(m))
  <2>1. \A s \in Few(m) : s # {} => more[s \ {Some(s)}] = g[s \ {Some(s)}]
    BY <1>7, <1>8, Zenon
  <2> HIDE DEF Few
  <2>2. more = [s \in Few(m) |-> IF s = {} THEN 0 ELSE f[Some(s)] + more[s \ {Some(s)}]]
    BY <2>1
  <2> QED
    BY <2>2, Zenon DEF IsSums
<1> QED
  BY <1>3, <1>9

(* What SumFunction is: the last of the sums.                              *)
LEMMA SumIsLastSum ==
  ASSUME NEW f, IsFiniteSet(DOMAIN f)
  PROVE  \E g : IsSums(g, f, SUBSET DOMAIN f) /\ SumFunction(f) = g[DOMAIN f]
<1> DEFINE sums == CHOOSE g : IsSums(g, f, SUBSET DOMAIN f)
<1>1. IsSums(sums, f, SUBSET DOMAIN f)
  BY SumsExist, Zenon
<1>2. SumFunction(f) = sums[DOMAIN f]
  BY Zenon DEF SumFunction, SumFunctionOnSet, FoldFunctionOnSet, MapThenFoldSet, IsSums, Some
<1> QED
  BY <1>1, <1>2

(* A sum whose every term lies between multiples of the terms of another.  *)
LEMMA SumBounds ==
  ASSUME NEW f, NEW h, IsFiniteSet(DOMAIN f), DOMAIN h = DOMAIN f,
         NEW lo \in Int, NEW hi \in Int,
         \A x \in DOMAIN f : f[x] \in Int /\ h[x] \in Int /\ lo * f[x] <= h[x] /\ h[x] <= hi * f[x]
  PROVE  /\ SumFunction(f) \in Int /\ SumFunction(h) \in Int
         /\ lo * SumFunction(f) <= SumFunction(h) /\ SumFunction(h) <= hi * SumFunction(f)
<1> DEFINE S == DOMAIN f
<1>1. PICK F : IsSums(F, f, SUBSET S) /\ SumFunction(f) = F[S]
  BY SumIsLastSum, Zenon
<1>2. PICK H : IsSums(H, h, SUBSET S) /\ SumFunction(h) = H[S]
  BY SumIsLastSum, Zenon
<1> DEFINE Between(s) == F[s] \in Int /\ H[s] \in Int /\ lo * F[s] <= H[s] /\ H[s] <= hi * F[s]
           Bad == {n \in Nat : \E s \in SUBSET S : Cardinality(s) = n /\ ~ Between(s)}
<1>3. \A s \in SUBSET S : Cardinality(s) \in Nat /\ IsFiniteSet(s)
  BY FS_Subset, FS_CardinalityType
<1>4. ASSUME Bad # {}
      PROVE  FALSE
  <2>1. PICK m \in Bad : \A n \in Bad : m <= n
    <3>1. Bad \in SUBSET Nat
      OBVIOUS
    <3> HIDE DEF Bad
    <3> QED
      BY <1>4, <3>1, LeastNumber
  <2>2. PICK s \in SUBSET S : Cardinality(s) = m /\ ~ Between(s)
    OBVIOUS
  <2> DEFINE x == Some(s)
             rest == s \ {x}
  <2>3. /\ F[s] = IF s = {} THEN 0 ELSE f[x] + F[rest]
        /\ H[s] = IF s = {} THEN 0 ELSE h[x] + H[rest]
    BY <1>1, <1>2, Zenon DEF IsSums
  <2>4. s # {}
    BY <2>2, <2>3
  <2>5. x \in s /\ x \in S /\ rest \in SUBSET S
    BY <2>4, Zenon DEF Some
  <2>6. Between(rest)
    <3>1. Cardinality(rest) = m - 1 /\ m \in Nat /\ Cardinality(rest) \in Nat
      BY <1>3, <2>2, <2>5, FS_RemoveElement
    <3>2. Cardinality(rest) \notin Bad
      <4>1. ~ (m <= Cardinality(rest))
        BY <3>1
      <4> HIDE DEF Bad, rest
      <4> QED
        BY <2>1, <4>1, Zenon
    <3> QED
      BY <2>5, <3>1, <3>2, Zenon
  <2>7. /\ f[x] \in Int /\ h[x] \in Int /\ lo * f[x] <= h[x] /\ h[x] <= hi * f[x]
    BY <2>5
  <2>8. /\ f[x] + F[rest] \in Int /\ h[x] + H[rest] \in Int
        /\ lo * (f[x] + F[rest]) <= h[x] + H[rest] /\ h[x] + H[rest] <= hi * (f[x] + F[rest])
    <3> HIDE DEF x, rest
    <3>1. \A a, b, c, d \in Int :
             lo * a <= b /\ lo * c <= d => lo * (a + c) <= b + d
      OBVIOUS
    <3>2. \A a, b, c, d \in Int :
             b <= hi * a /\ d <= hi * c => b + d <= hi * (a + c)
      OBVIOUS
    <3> QED
      BY <2>6, <2>7, <3>1, <3>2
  <2> QED
    BY <2>2, <2>3, <2>4, <2>8, Zenon
<1>5. Between(S)
  BY <1>3, <1>4
<1> QED
  BY <1>1, <1>2, <1>5, Zenon

-----------------------------------------------------------------------------
(* Division and products, by what they are bounded by.                     *)
LEMMA DivBounds ==
  ASSUME NEW a \in Int, NEW n \in Nat \ {0}
  PROVE  a \div n \in Int /\ n * (a \div n) <= a /\ a < n * (a \div n + 1)
OBVIOUS

LEMMA SmallerFactor ==
  ASSUME NEW n \in Nat \ {0}, NEW a \in Int, NEW b \in Int, n * a < n * b
  PROVE  a < b
OBVIOUS

LEMMA ModOfWord ==
  ASSUME NEW a \in Int, NEW n \in Nat \ {0}
  PROVE  a % n \in 0..(n - 1) /\ (a \in 0..(n - 1) => a % n = a)
OBVIOUS

(* Every number has a root, rounded down.                                  *)
LEMMA RootExists ==
  ASSUME NEW v \in Nat
  PROVE  \E root \in 0..v : root * root <= v /\ v < (root + 1) * (root + 1)
<1> DEFINE Above == {k \in Nat : k * k > v}
<1>1. v + 1 \in Above
  OBVIOUS
<1>2. PICK k \in Above : \A j \in Above : k <= j
  <2>1. Above \in SUBSET Nat
    OBVIOUS
  <2> HIDE DEF Above
  <2> QED
    BY <1>1, <2>1, LeastNumber
<1>3. k # 0
  OBVIOUS
<1>4. k - 1 \in Nat /\ k - 1 \notin Above
  <2>1. k - 1 \in Nat /\ ~ (k <= k - 1)
    BY <1>3
  <2> HIDE DEF Above
  <2> QED
    BY <1>2, <2>1, Zenon
<1>5. (k - 1) * (k - 1) <= v /\ v < k * k
  BY <1>4
<1>6. k - 1 <= (k - 1) * (k - 1)
  BY <1>4
<1> QED
  BY <1>4, <1>5, <1>6

LEMMA DeviationIsRoot ==
  ASSUME NEW gray, NEW average, Spread(gray, average) \in Int, ImageSize \in Nat \ {0}
  PROVE  /\ Deviation(gray, average) \in Nat
         /\ Deviation(gray, average) = 0 =>
              Spread(gray, average) < ImageSize \/ Spread(gray, average) >= WordRange
<1> DEFINE spread == Spread(gray, average)
           variance == (spread % WordRange) \div ImageSize
           IsRoot(root) == root * root <= variance /\ variance < (root + 1) * (root + 1)
<1>1. spread % WordRange \in Nat /\ (spread \in 0..(WordRange - 1) => spread % WordRange = spread)
  BY ModOfWord, WordRangeAssumption
<1>2. variance \in Nat /\ (variance = 0 => spread % WordRange < ImageSize)
  <2> HIDE DEF spread
  <2>1. /\ variance \in Int /\ ImageSize * variance <= spread % WordRange
        /\ spread % WordRange < ImageSize * (variance + 1)
    BY <1>1, DivBounds
  <2> HIDE DEF variance
  <2>2. ImageSize * 0 < ImageSize * (variance + 1)
    BY <1>1, <2>1
  <2>3. 0 < variance + 1
    BY <2>1, <2>2, SmallerFactor
  <2> QED
    BY <2>1, <2>3
<1>3. Deviation(gray, average) = CHOOSE root \in 0..variance : IsRoot(root)
  BY DEF Deviation
<1> HIDE DEF variance, spread
<1>4. \E root \in 0..variance : IsRoot(root)
  BY <1>2, RootExists
<1>5. Deviation(gray, average) \in 0..variance /\ IsRoot(Deviation(gray, average))
  <2> HIDE DEF IsRoot
  <2> QED
    BY <1>3, <1>4, Zenon
<1>6. Deviation(gray, average) = 0 => variance = 0
  BY <1>2, <1>5
<1>7. Deviation(gray, average) = 0 => spread < ImageSize \/ spread >= WordRange
  BY <1>1, <1>2, <1>6, WordRangeAssumption DEF spread
<1> QED
  BY <1>2, <1>5, <1>7 DEF spread

(* The extremes of a set of bytes.                                         *)
LEMMA Extremes ==
  ASSUME NEW T \in SUBSET (0..255), T # {}
  PROVE  /\ Max(T) \in T /\ \A x \in T : x <= Max(T)
         /\ Min(T) \in T /\ \A x \in T : Min(T) <= x
<1>1. \E x \in T : \A y \in T : x <= y
  <2>1. T \in SUBSET Nat
    OBVIOUS
  <2> QED
    BY <2>1, LeastNumber
<1>2. \E x \in T : \A y \in T : x >= y
  <2> DEFINE Below == {255 - x : x \in T}
  <2>1. Below \in SUBSET Nat /\ Below # {}
    <3>1. \A x \in T : 255 - x \in Nat
      OBVIOUS
    <3>2. PICK x \in T : TRUE
      OBVIOUS
    <3>3. 255 - x \in Below
      OBVIOUS
    <3> QED
      BY <3>1, <3>3
  <2>2. PICK d \in Below : \A e \in Below : d <= e
    <3> HIDE DEF Below
    <3> QED
      BY <2>1, LeastNumber
  <2>3. PICK x \in T : d = 255 - x
    OBVIOUS
  <2>4. \A y \in T : d <= 255 - y
    BY <2>2
  <2> QED
    BY <2>3, <2>4
<1>3. Min(T) \in T /\ \A x \in T : Min(T) <= x
  BY <1>1, Zenon DEF Min
<1>4. Max(T) \in T /\ \A x \in T : Max(T) >= x
  BY <1>2, Zenon DEF Max
<1>5. \A x, y \in 0..255 : x >= y => y <= x
  OBVIOUS
<1>6. \A x \in T : x \in 0..255
  OBVIOUS
<1> QED
  BY <1>3, <1>4, <1>5, <1>6, Zenon
-----------------------------------------------------------------------------
(* What an image is made of.                                               *)
LEMMA ColorsAreBytes ==
  ASSUME NEW image \in Images \cup {Black}, NEW r \in Regions
  PROVE  image[r][1] \in 0..255 /\ image[r][2] \in 0..255 /\ image[r][3] \in 0..255
<1>1. image[r] \in (0..255) \X (0..255) \X (0..255)
  <2>1. CASE image \in Images
    BY <2>1, ColorsAssumption DEF Images
  <2>2. CASE image = Black
    BY <2>2 DEF Black
  <2> QED
    BY <2>1, <2>2
<1> QED
  BY <1>1

LEMMA GraysAreBytes ==
  ASSUME NEW image \in Images \cup {Black}
  PROVE  Gray(image) \in [Regions -> 0..255]
<1>1. \A a, b, c \in 0..255 : (a + b + c) \div 3 \in 0..255
  OBVIOUS
<1>2. \A r \in Regions : (image[r][1] + image[r][2] + image[r][3]) \div 3 \in 0..255
  <2> TAKE r \in Regions
  <2>1. image[r][1] \in 0..255 /\ image[r][2] \in 0..255 /\ image[r][3] \in 0..255
    BY ColorsAreBytes
  <2> QED
    BY <1>1, <2>1, Zenon
<1> QED
  BY <1>2 DEF Gray

LEMMA FilteredBetween ==
  ASSUME NEW gray \in [Regions -> 0..255]
  PROVE  Filtered(gray) \in [Regions -> 20..240]
BY DEF Filtered

(* The sums over an image.                                                 *)
LEMMA ImageSizeBounds == ImageSize \in Nat \ {0} /\ ImageSize > 255
<1>1. SumFunction(Area) \in Int
  <2>1. \A r \in DOMAIN Area : Area[r] \in Int /\ 1 * Area[r] <= Area[r] /\ Area[r] <= 1 * Area[r]
    BY AreaAssumption
  <2>2. 1 \in Int /\ \A r \in DOMAIN Area : Area[r] \in Int
    BY <2>1
  <2> QED
    BY <2>1, <2>2, AreaAssumption, SumBounds, Zenon
<1> QED
  BY <1>1, AreaAssumption DEF ImageSize

LEMMA TotalBounds ==
  ASSUME NEW f \in [Regions -> Int], NEW lo \in Int, NEW hi \in Int,
         \A r \in Regions : lo <= f[r] /\ f[r] <= hi
  PROVE  Total(f) \in Int /\ lo * ImageSize <= Total(f) /\ Total(f) <= hi * ImageSize
<1> DEFINE weighted == [r \in Regions |-> Area[r] * f[r]]
<1>1. \A a \in Nat \ {0}, x \in Int : lo <= x /\ x <= hi => lo * a <= a * x /\ a * x <= hi * a
  OBVIOUS
<1>2. \A r \in DOMAIN Area :
         Area[r] \in Int /\ weighted[r] \in Int /\ lo * Area[r] <= weighted[r] /\ weighted[r] <= hi * Area[r]
  BY <1>1, AreaAssumption DEF Regions
<1>3. DOMAIN weighted = DOMAIN Area
  BY DEF Regions
<1> HIDE DEF weighted
<1>4. /\ SumFunction(weighted) \in Int /\ lo * SumFunction(Area) <= SumFunction(weighted)
      /\ SumFunction(weighted) <= hi * SumFunction(Area)
  BY <1>2, <1>3, AreaAssumption, SumBounds
<1> QED
  BY <1>4, Zenon DEF Total, ImageSize, weighted

LEMMA TotalIsInteger ==
  ASSUME NEW f \in [Regions -> Int]
  PROVE  Total(f) \in Int
<1> DEFINE weighted == [r \in Regions |-> Area[r] * f[r]]
<1>1. \A r \in DOMAIN weighted :
         weighted[r] \in Int /\ 1 * weighted[r] <= weighted[r] /\ weighted[r] <= 1 * weighted[r]
  BY AreaAssumption DEF Regions
<1>2. IsFiniteSet(DOMAIN weighted)
  BY AreaAssumption DEF Regions
<1> HIDE DEF weighted
<1>3. SumFunction(weighted) \in Int
  <2>1. 1 \in Int
    OBVIOUS
  <2> QED
    BY <1>1, <1>2, <2>1, SumBounds, Zenon
<1> QED
  BY <1>3, Zenon DEF Total, weighted

LEMMA SpreadIsInteger ==
  ASSUME NEW gray \in [Regions -> 0..255], NEW average \in Int
  PROVE  Spread(gray, average) \in Int
<1> DEFINE products == [r \in Regions |-> (Filtered(gray)[r] - average) * (gray[r] - average)]
<1>1. products \in [Regions -> Int]
  <2>1. \A r \in Regions : Filtered(gray)[r] \in Int /\ gray[r] \in Int
    BY FilteredBetween
  <2>2. \A a, b \in Int : (a - average) * (b - average) \in Int
    OBVIOUS
  <2>3. \A r \in Regions : (Filtered(gray)[r] - average) * (gray[r] - average) \in Int
    BY <2>1, <2>2, Zenon
  <2> QED
    BY <2>3
<1>2. Total(products) \in Int
  BY <1>1, TotalIsInteger
<1> QED
  BY <1>2, Zenon DEF Spread

(* The average is of this image, or one above; and some region is not      *)
(* above it.                                                               *)
LEMMA AverageBounds ==
  ASSUME NEW gray \in [Regions -> 0..255], NEW old \in 0..255
  PROVE  /\ Average(gray, old) \in 20..240
         /\ Average(gray, old) - Total(Filtered(gray)) \div ImageSize \in {0, 1}
         /\ \E r \in Regions : ~ (Filtered(gray)[r] > Average(gray, old))
<1> DEFINE total == Total(Filtered(gray))
           average == Average(gray, old)
           own == total \div ImageSize
<1>1. Filtered(gray) \in [Regions -> 20..240]
  BY FilteredBetween
<1>2. total \in Int /\ 20 * ImageSize <= total /\ total <= 240 * ImageSize
  <2>1. /\ Filtered(gray) \in [Regions -> Int] /\ 20 \in Int /\ 240 \in Int
        /\ \A r \in Regions : 20 <= Filtered(gray)[r] /\ Filtered(gray)[r] <= 240
    BY <1>1
  <2> QED
    BY <2>1, TotalBounds, Zenon
<1>3. average = (total + old) \div ImageSize
  BY DEF Average
<1> HIDE DEF total, average, own
<1>4. /\ average \in Int /\ ImageSize * average <= total + old
      /\ total + old < ImageSize * (average + 1)
  BY <1>2, <1>3, ImageSizeBounds, DivBounds
<1>5. /\ own \in Int /\ ImageSize * own <= total /\ total < ImageSize * (own + 1)
  BY <1>2, ImageSizeBounds, DivBounds DEF own
<1>6. average \in 20..240
  <2>1. ImageSize * 20 < ImageSize * (average + 1)
    BY <1>2, <1>4, ImageSizeBounds
  <2>2. ImageSize * average < ImageSize * 241
    BY <1>2, <1>4, ImageSizeBounds
  <2> QED
    BY <1>4, <2>1, <2>2, ImageSizeBounds, SmallerFactor
<1>7. average - own \in {0, 1}
  <2>0. ImageSize * (own + 2) = ImageSize * (own + 1) + ImageSize
    BY <1>5, ImageSizeBounds
  <2> DEFINE ownSum == ImageSize * own
             nextSum == ImageSize * (own + 1)
             sum == ImageSize * average
             aboveSum == ImageSize * (average + 1)
  <2>4. ownSum \in Int /\ nextSum \in Int /\ sum \in Int /\ aboveSum \in Int
    BY <1>4, <1>5, ImageSizeBounds
  <2>5. ownSum <= total /\ total < nextSum /\ sum <= total + old /\ total + old < aboveSum
    BY <1>4, <1>5
  <2>6. ownSum < aboveSum /\ sum < nextSum + ImageSize
    <3> HIDE DEF ownSum, nextSum, sum, aboveSum
    <3> QED
      BY <1>2, <2>4, <2>5, ImageSizeBounds
  <2>1. ImageSize * own < ImageSize * (average + 1)
    BY <2>6
  <2>2. ImageSize * average < ImageSize * (own + 2)
    BY <2>0, <2>6
  <2>3. own < average + 1 /\ average < own + 2
    BY <1>4, <1>5, <2>1, <2>2, ImageSizeBounds, SmallerFactor
  <2> QED
    BY <1>4, <1>5, <2>3
<1>8. ASSUME \A r \in Regions : Filtered(gray)[r] > average
      PROVE  FALSE
  <2>1. \A r \in Regions : average + 1 <= Filtered(gray)[r] /\ Filtered(gray)[r] <= 240
    BY <1>1, <1>4, <1>8
  <2>2. Filtered(gray) \in [Regions -> Int] /\ average + 1 \in Int
    BY <1>1, <1>4
  <2>3. (average + 1) * ImageSize <= total
    BY <2>1, <2>2, TotalBounds DEF total
  <2>4. (average + 1) * ImageSize = ImageSize * (average + 1)
    BY <1>4, ImageSizeBounds
  <2> QED
    BY <1>2, <1>4, <2>3, <2>4, ImageSizeBounds
<1> QED
  BY <1>6, <1>7, <1>8 DEF total, average, own
-----------------------------------------------------------------------------
(* Between two runs the extremes are reset.                                *)
AlgorithmsInv == /\ NothingCarriedOver
                 /\ CrashNeedsOddImage
                 /\ ~crashed => maxIntensity = 0 /\ minIntensity = 255

(* No pass divides by zero: every intensity is a byte.                     *)
LEMMA IntensitiesAreBytes ==
  ASSUME NEW filtered \in [Regions -> 20..240], NEW average \in 20..240, NEW deviation \in Nat,
         ~ DividesByZero(filtered, average, deviation)
  PROVE  Intensity(filtered, average, deviation) \in [Regions -> 0..240]
<1> SUFFICES ASSUME NEW r \in Regions
             PROVE  (IF filtered[r] > average THEN (filtered[r] - average) \div deviation ELSE filtered[r]) \in 0..240
  BY DEF Intensity
<1>1. CASE ~ (filtered[r] > average)
  <2>1. filtered[r] \in 20..240
    OBVIOUS
  <2> QED
    BY <1>1, <2>1
<1>2. CASE filtered[r] > average
  <2> DEFINE above == filtered[r] - average
             q == above \div deviation
  <2>1. deviation \in Nat \ {0}
    BY <1>2 DEF DividesByZero, Bright
  <2>2. above \in 0..220
    <3>1. filtered[r] \in 20..240
      OBVIOUS
    <3>2. \A x, y \in 20..240 : x > y => x - y \in 0..220
      OBVIOUS
    <3> QED
      BY <1>2, <3>1, <3>2, Zenon
  <2> HIDE DEF above
  <2>3. q \in Int /\ deviation * q <= above /\ above < deviation * (q + 1)
    BY <2>1, <2>2, DivBounds
  <2> HIDE DEF q
  <2>4. deviation * 0 < deviation * (q + 1)
    BY <2>1, <2>2, <2>3
  <2>5. 0 < q + 1
    BY <2>1, <2>3, <2>4, SmallerFactor
  <2>6. q <= deviation * q
    BY <2>1, <2>3, <2>5
  <2>7. q \in 0..240
    BY <2>2, <2>3, <2>5, <2>6
  <2> QED
    BY <1>2, <2>7 DEF q, above
<1> QED
  BY <1>1, <1>2

(* The brightest pixel of a result has at least half of a byte's range.    *)
LEMMA FactorTimesRange ==
  ASSUME NEW d \in 1..255
  PROVE  d * (255 \div d) \in 128..255
<1> DEFINE q == 255 \div d
<1>1. q \in Int /\ d * q <= 255 /\ 255 < d * (q + 1)
  BY DivBounds
<1> HIDE DEF q
<1>2. d * 0 < d * (q + 1)
  BY <1>1
<1>3. 0 < q + 1
  BY <1>1, <1>2, SmallerFactor
<1>4. q # 0
  BY <1>1
<1>5. d * (q + 1) = d * q + d /\ d <= d * q
  BY <1>1, <1>3, <1>4
<1> QED
  BY <1>1, <1>5 DEF q

(* The extremes start beyond what an intensity is.                         *)
LEMMA ExtremesOfIntensities ==
  ASSUME NEW intensity \in [Regions -> 0..240], NEW r \in Regions
  PROVE  /\ Max(Range(intensity) \cup {0}) \in 0..240
         /\ Min(Range(intensity) \cup {255}) \in 0..240
         /\ \A x \in Range(intensity) :
              Min(Range(intensity) \cup {255}) <= x /\ x <= Max(Range(intensity) \cup {0})
         /\ \/ Max(Range(intensity) \cup {0}) \in Range(intensity)
            \/ Max(Range(intensity) \cup {0}) = 0
<1> DEFINE low == Range(intensity) \cup {0}
           high == Range(intensity) \cup {255}
<1>1. intensity[r] \in Range(intensity) /\ Range(intensity) \subseteq 0..240
  BY DEF Range
<1>2. low \in SUBSET (0..255) /\ low # {} /\ high \in SUBSET (0..255) /\ high # {}
  BY <1>1
<1>3. /\ \A x \in Range(intensity) : x \in low /\ x \in high
      /\ low \subseteq 0..240
  BY <1>1
<1>4. \A x \in low : x \in Range(intensity) \/ x = 0
  OBVIOUS
<1> HIDE DEF low, high
<1>5. Max(low) \in low /\ \A x \in low : x <= Max(low)
  BY <1>2, Extremes, Zenon
<1>6. Min(high) \in high /\ \A x \in high : Min(high) <= x
  BY <1>2, Extremes, Zenon
<1>7. \A x \in Range(intensity) : Min(high) <= x /\ x <= Max(low)
  BY <1>3, <1>5, <1>6, Zenon
<1>8. Max(low) \in 0..240 /\ (Max(low) \in Range(intensity) \/ Max(low) = 0)
  BY <1>3, <1>4, <1>5, Zenon
<1>9. Min(high) \in 0..240
  <2>1. Min(high) <= intensity[r] /\ intensity[r] \in 0..240
    BY <1>1, <1>7
  <2>2. Min(high) \in 0..255
    BY <1>2, <1>6
  <2> QED
    BY <2>1, <2>2
<1> QED
  BY <1>7, <1>8, <1>9, Zenon DEF low, high

LEMMA StretchedUsesTheRange ==
  ASSUME NEW intensity \in [Regions -> 0..240], NEW max \in 0..240, NEW min \in 0..240, min < max,
         NEW brightest \in Regions, intensity[brightest] = max
  PROVE  /\ Stretched(intensity, max, min) \in [Regions -> 0..255]
         /\ Max(Range(Stretched(intensity, max, min))) >= 128
<1> DEFINE result == Stretched(intensity, max, min)
           factor == Factor(max, min)
           stretched(r) == ((intensity[r] - min) * factor) % 256
<1>1. factor \in Int
  BY DivBounds DEF Factor
<1>2. result = [r \in Regions |-> IF intensity[r] > min THEN stretched(r) ELSE intensity[r]]
  BY Zenon DEF Stretched
<1> HIDE DEF result, factor
<1>3. \A r \in Regions : intensity[r] \in 0..240
  OBVIOUS
<1>4. ASSUME NEW r \in Regions
      PROVE  stretched(r) \in 0..255
  <2> DEFINE product == (intensity[r] - min) * factor
  <2>1. \A x, y \in 0..240, z \in Int : (x - y) * z \in Int
    OBVIOUS
  <2>2. product \in Int
    BY <1>1, <1>3, <2>1, Zenon
  <2> HIDE DEF product
  <2>3. product % 256 \in 0..255
    BY <2>2
  <2> QED
    BY <2>3 DEF product
<1> HIDE DEF stretched
<1>5. result \in [Regions -> 0..255]
  <2>1. ASSUME NEW r \in Regions
        PROVE  (IF intensity[r] > min THEN stretched(r) ELSE intensity[r]) \in 0..255
    <3>1. intensity[r] \in 0..255 /\ stretched(r) \in 0..255
      BY <1>3, <1>4
    <3> QED
      BY <3>1, Zenon
  <2> QED
    BY <1>2, <2>1
<1>6. result[brightest] \in 128..255
  <2> DEFINE d == max - min
             product == d * (255 \div d)
  <2>1. d \in 1..255
    OBVIOUS
  <2>2. result[brightest] = product % 256
    <3>1. max > min
      OBVIOUS
    <3>2. result[brightest] = stretched(brightest)
      BY <1>2, <3>1, Zenon
    <3> QED
      BY <3>2, Zenon DEF stretched, factor, Factor
  <2> HIDE DEF d
  <2>3. product \in 128..255
    BY <2>1, FactorTimesRange
  <2> HIDE DEF product
  <2>4. product % 256 = product
    BY <2>3
  <2> QED
    BY <2>2, <2>3, <2>4
<1>7. Range(result) \in SUBSET (0..255) /\ result[brightest] \in Range(result)
  BY <1>5 DEF Range
<1>8. Max(Range(result)) \in 0..255 /\ result[brightest] <= Max(Range(result))
  <2> DEFINE T == Range(result)
  <2>1. T \in SUBSET (0..255) /\ result[brightest] \in T
    BY <1>7
  <2> HIDE DEF T
  <2>2. Max(T) \in T /\ \A x \in T : x <= Max(T)
    BY <2>1, Extremes
  <2> QED
    BY <2>1, <2>2 DEF T
<1>9. Max(Range(result)) >= 128
  <2>1. \A x \in 128..255, y \in 0..255 : x <= y => y >= 128
    OBVIOUS
  <2> QED
    BY <1>6, <1>8, <2>1, Zenon
<1> QED
  BY <1>5, <1>9, Zenon DEF result
-----------------------------------------------------------------------------
LEMMA AlgorithmsInit == Init => AlgorithmsInv
<1> SUFFICES ASSUME Init PROVE AlgorithmsInv
  OBVIOUS
<1>1. TypeOK
  <2>1. /\ [r \in Regions |-> 0] \in [Regions -> 0..255] /\ 0 \in 0..255 /\ 255 \in 0..255
        /\ FALSE \in BOOLEAN /\ Black \in Images \cup {Black}
    OBVIOUS
  <2> QED
    BY <2>1, Zenon DEF Init, TypeOK
<1>2. ~ Processed /\ ~ crashed /\ maxIntensity = 0 /\ minIntensity = 255
  BY DEF Init, Processed
<1> QED
  BY <1>1, <1>2 DEF AlgorithmsInv, NothingCarriedOver, AverageIsOfThisImage, ResultUsesTheRange,
     CrashNeedsOddImage

(* A run of the normalizer.                                                *)
LEMMA NormalizerStep ==
  ASSUME AlgorithmsInv, NEW image \in Images, NormalizerExec(image)
  PROVE  AlgorithmsInv'
<1> DEFINE gray == Gray(image)
           average == Average(gray, averageIntensity)
           deviation == Deviation(gray, average)
           filtered == Filtered(gray)
           intensity == Intensity(filtered, average, deviation)
           max == Max(Range(intensity) \cup {maxIntensity})
           min == Min(Range(intensity) \cup {minIntensity})
           fails == DividesByZero(filtered, average, deviation) \/ max = min
<1>1. /\ TypeOK /\ ~ crashed /\ maxIntensity = 0 /\ minIntensity = 255
      /\ averageIntensity \in 0..255
  BY DEF NormalizerExec, AlgorithmsInv, NothingCarriedOver, TypeOK
<1>2. /\ inputData' = image /\ averageIntensity' = average
      /\ fails => Crash
      /\ ~ fails => /\ outputData' = Stretched(intensity, max, min)
                    /\ ResetExtremes(max, min) /\ UNCHANGED crashed
  BY Zenon DEF NormalizerExec
<1>3. gray \in [Regions -> 0..255] /\ filtered \in [Regions -> 20..240]
  <2>1. gray \in [Regions -> 0..255]
    BY GraysAreBytes
  <2> HIDE DEF gray
  <2> QED
    BY <2>1, FilteredBetween
<1>4. /\ average \in 20..240 /\ average - Total(filtered) \div ImageSize \in {0, 1}
      /\ \E r \in Regions : ~ (filtered[r] > average)
  <2> HIDE DEF gray
  <2> QED
    BY <1>1, <1>3, AverageBounds DEF filtered, average
<1>5. Spread(gray, average) \in Int
  <2> HIDE DEF average, gray
  <2>1. average \in Int
    BY <1>4
  <2> QED
    BY <1>3, <2>1, SpreadIsInteger
<1>6. /\ deviation \in Nat
      /\ deviation = 0 => Spread(gray, average) < ImageSize \/ Spread(gray, average) >= WordRange
  <2> HIDE DEF average, gray
  <2> QED
    BY <1>5, ImageSizeBounds, DeviationIsRoot DEF deviation
<1>7. max = Max(Range(intensity) \cup {0}) /\ min = Min(Range(intensity) \cup {255})
  BY <1>1, Zenon
<1> HIDE DEF gray, average, deviation, filtered
<1>8. PICK dim \in Regions : ~ (filtered[dim] > average)
  BY <1>4
<1>9. ASSUME ~ DividesByZero(filtered, average, deviation)
      PROVE  /\ intensity \in [Regions -> 0..240]
             /\ max \in 0..240 /\ min \in 0..240
             /\ \A x \in Range(intensity) : min <= x /\ x <= max
             /\ max \in Range(intensity) \/ max = 0
  <2>1. intensity \in [Regions -> 0..240]
    BY <1>3, <1>4, <1>6, <1>9, IntensitiesAreBytes
  <2> HIDE DEF intensity, max, min
  <2>2. /\ Max(Range(intensity) \cup {0}) \in 0..240
        /\ Min(Range(intensity) \cup {255}) \in 0..240
        /\ \A x \in Range(intensity) :
             Min(Range(intensity) \cup {255}) <= x /\ x <= Max(Range(intensity) \cup {0})
        /\ \/ Max(Range(intensity) \cup {0}) \in Range(intensity)
           \/ Max(Range(intensity) \cup {0}) = 0
    BY <1>8, <2>1, ExtremesOfIntensities
  <2> QED
    BY <1>7, <2>1, <2>2, Zenon
<1>10. \A r \in Regions : ~ (filtered[r] > average) => intensity[r] = filtered[r] /\ filtered[r] \in Range(intensity)
  <2>1. \A r \in Regions : ~ (filtered[r] > average) => intensity[r] = filtered[r]
    BY Zenon DEF Intensity
  <2>2. \A r \in Regions : intensity[r] \in Range(intensity)
    BY Zenon DEF Intensity, Range
  <2> HIDE DEF intensity
  <2> QED
    BY <2>1, <2>2
<1> HIDE DEF intensity, max, min
<1>11. CASE fails
  <2>1. crashed' = TRUE /\ UNCHANGED <<maxIntensity, minIntensity, outputData>>
    BY <1>2, <1>11 DEF Crash
  <2>2. CrashNeedsOddImage'
    <3>1. /\ Gray(inputData)' = gray /\ Filtered(Gray(inputData))' = filtered
          /\ averageIntensity' = average
      BY <1>2, Zenon DEF gray, filtered
    <3>2. CASE DividesByZero(filtered, average, deviation)
      <4>1. Spread(gray, average) < ImageSize \/ Spread(gray, average) >= WordRange
        BY <1>6, <3>2 DEF DividesByZero
      <4> QED
        BY <1>2, <4>1, Zenon DEF CrashNeedsOddImage, gray
    <3>3. CASE ~ DividesByZero(filtered, average, deviation)
      <4> DEFINE dark == Regions \ Bright(filtered, average)
      <4>1. max = min
        BY <1>11, <3>3
      <4>2. dim \in dark
        BY <1>8 DEF Bright
      <4>3. \A r \in dark : filtered[r] \in Range(intensity)
        BY <1>10 DEF Bright
      <4>4. \A x, y \in Range(intensity) : x = y
        <5>1. \A x \in Range(intensity) : min <= x /\ x <= max /\ x \in 0..240
          BY <1>9, <3>3 DEF Range
        <5> TAKE x, y \in Range(intensity)
        <5>2. x <= min /\ min <= x /\ y <= min /\ min <= y /\ x \in 0..240 /\ y \in 0..240
          BY <4>1, <5>1
        <5>3. min \in 0..240
          BY <1>9, <3>3
        <5> QED
          BY <5>2, <5>3
      <4>5. dark # {} /\ \A r, s \in dark : filtered[r] = filtered[s]
        BY <4>2, <4>3, <4>4
      <4> QED
        BY <1>2, <4>5, Zenon DEF CrashNeedsOddImage, gray, filtered
    <3> QED
      BY <3>2, <3>3
  <2>3. TypeOK'
    <3>1. average \in 0..255
      BY <1>4
    <3> QED
      BY <1>1, <1>2, <2>1, <3>1 DEF TypeOK
  <2>4. AverageIsOfThisImage'
    BY <1>2, <1>4, Zenon DEF AverageIsOfThisImage, gray, filtered
  <2> QED
    BY <2>1, <2>2, <2>3, <2>4 DEF AlgorithmsInv, NothingCarriedOver, ResultUsesTheRange
<1>12. CASE ~ fails
  <2>1. /\ outputData' = Stretched(intensity, max, min)
        /\ maxIntensity' = 0 /\ minIntensity' = 255 /\ UNCHANGED crashed
        /\ max # min /\ ~ DividesByZero(filtered, average, deviation)
    BY <1>2, <1>12 DEF ResetExtremes
  <2>2. /\ intensity \in [Regions -> 0..240] /\ max \in 0..240 /\ min \in 0..240
        /\ \A x \in Range(intensity) : min <= x /\ x <= max
        /\ max \in Range(intensity) \/ max = 0
    BY <1>9, <2>1
  <2>3. intensity[dim] \in Range(intensity)
    BY <1>8, <1>10
  <2>4. min < max /\ max \in Range(intensity)
    <3>1. min <= intensity[dim] /\ intensity[dim] <= max /\ intensity[dim] \in 0..240
      BY <2>2, <2>3
    <3>2. min < max
      BY <2>1, <2>2, <3>1
    <3> QED
      BY <2>2, <3>2
  <2>5. PICK brightest \in Regions : intensity[brightest] = max
    BY <2>2, <2>4 DEF Range
  <2>6. /\ outputData' \in [Regions -> 0..255]
        /\ Max(Range(outputData')) >= 128
    <3>1. /\ Stretched(intensity, max, min) \in [Regions -> 0..255]
          /\ Max(Range(Stretched(intensity, max, min))) >= 128
      BY <2>2, <2>4, <2>5, StretchedUsesTheRange, Zenon
    <3> QED
      BY <2>1, <3>1, Zenon
  <2>7. TypeOK'
    <3>1. average \in 0..255
      BY <1>4
    <3> QED
      BY <1>1, <1>2, <2>1, <2>6, <3>1 DEF TypeOK
  <2>8. AverageIsOfThisImage'
    BY <1>2, <1>4, Zenon DEF AverageIsOfThisImage, gray, filtered
  <2> QED
    BY <1>1, <2>1, <2>6, <2>7, <2>8
    DEF AlgorithmsInv, NothingCarriedOver, ResultUsesTheRange, CrashNeedsOddImage
<1> QED
  BY <1>11, <1>12

LEMMA AlgorithmsStep == AlgorithmsInv /\ [Next]_vars => AlgorithmsInv'
<1> SUFFICES ASSUME AlgorithmsInv, [Next]_vars PROVE AlgorithmsInv'
  OBVIOUS
<1>1. CASE UNCHANGED vars
  BY <1>1 DEF vars, AlgorithmsInv, NothingCarriedOver, CrashNeedsOddImage,
     TypeOK, AverageIsOfThisImage, ResultUsesTheRange, Processed
<1> QED
  BY <1>1, NormalizerStep DEF Next

(* AlgorithmsInv holds throughout.                                         *)
LEMMA AlgorithmsInvariant == Spec => []AlgorithmsInv
BY AlgorithmsInit, AlgorithmsStep, PTL DEF Spec

(* The normalizer's statics carry next to nothing from one image into the  *)
(* next: the sum that is never reset makes an average one too high at      *)
(* most, and the extremes that a result was stretched by are its own       *)
(* image's (PiVisImageNormalizerAlgo.c:64-69, 93-113, 127-128).            *)
THEOREM StaticsCarryNothingOver == Spec => []NothingCarriedOver
<1>1. AlgorithmsInv => NothingCarriedOver
  BY DEF AlgorithmsInv
<1> QED
  BY <1>1, AlgorithmsInvariant, PTL

(* The two divisions by zero of the normalizer happen on three kinds of    *)
(* images only, whatever was normalized before                             *)
(* (PiVisImageNormalizerAlgo.c:75, 90, 106).                               *)
THEOREM CrashesNeedOddImages == Spec => []CrashNeedsOddImage
<1>1. AlgorithmsInv => CrashNeedsOddImage
  BY DEF AlgorithmsInv
<1> QED
  BY <1>1, AlgorithmsInvariant, PTL
=============================================================================
