------------------------------ MODULE AlgoCtrl ------------------------------
(***************************************************************************)
(* src/C/src/PiVisAlgoCtrl.c with the normalizer it runs                   *)
(* (PiVisImageNormalizerAlgo.c), on top of ThreadPool.                     *)
(*                                                                         *)
(* The scheduler's main thread calls ALGOCTRL's run() once a tick: hand a  *)
(* finished image to the transport, copy the provider's frame into         *)
(* recBuffer, and submit the normalizer unless it is running.  A worker    *)
(* reads the very same recBuffer, one pixel at a time, and publishes the   *)
(* result by storing ALGO_COMPLETE.  recBuffer, the state and the          *)
(* normalizer's static images are shared without a lock.                   *)
(*                                                                         *)
(* An image is NumParts parts, each carrying the camera frame it came      *)
(* from: a copy or a pass over an image is one step per part, so that the  *)
(* two threads interleave inside it.  What the passes compute is left out, *)
(* and each step reads and writes memory in program order.                 *)
(***************************************************************************)
EXTENDS ThreadPool

CONSTANTS Frames,    \* the camera frames
          NoFrame,   \* contents of a static buffer before anything is stored
          NumParts   \* parts of an image that are copied or computed separately

ASSUME NumPartsAssumption == NumParts \in Nat \ {0}
ASSUME NoFrameAssumption == NoFrame \notin Frames

VARIABLES ctrlPc,           \* where the main thread stands in run()
          algoState,        \* algorithms[0].state
          camFrame,         \* the frame IMGPROVIDER_getPixelData is copying
          copyPart,         \* the part it copies next
          recBuffer,        \* the buffer it copies to, the normalizer's input
          grayscaleImage,   \* the normalizer's intermediate image
          normalizedImage,  \* its result, which run() sends
          phase,            \* where IMGNORMALGO_exec stands in every thread
          part,             \* the part every thread computes next
          overwritten       \* history: recBuffer was written since the last dispatch

ctrlVars == <<ctrlPc, camFrame, copyPart, recBuffer, overwritten>>
workVars == <<grayscaleImage, normalizedImage, phase, part>>
algoVars == <<poolVars, ctrlVars, workVars, algoState>>

Parts == 1..NumParts
Phases == {"none", "gray", "normalize", "complete", "return"}
Image == [Parts -> Frames \cup {NoFrame}]
Blank == [p \in Parts |-> NoFrame]
OneFrame(image) == \A p, q \in Parts : image[p] = image[q]

AlgoInit == /\ PoolInit
            /\ ctrlPc = "top"
            /\ algoState = "INIT"
            /\ camFrame = NoFrame
            /\ copyPart = 1
            /\ recBuffer = Blank
            /\ grayscaleImage = Blank
            /\ normalizedImage = Blank
            /\ phase = [t \in Threads |-> "none"]
            /\ part = [t \in Threads |-> 1]
            /\ overwritten = FALSE
-----------------------------------------------------------------------------
(* run(), on the scheduler's thread                                        *)

(* ALGO_COMPLETE, and the transport is ready: it copies the output.        *)
BeginSend == /\ ctrlPc = "top"
             /\ algoState = "COMPLETE"
             /\ ctrlPc' = "sending"
             /\ UNCHANGED <<camFrame, copyPart, recBuffer, overwritten,
                            algoState, poolVars, workVars>>

EndSend == /\ ctrlPc = "sending"
           /\ ctrlPc' = "fetch"
           /\ UNCHANGED <<camFrame, copyPart, recBuffer, overwritten,
                          algoState, poolVars, workVars>>

(* There is no result yet, or the transport waits for an acknowledgement.  *)
NothingToSend == /\ ctrlPc = "top"
                 /\ ctrlPc' = "fetch"
                 /\ UNCHANGED <<camFrame, copyPart, recBuffer, overwritten,
                                algoState, poolVars, workVars>>

(* The image provider has no frame this tick: getPixelData returns 0.      *)
FetchNothing == /\ ctrlPc = "fetch"
                /\ ctrlPc' = "top"
                /\ UNCHANGED <<camFrame, copyPart, recBuffer, overwritten,
                               algoState, poolVars, workVars>>

FetchFrame(f) == /\ ctrlPc = "fetch"
                 /\ ctrlPc' = "copy"
                 /\ camFrame' = f
                 /\ copyPart' = 1
                 /\ UNCHANGED <<recBuffer, overwritten, algoState, poolVars, workVars>>

(* getPixelData's memcpy.  It runs before the state is looked at.          *)
CopyPart == /\ ctrlPc = "copy"
            /\ recBuffer' = [recBuffer EXCEPT ![copyPart] = camFrame]
            /\ overwritten' = (overwritten \/ algoState = "RUNNING")
            /\ IF copyPart = NumParts
                 THEN ctrlPc' = "dispatch" /\ UNCHANGED copyPart
                 ELSE copyPart' = copyPart + 1 /\ UNCHANGED ctrlPc
            /\ UNCHANGED <<camFrame, algoState, poolVars, workVars>>

(* A plausible wrong dispatch: the state is not looked at.                 *)
DispatchAlways == /\ ctrlPc = "dispatch"
                  /\ algoState' = "RUNNING"
                  /\ overwritten' = FALSE
                  /\ ctrlPc' = "sched"
                  /\ UNCHANGED <<camFrame, copyPart, recBuffer, poolVars, workVars>>

(* A plausible wrong dispatch: the state is left as it was.                *)
DispatchUnmarked == /\ ctrlPc = "dispatch"
                    /\ algoState # "RUNNING"
                    /\ overwritten' = FALSE
                    /\ ctrlPc' = "sched"
                    /\ UNCHANGED <<camFrame, copyPart, recBuffer, algoState,
                                   poolVars, workVars>>

(* The state is set before sched_job is called.                            *)
Dispatch == /\ ctrlPc = "dispatch"
            /\ algoState # "RUNNING"
            /\ algoState' = "RUNNING"
            /\ overwritten' = FALSE
            /\ ctrlPc' = "sched"
            /\ UNCHANGED <<camFrame, copyPart, recBuffer, poolVars, workVars>>

(* "Dropping frame from camera": the bytes are in recBuffer already.       *)
DropFrame == /\ ctrlPc = "dispatch"
             /\ algoState = "RUNNING"
             /\ ctrlPc' = "top"
             /\ UNCHANGED <<camFrame, copyPart, recBuffer, overwritten,
                            algoState, poolVars, workVars>>

CallSchedJob(j) == /\ ctrlPc = "sched"
                   /\ SchedJob(j)
                   /\ ctrlPc' = "inSched"
                   /\ UNCHANGED <<camFrame, copyPart, recBuffer, overwritten,
                                  algoState, workVars>>

(* The rest of sched_job; run() returns with it.                           *)
SchedJobStep == /\ ctrlPc = "inSched"
                /\ Walk
                /\ ctrlPc' = IF cursor' = 0 THEN "top" ELSE "inSched"
                /\ UNCHANGED <<camFrame, copyPart, recBuffer, overwritten,
                               algoState, workVars>>
-----------------------------------------------------------------------------
(* A worker, and IMGNORMALGO_exec in it                                    *)

BeginJob(t) == /\ PopJob(t)
               /\ phase' = [phase EXCEPT ![t] = "gray"]
               /\ part' = [part EXCEPT ![t] = 1]
               /\ UNCHANGED <<ctrlVars, grayscaleImage, normalizedImage, algoState>>

(* Go to the next part, or to the next phase after the last one.           *)
Advance(t, next) ==
  IF part[t] = NumParts
    THEN /\ phase' = [phase EXCEPT ![t] = next]
         /\ part' = [part EXCEPT ![t] = 1]
    ELSE /\ part' = [part EXCEPT ![t] = @ + 1]
         /\ UNCHANGED phase

(* A plausible wrong order: ALGO_COMPLETE before the normalizing pass.     *)
GrayscalePartAndComplete(t) ==
  /\ phase[t] = "gray"
  /\ grayscaleImage' = [grayscaleImage EXCEPT ![part[t]] = recBuffer[part[t]]]
  /\ Advance(t, "normalize")
  /\ algoState' = IF part[t] = NumParts THEN "COMPLETE" ELSE algoState
  /\ UNCHANGED <<poolVars, ctrlVars, normalizedImage>>

(* createGrayscaleImage: read the input, part by part.                     *)
GrayscalePart(t) ==
  /\ phase[t] = "gray"
  /\ grayscaleImage' = [grayscaleImage EXCEPT ![part[t]] = recBuffer[part[t]]]
  /\ Advance(t, "normalize")
  /\ UNCHANGED <<poolVars, ctrlVars, normalizedImage, algoState>>

(* normalizeImage: write the result, part by part.                         *)
NormalizePart(t) ==
  /\ phase[t] = "normalize"
  /\ normalizedImage' = [normalizedImage EXCEPT ![part[t]] = grayscaleImage[part[t]]]
  /\ Advance(t, "complete")
  /\ UNCHANGED <<poolVars, ctrlVars, grayscaleImage, algoState>>

Complete(t) == /\ phase[t] = "complete"
               /\ algoState' = "COMPLETE"
               /\ phase' = [phase EXCEPT ![t] = "return"]
               /\ UNCHANGED <<poolVars, ctrlVars, grayscaleImage, normalizedImage, part>>

(* The job function has returned: free the item and look for another one.  *)
EndJob(t) == /\ phase[t] = "return"
             /\ FinishJob(t)
             /\ phase' = [phase EXCEPT ![t] = "none"]
             /\ UNCHANGED <<ctrlVars, grayscaleImage, normalizedImage, part, algoState>>

(* The worker finds the queue empty and goes to wait.                      *)
GoIdle(t) == /\ PopNothing(t) \/ MarkIdle(t) \/ CheckNotified(t)
             /\ UNCHANGED <<ctrlVars, workVars, algoState>>

WakeSpuriously(t) == SpuriousWakeup(t) /\ UNCHANGED <<ctrlVars, workVars, algoState>>
-----------------------------------------------------------------------------
MainStep == \/ BeginSend \/ EndSend \/ NothingToSend
            \/ FetchNothing \/ (\E f \in Frames : FetchFrame(f)) \/ CopyPart
            \/ Dispatch \/ DropFrame
            \/ (\E j \in Jobs : CallSchedJob(j)) \/ SchedJobStep

WorkerStep(t) == \/ BeginJob(t) \/ GrayscalePart(t) \/ NormalizePart(t)
                 \/ Complete(t) \/ EndJob(t) \/ GoIdle(t)

SignalledAlgoNext == MainStep \/ \E t \in Threads : WorkerStep(t)
AlgoNext == SignalledAlgoNext \/ \E t \in Threads : WakeSpuriously(t)

(* The main thread and every worker that can run are run.                  *)
AlgoFairness == WF_algoVars(MainStep) /\ \A t \in Threads : WF_algoVars(WorkerStep(t))

AlgoSpec == AlgoInit /\ [][AlgoNext]_algoVars
FairAlgoSpec == AlgoSpec /\ AlgoFairness
FairSignalledAlgoSpec == AlgoInit /\ [][SignalledAlgoNext]_algoVars /\ AlgoFairness
-----------------------------------------------------------------------------
AlgoTypeOK ==
  /\ PoolTypeOK
  /\ ctrlPc \in {"top", "sending", "fetch", "copy", "dispatch", "sched", "inSched"}
  /\ ctrlPc = "inSched" <=> cursor # 0
  /\ algoState \in {"INIT", "RUNNING", "COMPLETE"}
  /\ camFrame \in Frames \cup {NoFrame}
  /\ copyPart \in Parts
  /\ recBuffer \in Image /\ grayscaleImage \in Image /\ normalizedImage \in Image
  /\ phase \in [Threads -> Phases]
  /\ part \in [Threads -> Parts]
  /\ \A t \in Threads : phase[t] = "none" <=> pc[t] # "exec"
  /\ overwritten \in BOOLEAN

(* The normalizer's images and accumulators are static                     *)
(* (PiVisImageNormalizerAlgo.c:12-17), so it must not run twice at a time  *)
(* although the pool has two threads and ALGO_COMPLETE is stored before    *)
(* the first run has returned.                                             *)
Normalizing(t) == phase[t] \in {"gray", "normalize", "complete"}
OneNormalizer == \A t, u \in Threads : Normalizing(t) /\ Normalizing(u) => t = u

(* algorithms[0].state tells the truth to run(): it is ALGO_RUNNING from   *)
(* before sched_job until the result is published, and never when no job   *)
(* is there to publish one (PiVisAlgoCtrl.c:39-44).                        *)
RunningIffJobPending ==
  algoState = "RUNNING" <=> \/ ctrlPc = "sched"
                            \/ jobQueue # << >>
                            \/ \E t \in Threads : Normalizing(t)

(* While the transport copies the result nobody writes it: a finished      *)
(* result stays put although ALGO_COMPLETE never goes away until the next  *)
(* dispatch (PiVisAlgoCtrl.c:29-35).                                       *)
OutputStableWhileSending ==
  [][ctrlPc = "sending" => normalizedImage' = normalizedImage]_algoVars

(* A result mixes two camera frames only if a frame arrived while the      *)
(* normalizer ran.  Such a frame is reported as dropped, and has been      *)
(* copied over the normalizer's input before (PiVisAlgoCtrl.c:37-48).      *)
TornOnlyByDrop == algoState = "COMPLETE" /\ ~overwritten => OneFrame(normalizedImage)

(* A dispatched frame is completed, unless the pool strands its job.       *)
CompletesUnlessStranded ==
  []<>(~Stranded) => (algoState = "RUNNING" ~> algoState = "COMPLETE")

(* A thread of the pool waits for the next job "if thread has not already  *)
(* been notified" (thread_pool.c:93-94), so a dispatched frame completes.  *)
(* The code does not keep this: the one job can be stranded for good.      *)
EveryRunCompletes == algoState = "RUNNING" ~> algoState = "COMPLETE"
=============================================================================
