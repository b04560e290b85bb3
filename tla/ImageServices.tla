--------------------------- MODULE ImageServices ---------------------------
(***************************************************************************)
(* What the C++ program makes of the camera's images: PiVisionFrameCoord   *)
(* offers them as color images, PiVisionGrayscaleImage has a job for every *)
(* one it accepts, and a job offers a black and white one.                 *)
(*                                                                         *)
(* The objects speak by events, as in ServiceBroker: an event is handled   *)
(* sometime and in any order with the others, and so is a job.  Between    *)
(* the two services lies a connection, or a shortcut, which passes an      *)
(* image on or skips it (EthTermConnection).                               *)
(*                                                                         *)
(* An image has a number and pixels, as many as were received of it before *)
(* its connection ended; the height and width in front of them are one     *)
(* area, which is unknown of an image that ends before them.               *)
(***************************************************************************)
EXTENDS Integers, FiniteSets, SequencesExt

CONSTANTS Colors,         \* colors of the pixels, as <<red, green, blue>>
          Area,           \* pixels of a whole image
          NumJobsLimit,   \* NUM_JOBS_LIMIT
          MaxImages       \* bound: images of the camera

ASSUME ColorsAssumption == Colors \subseteq (0..255) \X (0..255) \X (0..255)
ASSUME AreaAssumption == Area \in Nat
ASSUME LimitAssumption == NumJobsLimit \in Nat \ {0}
ASSUME MaxImagesAssumption == MaxImages \in Nat \ {0}

VARIABLES scene,           \* what all images show; never changes
          captured,        \* images that the camera has sent
          cameraRx,        \* events with an image that are not handled
          colorTx,
          colorRx,
          completeInd,     \* how many completions are raised and not handled
          numJobsOngoing,
          jobs,            \* jobs, by their image, that have published nothing
          leaving,         \* jobs that have published and not ended
          accepted,        \* history: images that got a job
          published,       \* history: images that were raised as black and white
          result           \* the last of those

coordVars == <<captured, cameraRx>>
jobVars == <<jobs, leaving, published, result>>
vars == <<scene, coordVars, colorTx, colorRx, completeInd, numJobsOngoing, accepted, jobVars>>

Scenes == [area : 0..Area, pixels : {<<>>}] \cup [area : {Area}, pixels : BoundedSeq(Colors, Area)]
Plain == [area |-> Area, pixels |-> <<>>]
Images == 1..MaxImages

Init == /\ scene \in Scenes
        /\ captured = 0
        /\ cameraRx = {} /\ colorTx = {} /\ colorRx = {} /\ completeInd = 0
        /\ numJobsOngoing = 0
        /\ jobs = {} /\ leaving = {}
        /\ accepted = <<>> /\ published = <<>> /\ result = <<>>
-----------------------------------------------------------------------------
(* The camera's connection raises an image; where pixels matter, one will  *)
(* do.                                                                     *)
NewImage == /\ captured < (IF scene = Plain THEN MaxImages ELSE 1)
            /\ captured' = captured + 1
            /\ cameraRx' = cameraRx \cup {captured'}
            /\ UNCHANGED <<scene, colorTx, colorRx, completeInd, numJobsOngoing, accepted, jobVars>>

(* PiVisionFrameCoord::HandleEvent                                         *)
CameraImage(n) ==
  /\ n \in cameraRx
  /\ cameraRx' = cameraRx \ {n}
  /\ colorTx' = colorTx \cup {n}
  /\ UNCHANGED <<scene, captured, colorRx, completeInd, numJobsOngoing, accepted, jobVars>>

Connection(n) ==
  /\ n \in colorTx
  /\ colorTx' = colorTx \ {n}
  /\ colorRx' \in {colorRx, colorRx \cup {n}}
  /\ UNCHANGED <<scene, coordVars, completeInd, numJobsOngoing, accepted, jobVars>>
-----------------------------------------------------------------------------
(* PiVisionGrayscaleImage::HandleEvent                                     *)

FreeOrFull == NumJobsLimit >= numJobsOngoing    \* off by one
Free == NumJobsLimit > numJobsOngoing

InsteadOfWaiting(n) == {n}     \* plausible and wrong: the latest image only
WithWaiting(n) == jobs \cup {n}

(* The job is submitted (:34) and then counted (:35), in one call of the   *)
(* handler: the one who could read the counter in between, or count a      *)
(* completion that came already, is the same object's next handler call,   *)
(* and the dispatcher makes one at a time.                                 *)
ColorImage(n) ==
  /\ n \in colorRx
  /\ colorRx' = colorRx \ {n}
  /\ IF Free
       THEN /\ jobs' = WithWaiting(n)
            /\ accepted' = Append(accepted, n)
            /\ numJobsOngoing' = numJobsOngoing + 1
       ELSE UNCHANGED <<jobs, accepted, numJobsOngoing>>
  /\ UNCHANGED <<scene, coordVars, colorTx, completeInd, leaving, published, result>>

(* Plausible wrong ones: no job is left, and nothing changes.              *)
NoneLeft == 0
NoneLess == numJobsOngoing
OneLess == numJobsOngoing - 1

JobComplete ==
  /\ completeInd > 0
  /\ completeInd' = completeInd - 1
  /\ numJobsOngoing' = OneLess
  /\ UNCHANGED <<scene, coordVars, colorTx, colorRx, accepted, jobVars>>
-----------------------------------------------------------------------------
(* PiVisionGrayscaleImageJob::Execute                                      *)

Clamp(v) == IF v > 254 THEN 254 ELSE IF v < 1 THEN 1 ELSE v

(* A plausible wrong one: only the colors are divided, not what was there. *)
LevelAfter(before, color) == Clamp(before + (color[1] + color[2] + color[3]) \div 3)

(* colorIntensity goes on from the pixel before.                           *)
Level(before, color) == Clamp((before + color[1] + color[2] + color[3]) \div 3)

Grayscale(image) ==
  LET level[i \in 0..Len(image.pixels)] ==
        IF i = 0 THEN 0 ELSE Level(level[i - 1], image.pixels[i])
  IN  [i \in 1..Min({Len(image.pixels), image.area}) |-> level[i]]

Publish(n) ==
  /\ n \in jobs
  /\ jobs' = jobs \ {n}
  /\ result' = Grayscale(scene)
  /\ published' = Append(published, n)
  /\ leaving' = leaving \cup {n}
  /\ UNCHANGED <<scene, coordVars, colorTx, colorRx, completeInd, numJobsOngoing, accepted>>

Complete(n) ==
  /\ n \in leaving
  /\ leaving' = leaving \ {n}
  /\ completeInd' = completeInd + 1
  /\ UNCHANGED <<scene, coordVars, colorTx, colorRx, numJobsOngoing, accepted, jobs,
                 published, result>>
-----------------------------------------------------------------------------
Dispatch == JobComplete \/ \E n \in Images : CameraImage(n) \/ Connection(n) \/ ColorImage(n)
Job(n) == Publish(n) \/ Complete(n)

Next == NewImage \/ Dispatch \/ \E n \in Images : Job(n)

Spec == Init /\ [][Next]_vars

(* Events are handled, and jobs run to their end.                          *)
FairSpec == Spec /\ WF_vars(Dispatch) /\ \A n \in Images : WF_vars(Job(n))
-----------------------------------------------------------------------------
TypeOK ==
  /\ scene \in Scenes /\ captured \in 0..MaxImages
  /\ cameraRx \cup colorTx \cup colorRx \cup jobs \cup leaving \subseteq Images
  /\ completeInd \in Nat /\ numJobsOngoing \in 0..NumJobsLimit
  /\ accepted \in Seq(Images) /\ published \in Seq(Images)

(* The counter has a unit for every job that runs or waits and for every   *)
(* completion that is on its way, so that a slot is never lost or given    *)
(* twice, in whatever order events come (pivision_grayscaleimage.cpp:30-35,*)
(* :53).                                                                   *)
JobsAreCounted == numJobsOngoing = Cardinality(jobs) + Cardinality(leaving) + completeInd

(* All values are of their types, and the jobs are counted.                *)
SlotsInOrder == TypeOK /\ JobsAreCounted

(* An image comes out before fewer than NumJobsLimit of those that were    *)
(* accepted before it, and none comes out twice.                           *)
PassesFew ==
  /\ IsInjective(published)
  /\ \A i \in DOMAIN published, a \in DOMAIN accepted : accepted[a] = published[i] =>
       Cardinality({b \in 1..(a - 1) : ~Contains(SubSeq(published, 1, i), accepted[b])}) < NumJobsLimit

(* A pixel is as bright as its own colors and at most a third of the       *)
(* brightest byte brighter, which it has from the pixel before; a result   *)
(* has as many pixels as were received (pivision_grayscaleimagejob.cpp:    *)
(* 56-79).                                                                 *)
PixelShowsItself ==
  published # <<>> =>
    /\ Len(result) = Len(scene.pixels)
    /\ \A i \in DOMAIN result :
         LET own == (scene.pixels[i][1] + scene.pixels[i][2] + scene.pixels[i][3]) \div 3
         IN  Clamp(own) <= result[i] /\ result[i] <= Clamp(own + 85)

(* An accepted image comes out.                                            *)
AcceptedIsPublished ==
  \A n \in Images : Contains(accepted, n) ~> Contains(published, n)

(* With all slots taken, one becomes free again.                           *)
SlotBecomesFree == ~Free ~> Free

(* Images go on: neither a job nor a slot is lost.                         *)
ImagesGoOn == AcceptedIsPublished /\ SlotBecomesFree
=============================================================================
