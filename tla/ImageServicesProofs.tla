------------------------ MODULE ImageServicesProofs ------------------------
(***************************************************************************)
(* What ImageServices guarantees for any number of images, any limit on    *)
(* the jobs, any colors and any size of an image.                          *)
(*                                                                         *)
(* The counter of the grayscale object is the number of its jobs, whatever *)
(* order events are handled and jobs end in: SlotsInv, which also says     *)
(* that an image is in one place on its way.  A published image has passed *)
(* few: those that it passes are all in jobs, and the counter bounds them. *)
(*                                                                         *)
(* The brightness of a pixel needs two inductions over the pixels, that    *)
(* the recursive function of Grayscale exists and that its values are      *)
(* bytes.  Both are done with the least counterexample.                    *)
(***************************************************************************)
EXTENDS ImageServices, FiniteSetTheorems, SequenceTheorems, WellFoundedInduction, TLAPS

(* An image is in one place on its way, and a new one is in none: a job    *)
(* that is submitted is one more, and one that ends is one less.           *)
ImageInOnePlace ==
  /\ cameraRx \cup colorTx \cup colorRx \cup jobs \cup leaving \subseteq 1..captured
  /\ cameraRx \cap (colorTx \cup colorRx \cup jobs \cup leaving) = {}
  /\ colorTx \cap (colorRx \cup jobs \cup leaving) = {}
  /\ colorRx \cap (jobs \cup leaving) = {}
  /\ jobs \cap leaving = {}

SlotsInv == SlotsInOrder /\ ImageInOnePlace

LEMMA SlotsInit == Init => SlotsInv
BY FS_EmptySet, LimitAssumption, MaxImagesAssumption
   DEF Init, SlotsInv, SlotsInOrder, TypeOK, JobsAreCounted, ImageInOnePlace, Images

(* Sets of images are finite: their cardinality goes up and down by one.   *)
LEMMA ImageSetsCount ==
  ASSUME NEW S \in SUBSET Images, NEW n
  PROVE  /\ Cardinality(S) \in Nat
         /\ n \notin S => Cardinality(S \cup {n}) = Cardinality(S) + 1
         /\ n \in S => Cardinality(S \ {n}) = Cardinality(S) - 1
<1>1. IsFiniteSet(Images)
  BY FS_Interval, MaxImagesAssumption DEF Images
<1>2. IsFiniteSet(S)
  BY <1>1, FS_Subset
<1> QED
  BY <1>2, FS_CardinalityType, FS_AddElement, FS_RemoveElement

LEMMA SlotsStep == SlotsInv /\ [Next]_vars => SlotsInv'
<1> SUFFICES ASSUME SlotsInv, [Next]_vars
             PROVE  SlotsInv'
  OBVIOUS
<1> USE LimitAssumption, MaxImagesAssumption DEF SlotsInv, SlotsInOrder, TypeOK, Images
<1>1. /\ jobs \in SUBSET Images /\ leaving \in SUBSET Images
      /\ Cardinality(jobs) \in Nat /\ Cardinality(leaving) \in Nat
  BY ImageSetsCount
<1>2. CASE NewImage
  <2>1. captured' \in 1..MaxImages /\ captured' = captured + 1
    BY <1>2 DEF NewImage
  <2>2. TypeOK' /\ JobsAreCounted'
    BY <1>2, <2>1 DEF NewImage, jobVars, JobsAreCounted
  <2>3. ImageInOnePlace'
    BY <1>2, <2>1 DEF NewImage, jobVars, ImageInOnePlace
  <2> QED
    BY <2>2, <2>3
<1>3. ASSUME NEW n \in Images, CameraImage(n)
      PROVE  SlotsInv'
  <2>1. TypeOK' /\ JobsAreCounted'
    BY <1>3 DEF CameraImage, jobVars, JobsAreCounted
  <2>2. ImageInOnePlace'
    BY <1>3 DEF CameraImage, jobVars, ImageInOnePlace
  <2> QED
    BY <2>1, <2>2
<1>4. ASSUME NEW n \in Images, Connection(n)
      PROVE  SlotsInv'
  <2>1. TypeOK' /\ JobsAreCounted'
    BY <1>4 DEF Connection, coordVars, jobVars, JobsAreCounted
  <2>2. ImageInOnePlace'
    BY <1>4 DEF Connection, coordVars, jobVars, ImageInOnePlace
  <2> QED
    BY <2>1, <2>2
<1>5. ASSUME NEW n \in Images, ColorImage(n)
      PROVE  SlotsInv'
  <2>1. CASE Free
    <3>1. n \notin jobs
      BY <1>5 DEF ColorImage, ImageInOnePlace
    <3>2. Cardinality(jobs') = Cardinality(jobs) + 1
      BY <1>1, <1>5, <2>1, <3>1, ImageSetsCount DEF ColorImage, WithWaiting
    <3>3. TypeOK'
      <4>1. /\ jobs' = jobs \cup {n} /\ accepted' = Append(accepted, n)
            /\ numJobsOngoing' = numJobsOngoing + 1 /\ colorRx' = colorRx \ {n}
            /\ UNCHANGED <<scene, captured, cameraRx, colorTx, completeInd, leaving, published, result>>
        BY <1>5, <2>1 DEF ColorImage, WithWaiting, coordVars
      <4>2. numJobsOngoing' \in 0..NumJobsLimit
        BY <2>1, <4>1 DEF Free
      <4>3. accepted' \in Seq(Images)
        BY <4>1, AppendProperties
      <4> QED
        BY <4>1, <4>2, <4>3
    <3>4. JobsAreCounted'
      <4>1. numJobsOngoing' = numJobsOngoing + 1 /\ UNCHANGED <<leaving, completeInd>>
        BY <1>5, <2>1 DEF ColorImage
      <4> QED
        BY <1>1, <3>2, <4>1 DEF JobsAreCounted
    <3>5. ImageInOnePlace'
      BY <1>5, <2>1 DEF ColorImage, WithWaiting, coordVars, ImageInOnePlace
    <3> QED
      BY <3>3, <3>4, <3>5
  <2>2. CASE ~Free
    BY <1>5, <2>2 DEF ColorImage, coordVars, JobsAreCounted, ImageInOnePlace
  <2> QED
    BY <2>1, <2>2
<1>6. CASE JobComplete
  <2>1. TypeOK' /\ JobsAreCounted'
    BY <1>1, <1>6 DEF JobComplete, OneLess, coordVars, jobVars, JobsAreCounted
  <2>2. ImageInOnePlace'
    BY <1>6 DEF JobComplete, coordVars, jobVars, ImageInOnePlace
  <2> QED
    BY <2>1, <2>2
<1>7. ASSUME NEW n \in Images, Publish(n)
      PROVE  SlotsInv'
  <2>1. n \in jobs /\ n \notin leaving
    BY <1>7 DEF Publish, ImageInOnePlace
  <2>2. Cardinality(jobs') = Cardinality(jobs) - 1 /\ Cardinality(leaving') = Cardinality(leaving) + 1
    BY <1>1, <1>7, <2>1, ImageSetsCount DEF Publish
  <2>3. TypeOK' /\ JobsAreCounted'
    <3>1. /\ jobs' = jobs \ {n} /\ leaving' = leaving \cup {n} /\ published' = Append(published, n)
          /\ UNCHANGED <<scene, captured, cameraRx, colorTx, colorRx, completeInd, numJobsOngoing, accepted>>
      BY <1>7 DEF Publish, coordVars
    <3>2. published' \in Seq(Images)
      BY <3>1, AppendProperties
    <3>3. TypeOK'
      BY <3>1, <3>2
    <3>4. JobsAreCounted'
      BY <1>1, <2>2, <3>1 DEF JobsAreCounted
    <3> QED
      BY <3>3, <3>4
  <2>4. ImageInOnePlace'
    BY <1>7 DEF Publish, coordVars, ImageInOnePlace
  <2> QED
    BY <2>3, <2>4
<1>8. ASSUME NEW n \in Images, Complete(n)
      PROVE  SlotsInv'
  <2>1. Cardinality(leaving') = Cardinality(leaving) - 1
    BY <1>1, <1>8, ImageSetsCount DEF Complete
  <2>2. TypeOK' /\ JobsAreCounted'
    BY <1>1, <1>8, <2>1 DEF Complete, coordVars, JobsAreCounted
  <2>3. ImageInOnePlace'
    BY <1>8 DEF Complete, coordVars, ImageInOnePlace
  <2> QED
    BY <2>2, <2>3
<1>9. CASE UNCHANGED vars
  BY <1>9 DEF vars, coordVars, jobVars, JobsAreCounted, ImageInOnePlace
<1> QED
  BY <1>2, <1>3, <1>4, <1>5, <1>6, <1>7, <1>8, <1>9 DEF Next, Dispatch, Job

(* The counter of the grayscale object always has one unit for each job    *)
(* that waits, runs or has just ended, and so it never passes the limit,   *)
(* however the event handler and the jobs' threads take turns              *)
(* (pivision_grayscaleimage.cpp:30-35, :53).                               *)
THEOREM SlotsStayInOrder == Spec => []SlotsInOrder
<1>1. SlotsInv => SlotsInOrder
  BY DEF SlotsInv
<1> QED
  BY <1>1, SlotsInit, SlotsStep, PTL DEF Spec
-----------------------------------------------------------------------------
(* The order in which images come out                                      *)

(* The images that got a job before the a-th and are not among the first i *)
(* that came out.                                                          *)
Late(a, i) == {b \in 1..(a - 1) : \A j \in 1..i : published[j] # accepted[b]}

LEMMA HistoryTypes ==
  ASSUME TypeOK
  PROVE  /\ Len(accepted) \in Nat /\ DOMAIN accepted = 1..Len(accepted)
         /\ \A a \in 1..Len(accepted) : accepted[a] \in Images
         /\ Len(published) \in Nat /\ DOMAIN published = 1..Len(published)
         /\ \A i \in 1..Len(published) : published[i] \in Images
BY LenProperties, ElementOfSeq DEF TypeOK

LEMMA LateImages ==
  ASSUME TypeOK, NEW a \in 1..Len(accepted), NEW i \in 1..Len(published)
  PROVE  Late(a, i) = {b \in 1..(a - 1) : ~Contains(SubSeq(published, 1, i), accepted[b])}
<1>1. /\ Len(published) \in Nat /\ \A j \in 1..i : published[j] \in Images
      /\ i \in Int /\ 1 <= i /\ i - 1 + 1 = i
  BY HistoryTypes
<1>2. Len(SubSeq(published, 1, i)) = i /\ \A j \in 1..i : SubSeq(published, 1, i)[j] = published[j]
  <2>1. 1 \in Int /\ \A j \in 1..i : 1 + j - 1 = j
    OBVIOUS
  <2> QED
    BY <1>1, <2>1, SubSeqProperties
<1>3. \A x : Contains(SubSeq(published, 1, i), x) <=> \E j \in 1..i : published[j] = x
  BY <1>2 DEF Contains
<1> QED
  BY <1>3 DEF Late

(* An image is accepted once and comes out once.                           *)
HistoryInv ==
  /\ \A a, b \in 1..Len(accepted) : accepted[a] = accepted[b] => a = b
  /\ \A i, j \in 1..Len(published) : published[i] = published[j] => i = j
  /\ \A a \in 1..Len(accepted) : accepted[a] \in (1..captured) \ (cameraRx \cup colorTx \cup colorRx)
  /\ \A a \in 1..Len(accepted) : accepted[a] \in jobs \/ \E i \in 1..Len(published) : published[i] = accepted[a]
  /\ \A i \in 1..Len(published) : published[i] \notin jobs /\ \E a \in 1..Len(accepted) : published[i] = accepted[a]
  /\ \A n \in jobs : \E a \in 1..Len(accepted) : accepted[a] = n
FewLate ==
  \A i \in 1..Len(published), a \in 1..Len(accepted) :
    accepted[a] = published[i] => Cardinality(Late(a, i)) < NumJobsLimit

(* Those that are late have a job, as long as the image does that overtakes*)
(* them, and so have a slot each.                                          *)
LEMMA LateHaveSlots ==
  ASSUME SlotsInv, HistoryInv, NEW a \in 1..Len(accepted), accepted[a] \in jobs
  PROVE  Cardinality(Late(a, Len(published))) < NumJobsLimit
<1> DEFINE L == Late(a, Len(published))
           T == jobs \ {accepted[a]}
           f == [b \in L |-> accepted[b]]
<1>1. TypeOK /\ jobs \in SUBSET Images /\ JobsAreCounted /\ leaving \in SUBSET Images
  BY DEF SlotsInv, SlotsInOrder, TypeOK
<1>2. L \subseteq 1..Len(accepted) /\ a \notin L
  BY <1>1, HistoryTypes DEF Late
<1>3. \A b \in L : accepted[b] \in T
  BY <1>2 DEF HistoryInv, Late
<1>4. f \in Injection(L, T)
  BY <1>2, <1>3 DEF HistoryInv, Injection, IsInjective
<1>5. IsFiniteSet(T)
  <2>1. IsFiniteSet(Images)
    BY FS_Interval, MaxImagesAssumption DEF Images
  <2>2. T \subseteq Images
    BY <1>1
  <2> QED
    BY <2>1, <2>2, FS_Subset
<1>6. Cardinality(L) <= Cardinality(T) /\ IsFiniteSet(L)
  BY <1>4, <1>5, FS_Injection
<1>7. Cardinality(L) \in Nat /\ Cardinality(T) = Cardinality(jobs) - 1 /\ Cardinality(jobs) \in Nat
      /\ Cardinality(leaving) \in Nat
  BY <1>1, <1>6, FS_CardinalityType, ImageSetsCount
<1> HIDE DEF L, T
<1>8. Cardinality(jobs) <= NumJobsLimit /\ NumJobsLimit \in Nat
  BY <1>1, <1>7, LimitAssumption DEF JobsAreCounted, TypeOK
<1>9. Cardinality(L) < NumJobsLimit
  BY <1>6, <1>7, <1>8
<1> QED
  BY <1>9 DEF L

LEMMA HistoryStep == SlotsInv /\ HistoryInv /\ FewLate /\ [Next]_vars => HistoryInv' /\ FewLate'
<1> SUFFICES ASSUME SlotsInv, HistoryInv, FewLate, [Next]_vars
             PROVE  HistoryInv' /\ FewLate'
  OBVIOUS
<1>1. /\ TypeOK /\ ImageInOnePlace
      /\ Len(accepted) \in Nat /\ Len(published) \in Nat /\ captured \in Nat
  BY HistoryTypes DEF SlotsInv, SlotsInOrder, TypeOK
<1>2. ASSUME UNCHANGED <<accepted, published, jobs>>, captured' = captured \/ captured' = captured + 1,
             cameraRx' \cup colorTx' \cup colorRx' \subseteq
               (cameraRx \cup colorTx \cup colorRx) \cup ({captured'} \ (1..captured))
      PROVE  HistoryInv' /\ FewLate'
  <2>1. FewLate'
    BY <1>2 DEF FewLate, Late
  <2>2. \A n \in (1..captured) \ (cameraRx \cup colorTx \cup colorRx) :
          n \in (1..captured') \ (cameraRx' \cup colorTx' \cup colorRx')
    BY <1>1, <1>2
  <2>3. HistoryInv'
    BY <1>2, <2>2 DEF HistoryInv
  <2> QED
    BY <2>1, <2>3
<1>3. CASE NewImage
  BY <1>1, <1>2, <1>3 DEF NewImage, jobVars
<1>4. ASSUME NEW n \in Images, CameraImage(n) \/ Connection(n) \/ Complete(n)
      PROVE  HistoryInv' /\ FewLate'
  BY <1>1, <1>2, <1>4 DEF CameraImage, Connection, Complete, coordVars, jobVars
<1>5. CASE JobComplete \/ UNCHANGED vars
  BY <1>1, <1>2, <1>5 DEF JobComplete, coordVars, jobVars, vars
<1>6. ASSUME NEW n \in Images, ColorImage(n), Free
      PROVE  HistoryInv' /\ FewLate'
  <2> DEFINE last == Len(accepted) + 1
  <2>1. /\ n \in colorRx /\ n \in 1..captured /\ jobs' = jobs \cup {n} /\ colorRx' = colorRx \ {n}
        /\ accepted' = Append(accepted, n)
        /\ UNCHANGED <<captured, cameraRx, colorTx, published>>
        /\ n \notin cameraRx /\ n \notin colorTx
    BY <1>1, <1>6 DEF ColorImage, WithWaiting, coordVars, ImageInOnePlace
  <2>2. /\ Len(accepted') = last /\ \A a \in 1..Len(accepted) : accepted'[a] = accepted[a]
        /\ accepted'[last] = n
    BY <1>1, <2>1, AppendProperties DEF TypeOK
  <2>3. \A a \in 1..last : a \in 1..Len(accepted) \/ a = last
    BY <1>1
  <2>4. 1..Len(accepted) \subseteq 1..last /\ last \in 1..last
    BY <1>1
  <2>5. \A a \in 1..Len(accepted) : accepted[a] # n
    BY <2>1 DEF HistoryInv
  <2>6. \A i \in 1..Len(published) : published[i] # n
    BY <2>5 DEF HistoryInv
  <2>7. \A a \in 1..Len(accepted), i \in 1..Len(published) : Late(a, i)' = Late(a, i)
    <3> TAKE a \in 1..Len(accepted), i \in 1..Len(published)
    <3>1. \A b \in 1..(a - 1) : accepted'[b] = accepted[b]
      BY <1>1, <2>2
    <3> QED
      BY <2>1, <3>1 DEF Late
  <2> HIDE DEF last
  <2>8. HistoryInv'
    BY <2>1, <2>2, <2>3, <2>4, <2>5, <2>6 DEF HistoryInv
  <2>9. FewLate'
    <3> SUFFICES ASSUME NEW i \in 1..Len(published), NEW a \in 1..last, accepted'[a] = published[i]
                 PROVE  Cardinality(Late(a, i)') < NumJobsLimit
      BY <2>1, <2>2 DEF FewLate
    <3>1. a \in 1..Len(accepted)
      BY <2>2, <2>3, <2>6
    <3> QED
      BY <2>2, <2>7, <3>1 DEF FewLate
  <2> QED
    BY <2>8, <2>9
<1>7. ASSUME NEW n \in Images, ColorImage(n), ~Free
      PROVE  HistoryInv' /\ FewLate'
  BY <1>1, <1>2, <1>7 DEF ColorImage, coordVars
<1>8. ASSUME NEW n \in Images, Publish(n)
      PROVE  HistoryInv' /\ FewLate'
  <2> DEFINE last == Len(published) + 1
  <2>1. /\ n \in jobs /\ jobs' = jobs \ {n} /\ published' = Append(published, n)
        /\ UNCHANGED <<captured, cameraRx, colorTx, colorRx, accepted>>
    BY <1>8 DEF Publish, coordVars
  <2>2. /\ Len(published') = last /\ \A i \in 1..Len(published) : published'[i] = published[i]
        /\ published'[last] = n
    BY <1>1, <2>1, AppendProperties DEF TypeOK
  <2>3. \A i \in 1..last : i \in 1..Len(published) \/ i = last
    BY <1>1
  <2>4. 1..Len(published) \subseteq 1..last /\ last \in 1..last
    BY <1>1
  <2>5. \A i \in 1..Len(published) : published[i] # n
    BY <2>1 DEF HistoryInv
  <2>6. \A a \in 1..Len(accepted), i \in 1..Len(published) : Late(a, i)' = Late(a, i)
    <3> TAKE a \in 1..Len(accepted), i \in 1..Len(published)
    <3>1. \A j \in 1..i : published'[j] = published[j]
      BY <1>1, <2>2
    <3> QED
      BY <2>1, <3>1 DEF Late
  <2>7. \A a \in 1..Len(accepted), i \in {last} : accepted[a] = n => Cardinality(Late(a, i)') < NumJobsLimit
    <3> SUFFICES ASSUME NEW a \in 1..Len(accepted), NEW i, i = last, accepted[a] = n
                 PROVE  Cardinality(Late(a, i)') < NumJobsLimit
      OBVIOUS
    <3>1. \A b \in 1..(a - 1) : b \in 1..Len(accepted) /\ accepted[b] # n
      BY <1>1 DEF HistoryInv
    <3>2. \A x : x # n => ((\A j \in 1..i : published'[j] # x) <=> (\A j \in 1..Len(published) : published[j] # x))
      BY <2>2, <2>3, <2>4
    <3> HIDE DEF last
    <3>3. Late(a, i)' = Late(a, Len(published))
      <4>1. Late(a, i)' = {b \in 1..(a - 1) : \A j \in 1..i : published'[j] # accepted[b]}
        BY <2>1 DEF Late
      <4>2. \A b \in 1..(a - 1) : (\A j \in 1..i : published'[j] # accepted[b])
                                    <=> (\A j \in 1..Len(published) : published[j] # accepted[b])
        BY <3>1, <3>2, Zenon
      <4> QED
        BY <4>1, <4>2, Zenon DEF Late
    <3> QED
      BY <2>1, <3>3, LateHaveSlots
  <2>8. \E a \in 1..Len(accepted) : accepted[a] = n
    BY <2>1 DEF HistoryInv
  <2> HIDE DEF last
  <2>9. HistoryInv'
    BY <2>1, <2>2, <2>3, <2>4, <2>5, <2>8 DEF HistoryInv
  <2>10. FewLate'
    <3> SUFFICES ASSUME NEW i \in 1..last, NEW a \in 1..Len(accepted), accepted[a] = published'[i]
                 PROVE  Cardinality(Late(a, i)') < NumJobsLimit
      BY <2>1, <2>2 DEF FewLate
    <3>1. CASE i = last
      BY <2>2, <2>7, <3>1
    <3>2. CASE i \in 1..Len(published)
      BY <2>2, <2>6, <3>2 DEF FewLate
    <3> QED
      BY <2>3, <3>1, <3>2
  <2> QED
    BY <2>9, <2>10
<1> QED
  BY <1>3, <1>4, <1>5, <1>6, <1>7, <1>8 DEF Next, Dispatch, Job

(* Jobs end in any order, but the slots bound how much: an image comes out *)
(* once, and before fewer than NumJobsLimit images that were accepted      *)
(* before it (pivision_grayscaleimage.cpp:30-35).                          *)
THEOREM FewArePassed == Spec => []PassesFew
<1>1. Init => HistoryInv /\ FewLate
  BY EmptySeq DEF Init, HistoryInv, FewLate
<1>2. SlotsInv /\ HistoryInv /\ FewLate => PassesFew
  <2> SUFFICES ASSUME SlotsInv, HistoryInv, FewLate PROVE PassesFew
    OBVIOUS
  <2>1. TypeOK
    BY DEF SlotsInv, SlotsInOrder
  <2>2. IsInjective(published)
    BY <2>1, HistoryTypes DEF HistoryInv, IsInjective
  <2> QED
    BY <2>1, <2>2, HistoryTypes, LateImages DEF FewLate, PassesFew
<1> QED
  BY <1>1, <1>2, SlotsInit, SlotsStep, HistoryStep, PTL DEF Spec
-----------------------------------------------------------------------------
(* The black and white image                                               *)

(* A set of numbers that is not empty has a least one.                     *)
LEMMA LeastNumber ==
  ASSUME NEW T \in SUBSET Nat, T # {}
  PROVE  \E x \in T : \A y \in T : x <= y
<1>1. PICK R : /\ IsWellFoundedOn(R, Nat)
               /\ \A x, y \in Nat : <<x, y>> \in R <=> x < y
  <2>1. \A x, y \in Nat : <<x, y>> \in OpToRel(<, Nat) <=> x < y
    BY DEF OpToRel
  <2> QED
    BY <2>1, NatLessThanWellFounded, Zenon
<1>2. \E x \in T : \A y \in T : ~ (<<y, x>> \in R)
  <2>1. IsWellFoundedOn(R, Nat) /\ T \subseteq Nat
    BY <1>1
  <2> QED
    BY <2>1, WFMin, Zenon
<1>3. PICK x \in T : \A y \in T : ~ (<<y, x>> \in R)
  BY <1>2
<1>4. \A y \in T : ~ (y < x)
  BY <1>1, <1>3, Zenon
<1>5. \A y \in T : x <= y
  BY <1>4
<1> QED
  BY <1>5

(* f holds the intensity after every pixel up to the n-th.                 *)
IsLevels(f, pixels, n) ==
  f = [i \in 0..n |-> IF i = 0 THEN 0 ELSE Level(f[i - 1], pixels[i])]

LEMMA LevelsExist ==
  ASSUME NEW pixels, NEW n \in Nat
  PROVE  \E f : IsLevels(f, pixels, n)
<1> DEFINE Bad == {m \in Nat : ~ \E f : IsLevels(f, pixels, m)}
<1>1. SUFFICES ASSUME Bad # {}
               PROVE  FALSE
  OBVIOUS
<1>2. PICK m \in Bad : \A k \in Bad : m <= k
  <2>1. Bad \in SUBSET Nat
    OBVIOUS
  <2> HIDE DEF Bad
  <2> QED
    BY <1>1, <2>1, LeastNumber
<1>3. m # 0
  <2> SUFFICES ASSUME m = 0 PROVE FALSE
    OBVIOUS
  <2> DEFINE f == [i \in 0..0 |-> 0]
  <2>1. IsLevels(f, pixels, 0)
    BY DEF IsLevels
  <2> QED
    BY <2>1
<1>4. m - 1 \in Nat /\ m - 1 \notin Bad
  BY <1>2, <1>3
<1>5. PICK g : IsLevels(g, pixels, m - 1)
  BY <1>4
<1> DEFINE f == [i \in 0..m |-> IF i = m THEN Level(g[m - 1], pixels[m]) ELSE g[i]]
<1>6. \A i \in 0..(m - 1) : f[i] = g[i] /\ g[i] = IF i = 0 THEN 0 ELSE Level(g[i - 1], pixels[i])
  BY <1>2, <1>4, <1>5 DEF IsLevels
<1>7. \A i \in 0..m : f[i] = IF i = 0 THEN 0 ELSE Level(f[i - 1], pixels[i])
  <2> TAKE i \in 0..m
  <2>1. CASE i = m
    <3>1. f[m] = Level(g[m - 1], pixels[m]) /\ f[m - 1] = g[m - 1]
      BY <1>4, <1>6
    <3> QED
      BY <1>3, <2>1, <3>1
  <2>2. CASE i \in 0..(m - 1) /\ i = 0
    BY <1>6, <2>2
  <2>3. CASE i \in 0..(m - 1) /\ i # 0
    <3>1. i - 1 \in 0..(m - 1)
      BY <1>4, <2>3
    <3> HIDE DEF f
    <3> QED
      BY <1>6, <2>3, <3>1
  <2> QED
    BY <1>4, <2>1, <2>2, <2>3
<1>8. IsLevels(f, pixels, m)
  BY <1>7 DEF IsLevels
<1> QED
  BY <1>8

LEMMA GrayscaleLevels ==
  ASSUME NEW image, Len(image.pixels) \in Nat
  PROVE  \E f : /\ IsLevels(f, image.pixels, Len(image.pixels))
                /\ Grayscale(image) = [i \in 1..Min({Len(image.pixels), image.area}) |-> f[i]]
<1> DEFINE level == CHOOSE f : IsLevels(f, image.pixels, Len(image.pixels))
<1>1. IsLevels(level, image.pixels, Len(image.pixels))
  BY LevelsExist, Zenon
<1>2. Grayscale(image) = [i \in 1..Min({Len(image.pixels), image.area}) |-> level[i]]
  BY Zenon DEF Grayscale, IsLevels
<1> QED
  BY <1>1, <1>2

(* The bytes of a color.                                                   *)
LEMMA ColorBytes ==
  ASSUME NEW color \in Colors
  PROVE  color[1] \in 0..255 /\ color[2] \in 0..255 /\ color[3] \in 0..255
<1>1. color \in (0..255) \X (0..255) \X (0..255)
  BY ColorsAssumption
<1> QED
  BY <1>1

(* What a pixel gets from itself and from the one before.                  *)
LEMMA LevelOfColor ==
  ASSUME NEW before \in 0..254, NEW color \in Colors
  PROVE  LET own == (color[1] + color[2] + color[3]) \div 3
         IN  /\ Level(before, color) \in 1..254
             /\ Clamp(own) <= Level(before, color)
             /\ Level(before, color) <= Clamp(own + 85)
<1>1. color[1] \in 0..255 /\ color[2] \in 0..255 /\ color[3] \in 0..255
  BY ColorBytes
<1>2. PICK red \in 0..255, green \in 0..255, blue \in 0..255 :
         color[1] = red /\ color[2] = green /\ color[3] = blue
  BY <1>1, Zenon
<1> DEFINE own == (red + green + blue) \div 3
           level == Clamp((before + red + green + blue) \div 3)
<1>3. level \in 1..254
  BY DEF Clamp
<1>4. Clamp(own) <= level
  BY DEF Clamp
<1>5. level <= Clamp(own + 85)
  BY DEF Clamp
<1>6. Level(before, color) = level /\ (color[1] + color[2] + color[3]) \div 3 = own
  BY <1>2, Zenon DEF Level
<1> HIDE DEF level, own
<1> QED
  BY <1>3, <1>4, <1>5, <1>6, Zenon

LEMMA LevelsAreBytes ==
  ASSUME NEW pixels \in Seq(Colors), NEW f, IsLevels(f, pixels, Len(pixels))
  PROVE  \A i \in 0..Len(pixels) : f[i] \in 0..254
<1> DEFINE Bad == {i \in 0..Len(pixels) : f[i] \notin 0..254}
<1>1. SUFFICES ASSUME Bad # {}
               PROVE  FALSE
  OBVIOUS
<1>2. PICK m \in Bad : \A k \in Bad : m <= k
  <2>1. Bad \in SUBSET Nat
    OBVIOUS
  <2> HIDE DEF Bad
  <2> QED
    BY <1>1, <2>1, LeastNumber
<1>3. f[m] = IF m = 0 THEN 0 ELSE Level(f[m - 1], pixels[m])
  BY <1>2 DEF IsLevels
<1>4. m # 0 /\ m \in 1..Len(pixels)
  BY <1>2, <1>3
<1>5. f[m - 1] \in 0..254
  <2>1. m - 1 \in 0..Len(pixels) /\ ~ (m <= m - 1)
    BY <1>4
  <2>2. m - 1 \notin Bad
    BY <1>2, <2>1, Zenon
  <2> QED
    BY <2>1, <2>2, Zenon
<1>6. PICK color \in Colors : color = pixels[m]
  BY <1>4, ElementOfSeq
<1>7. Level(f[m - 1], pixels[m]) \in 1..254
  BY <1>5, <1>6, LevelOfColor, Zenon
<1>8. f[m] \in 0..254
  <2>1. 1..254 \subseteq 0..254
    OBVIOUS
  <2> QED
    BY <1>3, <1>4, <1>7, <2>1, Zenon
<1> QED
  BY <1>2, <1>8, Zenon

LEMMA ScenePixels ==
  ASSUME NEW image \in Scenes
  PROVE  /\ image.pixels \in Seq(Colors)
         /\ Min({Len(image.pixels), image.area}) = Len(image.pixels)
<1>1. image.pixels \in Seq(Colors) /\ image.area \in Nat /\ Len(image.pixels) <= image.area
  <2>1. CASE image \in [area : 0..Area, pixels : {<<>>}]
    <3>1. image.pixels = <<>> /\ image.area \in 0..Area
      BY <2>1
    <3> QED
      BY <3>1, AreaAssumption, EmptySeq
  <2>2. CASE image \in [area : {Area}, pixels : BoundedSeq(Colors, Area)]
    <3>1. PICK n \in 0..Area : image.pixels \in [1..n -> Colors]
      BY <2>2 DEF BoundedSeq, SeqOf
    <3>2. image.pixels \in Seq(Colors) /\ Len(image.pixels) = n
      BY <3>1
    <3> QED
      BY <2>2, <3>2, AreaAssumption
  <2> QED
    BY <2>1, <2>2 DEF Scenes
<1>2. Len(image.pixels) \in Nat
  BY <1>1
<1>3. ASSUME NEW x \in {Len(image.pixels), image.area},
             \A y \in {Len(image.pixels), image.area} : x <= y
      PROVE  x = Len(image.pixels)
  BY <1>1, <1>2, <1>3
<1>4. \E x \in {Len(image.pixels), image.area} : \A y \in {Len(image.pixels), image.area} : x <= y
  BY <1>1, <1>2
<1> QED
  BY <1>1, <1>3, <1>4, Zenon DEF Min

(* The black and white image, pixel by pixel.                              *)
LEMMA GrayscaleBounds ==
  ASSUME NEW image \in Scenes
  PROVE  /\ Len(Grayscale(image)) = Len(image.pixels)
         /\ DOMAIN Grayscale(image) = 1..Len(image.pixels)
         /\ \A i \in 1..Len(image.pixels) :
              LET own == (image.pixels[i][1] + image.pixels[i][2] + image.pixels[i][3]) \div 3
              IN  /\ Clamp(own) <= Grayscale(image)[i]
                  /\ Grayscale(image)[i] <= Clamp(own + 85)
<1> DEFINE n == Len(image.pixels)
<1>1. image.pixels \in Seq(Colors) /\ n \in Nat
  <2>1. image.pixels \in Seq(Colors)
    BY ScenePixels, Zenon
  <2> QED
    BY <2>1
<1>2. PICK f : IsLevels(f, image.pixels, n) /\ Grayscale(image) = [i \in 1..n |-> f[i]]
  <2>1. Min({n, image.area}) = n
    BY ScenePixels, Zenon
  <2>2. \E f : /\ IsLevels(f, image.pixels, n)
               /\ Grayscale(image) = [i \in 1..Min({n, image.area}) |-> f[i]]
    BY <1>1, GrayscaleLevels, Zenon
  <2> QED
    BY <2>1, <2>2, Zenon
<1>3. Len(Grayscale(image)) = n /\ DOMAIN Grayscale(image) = 1..n
  BY <1>1, <1>2
<1>4. ASSUME NEW i \in 1..n
      PROVE  LET own == (image.pixels[i][1] + image.pixels[i][2] + image.pixels[i][3]) \div 3
             IN  Clamp(own) <= f[i] /\ f[i] <= Clamp(own + 85)
  <2>1. PICK color \in Colors : color = image.pixels[i]
    BY <1>1, ElementOfSeq
  <2>2. f[i - 1] \in 0..254
    BY <1>1, <1>2, LevelsAreBytes
  <2>3. f[i] = Level(f[i - 1], color)
    BY <1>1, <1>2, <2>1 DEF IsLevels
  <2> QED
    BY <2>1, <2>2, <2>3, LevelOfColor, Zenon
<1> QED
  BY <1>1, <1>2, <1>3, <1>4

ResultInv == /\ scene \in Scenes
             /\ published # <<>> => result = Grayscale(scene)

(* A pixel is as bright as its own colors and at most a third of the       *)
(* brightest byte brighter, in every image that comes out                  *)
(* (pivision_grayscaleimagejob.cpp:56-79).                                 *)
THEOREM PixelsShowThemselves == Spec => []PixelShowsItself
<1>1. Init => ResultInv
  BY DEF Init, ResultInv
<1>2. ResultInv /\ [Next]_vars => ResultInv'
  <2> SUFFICES ASSUME ResultInv, [Next]_vars PROVE ResultInv'
    OBVIOUS
  <2>1. ASSUME NEW n \in Images, Publish(n) PROVE ResultInv'
    BY <2>1 DEF Publish, ResultInv
  <2>2. ASSUME NEW n \in Images, Complete(n) PROVE ResultInv'
    BY <2>2 DEF Complete, ResultInv
  <2>3. CASE NewImage \/ Dispatch \/ UNCHANGED vars
    BY <2>3 DEF NewImage, Dispatch, CameraImage, Connection, ColorImage, JobComplete,
               ResultInv, vars, coordVars, jobVars
  <2> QED
    BY <2>1, <2>2, <2>3 DEF Next, Job
<1>3. ResultInv => PixelShowsItself
  BY GrayscaleBounds DEF ResultInv, PixelShowsItself
<1> QED
  BY <1>1, <1>2, <1>3, PTL DEF Spec
=============================================================================
