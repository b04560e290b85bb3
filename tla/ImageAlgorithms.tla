-------------------------- MODULE ImageAlgorithms --------------------------
(***************************************************************************)
(* What the image algorithm of the C program computes, from one image to   *)
(* the next: the normalizer (PiVisImageNormalizerAlgo.c).  AlgoCtrl says   *)
(* when it runs and which memory it shares; here a run is one step.  The   *)
(* difference algorithm (PiVisImageDiffAlgo.c) is registered beside it     *)
(* (PiVisAlgoCtrl.c:64) but never submitted, and has no step.              *)
(*                                                                         *)
(* An image is a few regions of equal color; region r has Area[r] pixels.  *)
(* No pass looks at where a pixel lies, so that the sums over a real image *)
(* are sums over regions weighted by their areas.  `unsigned int' has      *)
(* WordRange values.                                                       *)
(***************************************************************************)
EXTENDS Integers, FiniteSetsExt, Functions

CONSTANTS Colors,      \* the colors of the images, as <<red, green, blue>>
          Area,        \* the pixels of each region
          WordRange    \* number of values of an unsigned int

ASSUME ColorsAssumption == Colors \subseteq (0..255) \X (0..255) \X (0..255)
(* An image is 640 * 480 pixels: more than an average can be.              *)
ASSUME AreaAssumption == /\ IsFiniteSet(DOMAIN Area)
                         /\ \A r \in DOMAIN Area : Area[r] \in Nat \ {0}
                         /\ SumFunction(Area) > 255
ASSUME WordRangeAssumption == WordRange \in Nat \ {0}

VARIABLES crashed,             \* a division by zero has ended the process
          inputData,           \* the image the normalizer had last
          averageIntensity,    \* static, and never reset
          maxIntensity,        \* static, reset at the end of a run
          minIntensity,
          outputData           \* the result

vars == <<crashed, inputData, averageIntensity, maxIntensity, minIntensity, outputData>>

Regions == DOMAIN Area
Images == [Regions -> Colors]
Black == [r \in Regions |-> <<0, 0, 0>>]
ImageSize == SumFunction(Area)
Total(f) == SumFunction([r \in Regions |-> Area[r] * f[r]])

(* One brightness for three colors: createGrayscaleImage.                  *)
Gray(image) == [r \in Regions |-> (image[r][1] + image[r][2] + image[r][3]) \div 3]

Init == /\ crashed = FALSE
        /\ inputData = Black
        /\ averageIntensity = 0
        /\ maxIntensity = 0
        /\ minIntensity = 255
        /\ outputData = [r \in Regions |-> 0]
-----------------------------------------------------------------------------
(* The normalizer, pass by pass                                            *)

Filtered(gray) == [r \in Regions |-> IF gray[r] > 240 THEN 240 ELSE IF gray[r] < 20 THEN 20 ELSE gray[r]]

(* A plausible wrong one: the old average counts like an image.            *)
AverageWithOld(gray, old) == (Total(Filtered(gray)) + old * ImageSize) \div (2 * ImageSize)

(* Another: the sum of the image is divided before the old one is added.   *)
AverageAddedLast(gray, old) == Total(Filtered(gray)) \div ImageSize + old

(* The sum starts from the average of the image before.                    *)
Average(gray, old) == (Total(Filtered(gray)) + old) \div ImageSize

(* The sum of the filtered deviation times the unfiltered one.             *)
Spread(gray, average) ==
  LET filtered == Filtered(gray)
  IN  Total([r \in Regions |-> (filtered[r] - average) * (gray[r] - average)])

Deviation(gray, average) ==
  LET variance == (Spread(gray, average) % WordRange) \div ImageSize
  IN  CHOOSE root \in 0..variance : root * root <= variance /\ variance < (root + 1) * (root + 1)

(* A pixel above the average becomes its distance in deviations; dividing  *)
(* by a deviation of zero ends the process.                                *)
Bright(filtered, average) == {r \in Regions : filtered[r] > average}
Intensity(filtered, average, deviation) ==
  [r \in Regions |-> IF filtered[r] > average
                       THEN (filtered[r] - average) \div deviation
                       ELSE filtered[r]]

Factor(max, min) == 255 \div (max - min)

(* The darkest pixels stay as they are; the bytes take the rest.           *)
Stretched(intensity, max, min) ==
  [r \in Regions |-> IF intensity[r] > min
                       THEN ((intensity[r] - min) * Factor(max, min)) % 256
                       ELSE intensity[r]]

(* A plausible wrong end of a run: nothing to reset.                       *)
ResetNothing(max, min) == maxIntensity' = max /\ minIntensity' = min
ResetExtremes(max, min) == maxIntensity' = 0 /\ minIntensity' = 255

Crash == crashed' = TRUE /\ UNCHANGED <<maxIntensity, minIntensity, outputData>>

DividesByZero(filtered, average, deviation) == deviation = 0 /\ Bright(filtered, average) # {}

NormalizerExec(image) ==
  /\ ~crashed
  /\ LET gray == Gray(image)
         average == Average(gray, averageIntensity)
         deviation == Deviation(gray, average)
         filtered == Filtered(gray)
         intensity == Intensity(filtered, average, deviation)
         max == Max(Range(intensity) \cup {maxIntensity})
         min == Min(Range(intensity) \cup {minIntensity})
     IN  /\ inputData' = image
         /\ averageIntensity' = average
         /\ IF DividesByZero(filtered, average, deviation) \/ max = min
              THEN Crash
              ELSE /\ outputData' = Stretched(intensity, max, min)
                   /\ ResetExtremes(max, min)
                   /\ UNCHANGED crashed
-----------------------------------------------------------------------------
Next == \E image \in Images : NormalizerExec(image)

Spec == Init /\ [][Next]_vars
-----------------------------------------------------------------------------
TypeOK ==
  /\ crashed \in BOOLEAN
  /\ inputData \in Images \cup {Black}
  /\ averageIntensity \in 0..255
  /\ maxIntensity \in 0..255 /\ minIntensity \in 0..255
  /\ outputData \in [Regions -> 0..255]

Processed == averageIntensity # 0    \* the normalizer has run

(* The static sum is never reset, so that each average begins with the one *)
(* before (:64, :69): it is still the average of this image, or one above. *)
AverageIsOfThisImage ==
  Processed => averageIntensity - Total(Filtered(Gray(inputData))) \div ImageSize \in {0, 1}

(* Whatever was normalized before, a result uses at least half of the      *)
(* range of a byte: the extremes are those of its own image (:93-113,      *)
(* :127-128).                                                              *)
ResultUsesTheRange == Processed /\ ~crashed => Max(Range(outputData)) >= 128

(* All values are of their types, and the statics carry next to nothing    *)
(* from one image into the next.                                           *)
NothingCarriedOver == TypeOK /\ AverageIsOfThisImage /\ ResultUsesTheRange

(* The two divisions fail on three kinds of images only (:90, :106): their *)
(* spread is nearly nothing; or it does not fit an unsigned int, which     *)
(* takes a scene that is half black and half white (:75); or all that is   *)
(* not bright in them has one brightness, as with a lamp in the dark.      *)
CrashNeedsOddImage ==
  crashed => LET gray == Gray(inputData)
                 filtered == Filtered(gray)
                 dark == Regions \ Bright(filtered, averageIntensity)
                 spread == Spread(gray, averageIntensity)
             IN  \/ spread < ImageSize
                 \/ spread >= WordRange
                 \/ dark # {} /\ \A r, s \in dark : filtered[r] = filtered[s]
=============================================================================
