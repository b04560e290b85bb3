SPECIFICATION Spec
CONSTANTS
  Area <- SpotAndHalves
  Colors <- FiveColors
  WordRange = 16777216
CHECK_DEADLOCK FALSE
INVARIANTS
  NothingCarriedOver
  CrashNeedsOddImage
