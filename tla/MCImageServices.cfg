SPECIFICATION FairSpec
CONSTANTS
  Colors <- FewColors
  Area = 3
  NumJobsLimit = 3
  MaxImages = 4
CHECK_DEADLOCK FALSE
INVARIANTS
  SlotsInOrder
  PassesFew
  PixelShowsItself
PROPERTIES
  ImagesGoOn
