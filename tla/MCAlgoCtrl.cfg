SPECIFICATION FairAlgoSpec
CONSTANTS
  j1 = j1
  j2 = j2
  f1 = f1
  f2 = f2
  NoJob = NoJob
  NoFrame = NoFrame
  MaxThreads = 2
  Jobs <- MCJobs
  Frames <- MCFrames
  NumParts = 2
INVARIANTS
  OneNormalizer
  RunningIffJobPending
  TornOnlyByDrop
PROPERTIES
  OutputStableWhileSending
  CompletesUnlessStranded
