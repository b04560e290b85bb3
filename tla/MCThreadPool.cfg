SPECIFICATION FairPoolSpec
CONSTANTS
  j1 = j1
  j2 = j2
  j3 = j3
  NoJob = NoJob
  MaxThreads = 2
  Jobs <- MCJobs
INVARIANTS
  JobInOnePlace
  WaiterIsClaimable
PROPERTIES
  ImplementsJobService
  ServedUnlessStranded
