SPECIFICATION PipelineSpec
CONSTANTS
  Jobs = {j1}
  ReturnJobs = {j1}
  Workers = {w1, w2}
  NoWorker = NoWorker
  NoMessage = NoMessage
  MaxRetries = 1
  QueueCap = 1
  Faults <- AllFaults
  MaxFaults = 1
  Ops <- AllOps
  MaxOps = 1
  Images = 2
  MaxDefects = 2
  MaxRuns = 2
  Workbook = FALSE
  Defects <- MCDefects
  Hits <- MCHits
  Candidates <- MCCandidates
  Unreadable <- MCUnreadable
  Rulings <- MCRulings
INVARIANTS
  VerdictIsFounded
  PromisesAreFounded
PROPERTIES
  EveryJobSettles
  RunEnds
CHECK_DEADLOCK FALSE
