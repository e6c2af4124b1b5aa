SPECIFICATION Spec
CONSTANTS
  Jobs = {j1}
  ReturnJobs <- NoJobs
  Workers = {w1, w2}
  NoWorker = NoWorker
  NoMessage = NoMessage
  MaxRetries = 1
  QueueCap = 1
  Faults <- AllFaults
  MaxFaults = 2
  Ops <- AllOps
  MaxOps = 2
SYMMETRY WorkerSymmetry
INVARIANTS TypeOK StockFollowsDecision LeaseExclusive FailedIsQuarantined RejectionAsksRestock DeletionIsFinal
PROPERTY DecisionIsFinal
CHECK_DEADLOCK FALSE
