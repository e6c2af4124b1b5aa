SPECIFICATION FairSpec
CONSTANTS
  Jobs = {j1, j2}
  ReturnJobs = {j1}
  Workers = {w1, w2}
  NoWorker = NoWorker
  NoMessage = NoMessage
  MaxRetries = 0
  QueueCap = 1
  Faults <- DeliveryFaults
  MaxFaults = 1
  Ops <- NoOps
  MaxOps = 0
PROPERTY ImplementsContract
CHECK_DEADLOCK FALSE
