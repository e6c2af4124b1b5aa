SPECIFICATION Spec
CONSTANTS
  Jobs = {j1}
  ReturnJobs <- NoJobs
  Workers = {w1}
  NoWorker = NoWorker
  NoMessage = NoMessage
  MaxRetries = 1
  QueueCap = 1
  Faults <- NoFaults
  MaxFaults = 0
  Ops <- NoOps
  MaxOps = 0
PROPERTY EscalatedNeverConfirmed
CHECK_DEADLOCK FALSE
