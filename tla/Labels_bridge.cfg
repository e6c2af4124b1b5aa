SPECIFICATION FairSpec
CONSTANTS
  Bridges <- TwoBridges
  MaxJobs = 2
  Limit = 2
  MaxFaults = 2
INVARIANTS
  QueueTellsPaper
PROPERTIES
  FirstReportStands
  EveryLabelSettles
CHECK_DEADLOCK FALSE
