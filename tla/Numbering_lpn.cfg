SPECIFICATION Spec
CONSTANTS
  Copies = {x1, x2, x3}
  OldCopy = OldCopy
  Jobs = {j1, j2}
  NoJob = NoJob
  Clerks = {c1, c2}
  Radix = 10
  Before = 7
  MaxRetry = 2
  Ops <- AllOps
  MaxRows = 4
  MaxRequests = 5
INVARIANTS
  RowsIdentify
  LabelsIdentify
PROPERTIES
  RefusedUnderContention
SYMMETRY Symmetry
CHECK_DEADLOCK FALSE
