SPECIFICATION Spec
CONSTANTS
  Cards = {k1, k2}
  NoCard = NoCard
  Clerks = {c1, c2}
  Answers <- Extremes
  Shortages = {2}
  InitialStock = 1
  UsedInStock = 0
  SafetyStock = 2
  MaxSold = 1
  MaxRequests = 4
INVARIANTS
  BoardIsSound
  OneOpenCard
  BoughtOnce
PROPERTIES
  PendingIsDecided
SYMMETRY Symmetry
CHECK_DEADLOCK FALSE
