SPECIFICATION Spec
CONSTANTS
  a = a
  b = b
  o1 = o1
  o2 = o2
  NoItem = NoItem
  Items = {a}
  Orders = {o1, o2}
  Basket <- Rivals
  Slips = {s1, s2}
  Clerks = {c1, c2}
  InitialStock = 2
  Ops <- OpKinds
  MaxRequests = 5
INVARIANTS
  WarehouseIsSound
  PromisedOnce
  OffersAreFree
  LedgerExplainsStock
SYMMETRY Symmetry
CHECK_DEADLOCK FALSE
