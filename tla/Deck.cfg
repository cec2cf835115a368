CONSTANTS
  DeckSize = 4
  Requests <- MCRequests
  Capacities <- MCCapacities
  CardLists <- MCCardLists
  Seeds = {0, 1}
  SeededOrder <- MCSeededOrder
SPECIFICATION Spec
INVARIANTS
  DealtFromTheBack
  PyDealServed
PROPERTIES
  FailedCallChangesNothing
