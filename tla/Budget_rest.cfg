SPECIFICATION FairSpec
CONSTANTS
  Callers = {c1, c2, c3}
  Limit = 9
  Window = 2
  Floor = 7
  RefusalCarriesRate = TRUE
  MaxTime = 3
  MaxFaults = 1
CHECK_DEADLOCK FALSE
INVARIANTS HeadroomKept IInv
PROPERTY OpensAgain
