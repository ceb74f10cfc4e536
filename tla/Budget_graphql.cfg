SPECIFICATION Spec
CONSTANTS
  Callers = {c1}
  Limit = 5
  Window = 3
  Floor = 2
  RefusalCarriesRate = FALSE
  MaxTime = 2
  MaxFaults = 0
CHECK_DEADLOCK FALSE
INVARIANT HeadroomKept
