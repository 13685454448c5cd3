CONSTANTS
  e1 = e1
  e2 = e2
  e3 = e3
  Events = {e1, e2, e3}
  Procs = {e1, e2, e3}
  MaxFaults = 2
  MaxKills = 1
SPECIFICATION RelaySpec
SYMMETRY EventSymmetry
CHECK_DEADLOCK FALSE
INVARIANTS RelayLosesOnlyInKnownWindows
