CONSTANTS
  e1 = e1
  e2 = e2
  e3 = e3
  d1 = d1
  d2 = d2
  Events = {e1, e2}
  Procs = {d1, d2}
  MaxFaults = 1
  Oversize = {e2}
  MaxCrashes = 1
  MaxStarts = 2
SPECIFICATION LiveSpec
CHECK_DEADLOCK FALSE
INVARIANTS LostOnlyInKnownWindows OwnLinesNeverOverrun OnceUnlessDoubtful
PROPERTY BufferedEventsReplayed
