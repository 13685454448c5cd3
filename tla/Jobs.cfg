CONSTANTS
  i1 = i1
  r1 = r1
  w1 = w1
  w2 = w2
  Installations = {i1}
  Repos = {r1}
  NoRepo = NoRepo
  Workers = {w1, w2}
  NoToken = NoToken
  MaxAttempts = 2
  LeaseTicks = 1
  BackoffBase = 1
  BackoffMax = 2
  MaxJobs = 2
  PauseTicks = {1, 2}
  MaxPauses = 2
  MaxStops = 1
SPECIFICATION LiveSpec
INVARIANTS TypeOK OneHonouredWorkerPerKey
PROPERTIES EveryJobSettles LeaveInOrder PauseWaitedOut LazyExpiryUnobservable
