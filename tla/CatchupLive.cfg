CONSTANTS
  r1 = r1
  r2 = r2
  ma = ma
  mb = mb
  None = None
  Runs = {r1, r2}
  LineModel <- MCTwoModels
  BatchSize = 2
  LocksAge = TRUE
  MaxLines = 2
  MaxTruncs = 0
  MaxFails = 1
  MaxCrashes = 1
SPECIFICATION LiveSpec
INVARIANT ModelOfPushedLines
PROPERTY CatchesUp
