CONSTANTS
  r1 = r1
  r2 = r2
  ma = ma
  mb = mb
  None = None
  Runs = {r1, r2}
  LineModel <- MCNoModels
  BatchSize = 1
  LocksAge = TRUE
  MaxLines = 2
  MaxTruncs = 1
  MaxFails = 1
  MaxCrashes = 1
SPECIFICATION Spec
SYMMETRY RunSymmetry
INVARIANTS SavedStateTrue LinesUnderOwnNumber
