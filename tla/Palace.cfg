CONSTANTS
    d1 = d1  d2 = d2  c1 = c1  c2 = c2  o1 = o1  o2 = o2  o3 = o3
    Docs = {d1, d2}
    Clients = {c1, c2}
    Agents = {o1, o2, o3}
    None = None
    ClientOf <- MCClientOf
    Depends <- MCDepends
    Initial <- MCInitial
    Menu <- MCMenu
    LeaseTicks = 1
    Skew = 1
    Ahead <- MCAhead
    MaxNow <- MCMaxNow
    MaxOps = 3
    MaxFaults = 1
SPECIFICATION Spec
CHECK_DEADLOCK FALSE
INVARIANTS LostUpdateOnlyKnown ClaimsExclude HeldByWinner StartedAfterDependencies
PROPERTY StampsGoForward
SYMMETRY Symmetry
