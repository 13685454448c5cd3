SPECIFICATION Spec
CONSTANTS
    None = None
    main = main
    dev = dev
    r1 = r1
    Main = main
    Refs = {main, dev}
    Paths = {1, 2}
    Runs = {r1}
    Batch = 1
    TooLarge = {3}
    LocksAge = TRUE
    UserDoes <- MCAll
    MaxUser = 2
    MaxFaults = 1
INVARIANTS SyncedIsStored StopSeesDifference
PROPERTY FullReconciles
CHECK_DEADLOCK FALSE
