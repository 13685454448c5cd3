SPECIFICATION Spec
CONSTANTS
    server = server
    cli = cli
    n1 = n1
    n2 = n2
    k = k
    x = x
    a = a
    b = b
    None = None
    Procs = {server, cli}
    Server = server
    Names = {n1, n2, k, x}
    Keys = {k}
    Exchanged = {x}
    TokenTicks = 1
    PruneTicks = 0
    MaxTokens = 2
    MaxSaves = 3
    MaxFaults = 1
    MaxNow = 2
    Devices = {a, b}
    NamesFor <- MCNamesFor
    Commands <- MCCommands
    MaxPending = 1
    TTL = 1
INVARIANTS AckedChangesKept RevokedIsRefused KeyTakesItsTokens HandedOverOnce OrphansKnown
SYMMETRY MCSymmetry
CHECK_DEADLOCK FALSE
