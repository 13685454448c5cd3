SPECIFICATION Spec
CONSTANTS
    None = None
    Paths = {1, 2}
    Worktrees = {0, 1, 2}
    Refs = {1, 2}
    GitHub = {0}
    Default <- MCDefault
    Procs = {"loop"}
    Does <- MCDoes
    Checkouts <- MCCheckouts
    Start <- MCStart
    BatchSize = 1
    MaxEvents = 2
    MaxFaults = 1
INVARIANT HiddenThroughInterruptions
CHECK_DEADLOCK FALSE
