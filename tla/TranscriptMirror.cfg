SPECIFICATION Spec
CONSTANTS
    m1 = m1
    m2 = m2
    None = None
    MaxLines = 2
    LineModel <- MCLineModel
    LineTitle <- MCTitles
    BatchLimit = 1
    MaxRuns = 1
    MaxRestarts = 1
    MaxErrors = 1
INVARIANTS DeliveredIsStored EnrichedFromTheLine ChangesLeadToModel CustomTitleShown
PROPERTY EveryLineSettles
CHECK_DEADLOCK FALSE
