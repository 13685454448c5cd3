SPECIFICATION ObserversSpec
CONSTANTS
    Nothing = Nothing
    MaxEvents = 3
    MaxFaults = 1
    Inputs <- MCInputs
INVARIANTS  ChangesLeadToState KnownOriginIsStored
CHECK_DEADLOCK FALSE
