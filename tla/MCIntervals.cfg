CONSTANTS
    Clients <- MCClients
    Operations <- MCOperations
    Outputs <- MCOutputs
    MaxEvents = 6
    MaxEntries = 3
    MaxTime = 2
SPECIFICATION IntervalsSpec
INVARIANTS
    OnlyKeysAreRefused
    PrecedenceIsTheClocks
CHECK_DEADLOCK FALSE
