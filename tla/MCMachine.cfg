CONSTANTS
    Keys = {}
    Values <- MCValues
    Milliseconds <- MCMilliseconds
    Setups <- MCSetups
    TracesOf <- MCTracesOf
SPECIFICATION Spec
INVARIANTS
    StateIsTheSubjects
    VerdictIsTheHistorys
    StepsAreFollowed
