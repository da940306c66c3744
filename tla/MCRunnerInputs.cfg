CONSTANTS
    Subjects <- MCSubjects
    NodeLimits = {3, 100}
    MaxChoices = 2
    Runs <- MCRuns
    GenerationFactor = 2
    PrefixDivisor = 1
    MaxPrefixCases = 1
    MaxRejections = 1
    Checks <- MCChecks
SPECIFICATION FairRunnerSpec
INVARIANT
    InputsCountOnce
CHECK_DEADLOCK FALSE
