CONSTANTS
    Keys = {"x", "y"}
    Problems <- AllProblems
SPECIFICATION FairCheckSpec
INVARIANTS
    ListIsUnlinearized
    ConfigurationIsItsOrders
    FrontierIsDeepest
    VerdictIsRight
    PartitionsAreComponents
PROPERTY Terminates
