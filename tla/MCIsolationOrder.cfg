SPECIFICATION Spec
CONSTANTS
    Workloads <- MCWorkloads
    Odd <- MCOdd
    Graphs <- MCGraphs
INVARIANT MissesOnlyTheUnobserved
CHECK_DEADLOCK FALSE
