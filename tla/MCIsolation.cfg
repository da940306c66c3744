SPECIFICATION Spec
CONSTANTS
    Workloads <- MCWorkloads
    Odd <- MCOdd
    Graphs <- MCGraphs
INVARIANT SerializableIsSerial
INVARIANT SnapshotIsSnapshot
INVARIANT CyclesAreOfTheirKind
INVARIANT SearchesFindTheCycles
PROPERTY ViolationsPersist
CHECK_DEADLOCK FALSE
