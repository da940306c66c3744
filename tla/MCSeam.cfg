CONSTANTS
    Clients <- MCClients
    Operations <- MCOperations
    Outputs <- MCOutputs
    MaxEvents = 6
SPECIFICATION Spec
INVARIANTS
    CompletesOneCall
    ProcessesAreSequential
PROPERTY ImplementsProcesses
CHECK_DEADLOCK FALSE
