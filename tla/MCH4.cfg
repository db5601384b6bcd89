SPECIFICATION MCSpec
CONSTANTS
    Requests <- MCRequests
    Outputs <- MCOutputs
    Observers = {o1, o2}
    Kinds = {operation, attention}
    CheckpointEvery = 2
    MaxCalls = 3
    MaxWriteFaults = 2
    Original = Original
    Torn = Torn
    None = None
INVARIANTS
    RunDirOutlivesTrouble
    RowTellsItsOwn
    AcceptedTraceIsComplete
    NextPromptCanObserve
PROPERTY RowsRunAsPromised
CHECK_DEADLOCK FALSE
