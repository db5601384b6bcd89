SPECIFICATION Spec
CONSTANTS
    Observers = {o1, o2}
    Kinds = {operation, attention}
    Prompts = 2
    CheckpointEvery = 2
    MaxCalls = 3
    MaxWriteFaults = 2
    Original = Original
    Torn = Torn
    None = None
INVARIANTS
    HookHasOwner
