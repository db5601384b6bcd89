SPECIFICATION Spec
CONSTANTS
    One = 24
    Float32 <- MCFloat32
    MaxSteps = 4
    Ratio <- MCRatio
    TurboSteps = 2
    RawSteps = {2, 4}
    RawOfficial = 4
    SD3Steps = 4
    H3TurboSteps = {2, 4}
    Variants = {"Turbo", "RAW", "LoRA"}
    StepWidgets = {2, 4}
    SliceWidgets <- MCSliceWidgets
    AdvancedWidgets <- MCAdvancedWidgets
    HostTensors <- MCHostTensors
    MaxSources = 2
    MaxOutputs = 3
INVARIANTS
    EveryPairVerifies
CHECK_DEADLOCK FALSE
