SPECIFICATION MCSpec
CONSTANTS
    MaxHistory = 5
    MaxCollection = 5
    NoReceipt = NoReceipt
    NoSnapshot = NoSnapshot
    NoCall = NoCall
    NoLimit = NoLimit
    Overwritten = Overwritten
    MaxSigmas = 6
    MaxFaults = 1
    MaxResults = 3
    Limits <- MCLimits
    Specs <- MCSpecs
    Schedules <- MCSchedules
    NoNoise = NoNoise
    Seeds = {s1, s2}
    Lengths = {1, 2, 5}
    MaxReseeds = 1
INVARIANTS
    StepsAreAccepted
    NoiseIsOneStream
    ResultsAreEvidence
PROPERTIES
    KeepsPromise
CHECK_DEADLOCK FALSE
