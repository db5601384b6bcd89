SPECIFICATION Spec
CONSTANTS
    MaxHistory = 5
    MaxCollection = 5
    NoReceipt = NoReceipt
    NoSnapshot = NoSnapshot
    NoCall = NoCall
    NoLimit = NoLimit
    Overwritten = Overwritten
    MaxSigmas = 6
    MaxFaults = 0
    MaxResults = 3
    Limits <- MCLimits
    Specs <- MCSpecs
    Schedules <- MCSchedules
INVARIANTS
    MatchesUninterrupted
CHECK_DEADLOCK FALSE
