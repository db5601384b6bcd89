SPECIFICATION Spec
CONSTANTS
    Lane <- MCLane
    Summaries = {s1, s2}
    Wrong = wrong
    Nothing = nothing
    MaxPolls = 2
PROPERTIES
    WaitsStopWithHost
