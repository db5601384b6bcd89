CONSTANTS
    One = 1000
    Float32 <- MCFloat32
    StepWidgets <- MCSteps
    SliceWidgets <- MCSlices
    TokenWidgets = {1024, 4096}
    TerminalWidgets = {100, 250}
    BuiltinSchemas <- MCBuiltinSchemas
    ExternalKeys = {"own", "other"}
    SchemaChoices <- MCSchemaChoices
    MaxEvidence = 3
    Profiles <- MCProfiles
    Samplers <- MCSamplers
    Hosts <- MCHosts
    HostVersions = {"0.30.0", "0.39.0", "0.41.0"}
    Handlers <- MCHandlers
    VideoShifts = {6, 12}
    AudioShifts = {3, 5}
    H3Steps = {1, 4, 8}
    H3Slices <- MCH3Slices
    Selectors <- MCSelectors
    HostResults <- MCHostResults
    MaxPatches = 2
    CaseAnswers <- MCCaseAnswers
    NoSchedule = NoSchedule
    NoArtifact = NoArtifact
    NoHash = NoHash
    NoVerdict = NoVerdict
SPECIFICATION Spec
INVARIANT EvidenceFollowsReference
INVARIANT BoundarySplitsDelivered
INVARIANT InheritanceFromBuiltinIsTrue
INVARIANT NoDecisionAgainstEvidence
INVARIANT DelegatedUnderOneShift
INVARIANT DelegatedInfoIsTrue
INVARIANT VerdictsAgree
INVARIANT VerdictsFollowNode
