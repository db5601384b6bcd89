SPECIFICATION MCSpec
CONSTANTS
    MaxHistory = 4
    NoReceipt = NoReceipt
    NoSnapshot = NoSnapshot
    Holders <- MCHolders
    Fingerprints = {"x", "y"}
    SigmaPairs = {p}
    StepEvaluations = {1, 2}
    ReceiptIds = {"a", "b"}
    SpecReceipts <- MCReceipts
    MaxCount = 5
    Specs <- MCSpecs
    MaxCollection = 3
    Open = Open
    NoProfile = NoProfile
    NoExecution = NoExecution
    MaxRequirements = 2
    NoMetadata = NoMetadata
    NullMetadata = NullMetadata
    OtherKeys = {"ds"}
    MaxEdits = 1
    NoRun = NoRun
    Blank = Blank
    Nothing = Nothing
    One = 8
    Float32 <- MCFloat32
    Results <- MCResults
    NodeLists <- MCNodeLists
    Outcomes <- MCOutcomes
    BackendDrafts <- MCBackendDrafts
    AdvancedRequests <- MCAdvancedRequests
INVARIANTS
    BudgetKept
    HistoryIsOneRun
    WireIsReadable
    OnlyOversizedStranded
    ReceiptTellsTheTruth
    AcceptedEvidenceAgrees
PROPERTIES
    CompletionIsFinal
    BindingIsFinal
    MetadataStands
