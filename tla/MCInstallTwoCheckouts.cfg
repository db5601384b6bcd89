SPECIFICATION Spec
CONSTANTS
    Malformed = Malformed
    Collision = Collision
    SigmaxIds = {"Sigmax.A", "Sigmax.B", "Sigmax.C"}
    Declarations <- MCDeclarations
    Batches <- MCBatches
    Apis <- MCApis
    NodeNames = {"Sigmax.A", "Sigmax.B", "SamplerCustom", "SamplerCustomAdvanced"}
    SchedulerNames = {"simple", "other"}
    ProtectedNames = {"Sigmax.A", "Sigmax.B"}
    Providers = {"comfyui_sigmax", "comfyui", "pack"}
    Sigmax = "comfyui_sigmax"
    Contents <- MCContents
    Fingerprints = {"unmodified", "wrapped"}
    Baseline <- MCBaseline
    Absent = Absent
    Checkouts = {c1, c2}
    Parts <- MCParts
    Nobody = Nobody
    MaxLoads = 3
    NodeSchema <- MCNodeSchema
    AuthorInputs <- MCAuthorInputs
    WidgetValues <- MCWidgetValues
    MaxChanges = 1
    MaxFixtures = 1
    Gone = Gone
    NoReport = NoReport
INVARIANT ServesItsOwn
CHECK_DEADLOCK FALSE
