CONSTANTS
    Limits <- MCLimits
    Defaults <- MCDefaults
    ShortRequests = {}
    FullRequests = {}
    DrrSettings = {}
    WeightVectors = {}
    MaxCredit = 1
    MaxConfigCalls = 0
    ConfigWord <- MCConfigWord
    Files <- MCFiles
    Edits <- MCEdits
    MaxConfigSteps = 3
SPECIFICATION MCSpec
INVARIANTS
    AcceptedInForce
CHECK_DEADLOCK FALSE
