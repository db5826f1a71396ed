CONSTANTS
    Configs <- MCConfigs
    MaxContexts = 3
    Priorities = {0, 1}
    Parts = {"live", "tail"}
    Values = {0, 1}
    Fresh = 0
    None = None
SPECIFICATION FairSpec
INVARIANTS
    SlotsAccounted
    Isolation
PROPERTIES
    
    EventuallyScheduled
