CONSTANTS
    Size = 3
    Banks = 2
    Width = 2
    WordGrant = 1
    Window = 2
    ClockModulus = 8
    MaxCycle = 3
    Data = {0, 1}
    Zero = 0
    Watched = 1
    SwappedSaves = FALSE
    Accesses <- MCAccesses
    Channels = 2
    DramBanks = 2
    BurstBytes = 2
    RowBytes = 4
    BusWidth = 2
    Bandwidth = 1
    DramWindow = 3
    Clocks = {2, 3}
    Latencies <- MCLatencies
    RowSettings <- MCRowSettings
    Mappings = {"burst", "row", "xor"}
    Turnarounds <- MCTurnarounds
    Refreshes <- MCRefreshes
    RowPenalties <- MCRowPenalties
    Boards <- MCBoards
    Transfers <- MCTransfers
    MaxNow = 6
    MaxDramCalls = 2
    MaxDramSets = 1
    SpadSize = 4
    GbufSize = 4
    WordBytes = 2
    HierAccesses <- MCHierAccesses
    Nets <- MCNets
    CreatedSize = 2
    DefaultSize = 1
    Values = {0, 1}
    Windows <- MCWindows
    TrafficSizes = {1, 3}
    MaxAllocs = 4
    MaxNetCalls = 3
SPECIFICATION MCSpec
INVARIANTS
    MetersExact
    MemorySound
    ClusterSound
PROPERTIES
    ImplementsPingPong
    
    
CHECK_DEADLOCK FALSE
