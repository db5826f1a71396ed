CONSTANTS
    Limits <- MCLimits
    Defaults <- MCDefaults
    ShortRequests <- MCShort
    FullRequests <- MCFull
    DrrSettings = {0, 1, 2, 3}
    WeightVectors <- MCWeights
    MaxCredit = 1
    MaxConfigCalls = 4
    Word = 16
    RegionSize <- MCRegionSize
    HostSize = 9
    Page = 4
    Meter <- MCMeter
    CostMax = 40
    Orders <- MCOrders
    Repeated <- MCRepeated
    MaxTransfers = 2
SPECIFICATION MCSpec
INVARIANTS
    ConfigurationSound
    
    ChargesRight
CHECK_DEADLOCK FALSE
