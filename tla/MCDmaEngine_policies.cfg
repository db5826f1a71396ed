CONSTANTS
    Modes <- MCPolicies
    NumChannels = 3
    MaxDepth = 2
    DepthModulus = 16
    MaxPriority = 1
    AgingQuantum = 2
    AgingIncrement = 1
    AgingMaxBoost = 0
    Grant <- MCGrant
    CreditMax = 9
    Kinds <- MCPriorities
    MaxChain = 1
    None = None
SPECIFICATION FairSpec
PROPERTIES
    FairOvertaking
    EventuallyServed
