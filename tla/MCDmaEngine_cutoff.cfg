CONSTANTS
    Modes <- MCAsynchronous
    NumChannels = 1
    MaxDepth = 4
    DepthModulus = 16
    MaxPriority = 1
    AgingQuantum = 1
    AgingIncrement = 1
    AgingMaxBoost = 0
    Grant <- MCGrant
    CreditMax = 9
    Kinds <- MCPriorities
    MaxChain = 2
    None = None
SPECIFICATION Spec
PROPERTIES
    NothingCutOff
