CONSTANTS
    Modes <- MCModes
    NumChannels = 2
    MaxDepth = 2
    DepthModulus = 16
    MaxPriority = 0
    AgingQuantum = 1
    AgingIncrement = 1
    AgingMaxBoost = 0
    Grant <- MCGrant
    CreditMax = 9
    Kinds <- MCSizes
    MaxChain = 1
    None = None
SPECIFICATION FairSpec
INVARIANTS
    QueuesSound
    OneTransferOnBus
    CreditsBounded
PROPERTIES
    NeverIdleWithBacklog
    EventuallyServed
