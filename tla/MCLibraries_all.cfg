CONSTANTS
    MaxWord = 127
    Padding = 112
    DefaultBytes = 4
    AgenConfigs <- MCAgenConfigs
    BufferSizes = {0, 3, 64}
    Halfs <- MCHalfs
    NegZero = 4
    HalfBytes = 2
    RunBytes = 3
    HeadBytes = 2
    FrameBytes = 2
    ByteBits = 3
    WireMax = 63
    Tensors <- MCTensors
    CodecConfigs <- MCCodecs
    Rooms = {0, 2, 4, 64}
    Weights <- MCWeights
    Activations <- MCActivations
    Tiles <- MCTiles
    Machines <- MCMachines
    IndexModulus = 32
    PerfChannels = 2
    Pj <- MCPj
    PerfCalls <- MCCalls
    MaxRecords = 2
    CmModes = {"tracker", "functional", "estimated", "accurate"}
    RingSlots = 2
    WorstStall = 9
    PeDepth = 2
    PeRows = 2
    BankCount = 2
    BankBytes = 2
    BankWindow = 4
    BankPenalty = 2
    BankWords = 1
    BusBytes = 2
    DramReadLatency = 5
    Timing <- MCTiming
    Issues <- MCIssues
    CmTiles <- MCTilesRun
    CmTransfers <- MCTransfersRun
    MaxCmCalls = 6
    Signals = {"s1", "s2"}
    MaxSignals = 2
    SignalValues = {0, 1}
    TickSteps = {0, 1, 2}
    MaxTraceCalls = 7
    Contents = {1, 2, 3}
    Crc <- MCCrc
    MaxEntries = 2
    MaxDebugCalls = 6
    Categories = {"range", "bounds"}
    AssertModes = {"ignore", "warn", "error"}
    Instructions <- MCInstructions
    MaxProgram = 5
    MaxInstrs = 4
    MaxDeps = 2
    MaxHoist = 32
    LiveInstrs <- MCLiveInstrs
    MaxLength = 4
    LiveConfigs <- MCLiveConfigs
    MaxVregs = 7
    MaxOut = 6
    WordModulus = 4096
    HalfModulus = 256
SPECIFICATION MCSpec
INVARIANTS
    AddressesRight
    CodecLossless
    SparsityExact
    
    
    
    ScheduleSound
    
    
PROPERTIES
    ScoreboardHolds
CHECK_DEADLOCK FALSE
