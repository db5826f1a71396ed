CONSTANTS
    Zero = 0
    Configs <- MCConfigs
    Requests <- MCRequests
    MaxDepth = 2
    LoadCycles = 2
    StoreCycles = 3
    Garbage = {9}
    MaxSubmissions = 3
    MaxRounds = 1
    Modes <- MCModes
SPECIFICATION Spec
PROPERTIES
    PreloadsIntoShadow
