CONSTANTS
    Capacity = 4
    Functional = {TRUE, FALSE}
    DepSets <- MCDepSets
    WaitIds = {0, 2, 9}
    Timeouts = {0, 2}
SPECIFICATION FairSpec
INVARIANTS
    
    CountsAgree
    Settled
PROPERTIES
    ExecutedForGood
    WaitsReturn
