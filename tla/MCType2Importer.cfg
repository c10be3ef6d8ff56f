SPECIFICATION FairSpec

CONSTANTS
    Paths <- MCPaths
    Changing <- MCChangingPaths
    Networks <- MCNetworks
    LocalVTEP = "self"
    NoIP = "none"
    MaxPaths = 3
    MaxVolatile = 0
    MaxChanges = 3
    MaxRestarts = 1
    MaxErrors = 1
INVARIANTS FoldIsOrderFree
PROPERTIES PublishedWasStable GenerationNamesResult ConfirmsOrFreezes
