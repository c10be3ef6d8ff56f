SPECIFICATION FairSpec

CONSTANTS
    Requests <- MCRequests
    Lsp <- CutOff
    Host <- OwnName
    None = None
    MaxSandboxes = 2
    MaxFaults = 1
    MaxReboots = 1

CHECK_DEADLOCK FALSE
INVARIANTS AllDeletedLeavesNothing
PROPERTIES AddedPassesCheck AttachedIsKept DelSucceeds
