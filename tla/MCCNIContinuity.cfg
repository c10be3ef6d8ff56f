SPECIFICATION FairSpec

CONSTANTS
    Requests <- MCRequests
    Scenarios <- MCScenarios
    None = None
    Admission = TRUE
    Window = 1
    MaxNow = 1
    MaxGen = 2
    MaxFaults = 2

CHECK_DEADLOCK FALSE
INVARIANTS MemoryFollowsJournal Accounted
PROPERTIES ExportedIsVerified PendingIsSettled
