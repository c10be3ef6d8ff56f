SPECIFICATION FairSpec

CONSTANTS
    Cores = {1, 2}
    Desired <- MCDesired
    Specs = {"a", "b", "c", "bad"}
    Agents <- MCAgents
    Scenarios <- MCScenarios
    None = None
    Gone = Gone
    Defaults = {1, 2}
    MaxEdits = 2
    MaxStops = 1

CHECK_DEADLOCK FALSE
INVARIANTS InstallationLock Children
PROPERTIES OnlyOwnTouched DeletionCompletes
