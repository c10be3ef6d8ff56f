SPECIFICATION FairSpec

CONSTANTS
    Snapshots <- MCSnapshots
    NoIP = "none"
    Foreign = "foreign"
    None = None
    Recovery = {TRUE, FALSE}
    MaxFaults = 2
    MaxTimeouts = 1
    MaxChanges = 1

CHECK_DEADLOCK FALSE
INVARIANTS WellFormed OwnEntriesAccounted
PROPERTIES ForeignPreserved ConvergesOrStops
