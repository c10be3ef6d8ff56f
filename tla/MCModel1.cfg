SPECIFICATION FairSpec

CONSTANTS
    VTEPs = {"v1", "v2"}
    Ribs <- MCRibs
    Phys = "p1"
    Physnets = {"p1", "p2"}
    NoIP = "none"
    None = None
    Setups <- MCSetups
INVARIANTS Backed
PROPERTIES OnlyOwnRemoved RoutesProgrammed WithdrawalCompletes
