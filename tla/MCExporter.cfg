SPECIFICATION FairSpec

CONSTANTS
    k1 = k1
    k2 = k2
    a1 = a1
    a2 = a2
    None = None
    Key = {k1, k2}
    Attr = {a1, a2}
    Setups <- AllSetups
    MaxFaults = 2
    MaxChanges = 2
INVARIANTS WellFormed OwnPathsAccounted NoAdoption
PROPERTIES ForeignPreserved ConvergesOrStops
