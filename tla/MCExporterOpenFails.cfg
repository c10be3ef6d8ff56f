SPECIFICATION Spec

CONSTANTS
    k1 = k1
    k2 = k2
    a1 = a1
    a2 = a2
    None = None
    Key = {k1}
    Attr = {a1, a2}
    Setups <- DurableSetup
    MaxFaults = 1
    MaxChanges = 2

INVARIANTS
    IntentPrecedesRpc
