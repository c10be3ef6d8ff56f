SPECIFICATION Spec
CONSTANTS
    p1 = p1
    p2 = p2
    c1 = c1
    c2 = c2
    o1 = o1
    o2 = o2
    s1 = s1
    s2 = s2
    None = None
    Torn = Torn
    Proc = {p1, p2}
    Config = {c1, c2}
    Op = {o1, o2}
    State = {s1, s2}
    MaxSeq = 2
    MaxBoot = 1
    MaxInode = 2
SYMMETRY Symmetric
INVARIANTS IntentSurvives NoLostUpdate
PROPERTIES DomainKept Refinement
