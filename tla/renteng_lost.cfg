SPECIFICATION Spec
CONSTANTS
    x = x
    y = y
    g = g
    b1 = b1
    b2 = b2
    b3 = b3
    t1 = t1
    None = None
    Requests = {b1, b2}
    Rows = {x, y}
    Groups = {g}
    GroupOf <- OneGroup
    Periods = {1, 2}
    Cicilan <- Two
    KasAwal <- Three
    Anchored = {}
    Overdue <- EveryPeriod
    Faults = {}
    Job <- SameGroup
INVARIANTS KasMatchesEvents
