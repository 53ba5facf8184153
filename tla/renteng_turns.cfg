SPECIFICATION Spec
CONSTANTS
    x = x
    y = y
    g = g
    b1 = b1
    b2 = b2
    b3 = b3
    t1 = t1
    None = None
    Requests = {b1, b2, b3, t1}
    Rows = {x}
    Groups = {g}
    GroupOf <- OneGroup
    Periods = {1, 2}
    Cicilan <- Two
    KasAwal <- Three
    Anchored = {x}
    Overdue <- EveryPeriod
    Faults = {"rpc", "timeout", "lost", "crash", "db"}
    Job <- InTurn
INVARIANTS KasMatchesEvents BailedOutOnce
