\* The prototype: one session for each of the demonstration's stories.
SPECIFICATION Spec
CONSTANTS
    None = None
    Casts <- OneByOne
    Nominals = {0, 3000000, 11000000}
    SukarelaAmounts = {0, 100000}
    MaxGroups = 3
    MaxSisa = 6
    MinCicilan = 300000
    MaxIzin = 1
INVARIANTS
    TypeOK
    BalanceBackedByLedger
    OneOpenLoan
    LiableGroup
    ClosedWhenPaid
