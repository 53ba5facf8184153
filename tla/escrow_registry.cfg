\* Two cooperatives, two groups with an invite code, members who join both,
\* applications at every limit, and each contract paused and unpaused.
SPECIFICATION Spec
CONSTANTS
    Members = {m1, m2}
    Groups = {g1, g2}
    Koperasi = {k1, k2}
    Wallets = {w1}
    None = None
    MAX_TENOR = 1
    HARDSHIP_LIMIT = 0
    YEAR = 2
    MONTH = 1
    GroupTerms <- CodedTerms
    InviteCodes = {"c1", "c2"}
    Applications <- LimitLoans
    Screenings <- OneScreening
    Restructures = {}
    SavingsAmounts = {0, 1}
    FundAmounts = {}
    TalanganAmounts = {0, 1, 2}
    GracePeriods = {0}
    Appellants = {w1}
    Stoppable <- Contracts
    MaxLoans = 1
    MaxTime = 1
    MaxFund = 1
    MaxBalance = 1
INVARIANTS
    LoanParties
    PositionMirrorsLoan
CHECK_DEADLOCK FALSE
