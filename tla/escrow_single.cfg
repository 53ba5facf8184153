\* One member with one loan of two installments: every repayment path,
\* hardship over two years, sanction and appeal; nothing is restructured.
SPECIFICATION Spec
CONSTANTS
    Members = {m1}
    Groups = {g1}
    Koperasi = {k1}
    Wallets = {w1}
    None = None
    MAX_TENOR = 2
    HARDSHIP_LIMIT = 1
    YEAR = 2
    MONTH = 1
    GroupTerms <- OpenTerms
    InviteCodes = {c1}
    Applications <- OneLoan
    Screenings = {}
    Restructures = {}
    SavingsAmounts = {}
    FundAmounts = {0, 1, 2}
    TalanganAmounts = {0, 1, 2}
    GracePeriods = {0, 1}
    Appellants = {w1}
    Stoppable = {}
    MaxLoans = 1
    MaxTime = 3
    MaxFund = 2
    MaxBalance = 1
INVARIANTS
    TypeOK
    CountersFollowSchedule
    BailedOutIsOverdue
PROPERTIES
    HardshipQuota
CHECK_DEADLOCK FALSE
