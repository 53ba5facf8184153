\* Two members of one group, two loans of one installment each: talangan,
\* gates, hardship, sanctions and appeals of one member against the other's loans.
SPECIFICATION Spec
CONSTANTS
    Members = {m1, m2}
    Groups = {g1}
    Koperasi = {k1}
    Wallets = {w1}
    None = None
    MAX_TENOR = 1
    HARDSHIP_LIMIT = 1
    YEAR = 4
    MONTH = 1
    GroupTerms <- OpenTerms
    InviteCodes = {c1}
    Applications <- SmallLoans
    Screenings = {}
    Restructures = {}
    SavingsAmounts = {}
    FundAmounts = {}
    TalanganAmounts = {1, 2}
    GracePeriods = {0}
    Appellants = {w1}
    Stoppable = {}
    MaxLoans = 2
    MaxTime = 3
    MaxFund = 1
    MaxBalance = 1
INVARIANTS
    TalanganBalanced
    GatesFollowDebt
    BlockedForAReason
CHECK_DEADLOCK FALSE
