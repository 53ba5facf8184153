\* Two members of one group with two loans, restructured too, against the
\* abstract liability.
SPECIFICATION Spec
CONSTANTS
    Members = {m1, m2}
    Groups = {g1}
    Koperasi = {k1}
    Wallets = {w1}
    None = None
    MAX_TENOR = 1
    HARDSHIP_LIMIT = 1
    YEAR = 4
    MONTH = 1
    GroupTerms <- OpenTerms
    InviteCodes = {c1}
    Applications <- TinyLoans
    Screenings = {}
    Restructures <- Extension
    SavingsAmounts = {}
    FundAmounts = {2}
    TalanganAmounts = {1, 2}
    GracePeriods = {0}
    Appellants = {}
    Stoppable = {}
    MaxLoans = 2
    MaxTime = 2
    MaxFund = 2
    MaxBalance = 1
INVARIANTS
    ClosedOwesNothing
PROPERTIES
    ExactlyOnePayer
    KeepsJointLiability
CHECK_DEADLOCK FALSE
