SPECIFICATION FairSpec
CONSTANTS
    x = x
    y = y
    r1 = r1
    r2 = r2
    r3 = r3
    r4 = r4
    None = None
    Seed = Seed
    Requests = {r1, r2, r3, r4}
    Members = {x, y}
    Chair = x
    Others = {y}
    Sittings <- MCSittings
INVARIANTS
    KeyMatchesChain
    PasswordInHand
    FlagFollowsChain
    BalanceMatchesRows
    UnitsAreDeposits
    NoMemberUncounted
PROPERTIES
    ChatMovesForward
    NoTurnLost
    EveryRequestAnswered
