\* Reduce-only fills against a market that is already skewed the other way.
CONSTANTS
    Users = {u1, u2}
    Markets = {m1}
    MaxNonce = 2
    MaxTime = 0
    PRICE_SCALE = 100
    FUNDING_SCALE = 1000
    MaxTtlSecs = 1
    LiquidationPenaltyBps = 0
    MaxImrBps = 1000
    LpFeeBps = 5000
    InsuranceFeeBps = 2000
    ExecutionRebateUsdc = 1
    InitParams <- CoreMarkets
    ParamUpdates <- NoUpdates
    MarketStatuses <- NoStatusChange
    PauseChoices = {}
    WalletInit = 30
    DepositAmounts = {30}
    MarginAmounts = {50, 100}
    LimitPrices <- MarketableLimits
    TtlChoices = {1}
    FillPrices = {98, 102}
    OraclePrices = {100}
    OracleConfs = {0}
    OracleAges = {0}
    CloseQtys = {49}

SPECIFICATION Spec
\* Handlers never block; the only states without a successor are those where
\* MaxTime, MaxNonce and the wallets are used up.
CHECK_DEADLOCK FALSE
SYMMETRY UserSymmetry
INVARIANT
    SkewWithinCap
