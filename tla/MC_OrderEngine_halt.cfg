\* A liquidation whose bad debt exceeds the insurance vault.
CONSTANTS
    Users = {u1, u2}
    Markets = {m1}
    MaxNonce = 1
    MaxTime = 3
    PRICE_SCALE = 100
    FUNDING_SCALE = 1000
    MaxTtlSecs = 1
    LiquidationPenaltyBps = 2000
    MaxImrBps = 1000
    LpFeeBps = 5000
    InsuranceFeeBps = 2000
    ExecutionRebateUsdc = 1
    InitParams <- FundingMarkets
    ParamUpdates <- FundingCapUpdates
    MarketStatuses = {"Active", "Paused"}
    PauseChoices = {TRUE, FALSE}
    WalletInit = 15
    DepositAmounts = {15}
    MarginAmounts = {100}
    LimitPrices <- MarketableLimits
    TtlChoices = {1}
    FillPrices = {98, 102}
    OraclePrices = {100}
    OracleConfs = {0}
    OracleAges = {0}
    CloseQtys = {49}

SPECIFICATION Spec
\* Handlers never block; the only states without a successor are those where
\* MaxTime, MaxNonce and the wallets are used up.
CHECK_DEADLOCK FALSE
SYMMETRY UserSymmetry
INVARIANT
    LiquidationHaltRecorded
