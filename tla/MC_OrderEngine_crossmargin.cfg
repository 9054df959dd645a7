\* One trader and two markets with funding off, each created either
\* high-margin (imr 20%, mmr 15%) or low-margin (imr 10%, mmr 5%), with no
\* later param update; max_imr_bps is 20%, above every mmr.
CONSTANTS
    Users = {u1}
    Markets = {m1, m2}
    MaxNonce = 2
    MaxTime = 0
    PRICE_SCALE = 100
    FUNDING_SCALE = 1000
    MaxTtlSecs = 1
    LiquidationPenaltyBps = 0
    MaxImrBps = 2000
    LpFeeBps = 5000
    InsuranceFeeBps = 2000
    ExecutionRebateUsdc = 1
    InitParams <- MixedMarginMarkets
    ParamUpdates <- NoUpdates
    MarketStatuses <- NoStatusChange
    PauseChoices = {}
    WalletInit = 30
    DepositAmounts = {15, 30}
    MarginAmounts = {50, 100}
    LimitPrices <- MarketableLimits
    TtlChoices = {1}
    FillPrices = {98, 102}
    OraclePrices = {100}
    OracleConfs = {0}
    OracleAges = {0}
    CloseQtys = {49}

SPECIFICATION Spec
\* Handlers never block; the only states without a successor are those where
\* MaxTime, MaxNonce and the wallets are used up.
CHECK_DEADLOCK FALSE
PROPERTY
    NoSelfInflictedLiquidation
