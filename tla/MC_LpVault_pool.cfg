\* Two LPs with 2 tokens each depositing, requesting and claiming
\* withdrawals, interleaved with up to 3 tokens of fee inflow and
\* configure_pool changes that lengthen or shorten the cooldown (0, 1 or
\* 2 s on a 2 s clock), switch a 50% buffer on and off, and change the
\* split (two invalid configs are offered and must be rejected).
CONSTANTS
    LPs = {l1, l2}
    MaxTime = 2
    MaxRequests = 2
    MaxTokens = 7
    InitCooldown = 1
    InitBufferBps = 0
    PoolConfigs <- PoolRunConfigs
    WalletInit = 2
    DepositAmounts = {1, 2}
    ShareAmounts = {1, 2}
    TradeFees = {3}
SPECIFICATION Spec
\* Terminal states exist once wallets, nonces and the token bound are used up.
CHECK_DEADLOCK FALSE
\* Safety only: the LPs are interchangeable.
SYMMETRY LPSymmetry
INVARIANTS
    TypeOK
    ShareBooksAgree
    SharesBacked
PROPERTIES
    ShareValueNeverDiluted
