\* The registry's admin handlers and the engine's setup handlers, called by
\* any of three keys in any order: the first initialize_global names one of
\* them multisig; a keeper set of capacity 2 is edited by add/remove_keeper.
\* Beside them, the USDC faucet for one mint that k1 created: claims and
\* limits of 0, 1 or 2 units, and a supply bounded at 3 so that a claim of
\* the maximum can follow another claim.
CONSTANTS
    Keys = {k1, k2, k3}
    MarketIds = {m1}
    MAX_KEEPERS = 2
    FeeSplits <- RunFeeSplits
    ParamChoices <- RunParamChoices
    EngineConfigs <- RunEngineConfigs
    FaucetPda = pda
    InitialMintAuthority = k1
    Amounts = {0, 1, 2}
    MAX_SUPPLY = 3
SPECIFICATION DSpec
INVARIANTS
    DeploymentTypeOK
PROPERTIES
    KeeperAccessRefined
    SupplyOnlyByClaims
