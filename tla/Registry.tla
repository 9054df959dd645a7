------------------------------ MODULE Registry ------------------------------
(***************************************************************************)
(* The market_registry program (global config, keeper set, markets) and    *)
(* the order engine's setup and access checks that read it:                *)
(* initialize_engine, initialize_market_funding_state, and the signer      *)
(* checks of execute_order, cancel_order_by_executor and liquidate.        *)
(*                                                                         *)
(* An Anchor instruction is atomic: a failed require! reverts the call, so *)
(* each handler is one step whose guard is the conjunction of its checks.  *)
(* An `init` account constraint makes a second creation of the same PDA    *)
(* fail, which is the guard "= None" below.  Timestamps (created_at,       *)
(* last_updated_at) are written but read by no handler and are left out;  *)
(* so are the symbol, pyth_feed and fee_split, which no modelled check     *)
(* reads after their validation.                                          *)
(***************************************************************************)
EXTENDS Naturals, Sequences, SequencesExt, Functions

CONSTANTS
    Keys,            \* signers: the multisig, keepers and anyone else
    MarketIds,       \* market_id values passed to create_market
    MAX_KEEPERS,     \* capacity of KeeperSet.keepers
    FeeSplits,       \* FeeSplit records offered to initialize_global
    ParamChoices,    \* the four param groups offered to create/update
    EngineConfigs    \* argument records offered to initialize_engine

ASSUME MAX_KEEPERS \in Nat \ {0}

\* An account that has not been created (comparable with the records).
None == <<>>

MarketStatus == {"Active", "Paused", "Halted"}

\* A parameter set: `values` stands for the numbers the engine reads, and
\* each group's flag for the Ok/Err of its validate() on them (OrderEngine's
\* ValidParams has the field-level checks).
ASSUME \A p \in ParamChoices :
    {"risk", "pricing", "funding", "fee"} \subseteq DOMAIN p /\ "values" \in DOMAIN p

VARIABLES
    global_config,   \* None, or [multisig, global_pause]
    keepers,         \* keeper_set.keepers: a Vec, kept as a sequence
    market,          \* market_id -> None or [status, params]
    engine_config,   \* None, or [admin]
    funding_state,   \* market_id -> whether its MarketFundingState exists
    granted          \* ghost: keys the multisig added and has not removed since

vars == <<global_config, keepers, market, engine_config, funding_state, granted>>

TypeOK ==
    /\ global_config \in {None} \cup [multisig : Keys, global_pause : BOOLEAN]
    /\ keepers \in BoundedSeq(Keys, MAX_KEEPERS)   \* #[max_len(MAX_KEEPERS)]
    /\ market \in [MarketIds -> {None} \cup [status : MarketStatus, params : ParamChoices]]
    /\ engine_config \in {None} \cup [admin : Keys]
    /\ funding_state \in [MarketIds -> BOOLEAN]
    /\ granted \subseteq Keys

-----------------------------------------------------------------------------
(* Helpers.                                                                *)

\* FeeSplit::validate: the checked u16 sum must be exactly 10_000.
FeeSplitValid(fs) ==
    /\ fs.lp_bps + fs.insurance_bps <= 65535
    /\ fs.lp_bps + fs.insurance_bps + fs.protocol_bps <= 65535
    /\ fs.lp_bps + fs.insurance_bps + fs.protocol_bps = 10000

\* risk, pricing, funding and fee validate(), each with `?`.
ValidateParams(p) == p.risk /\ p.pricing /\ p.funding /\ p.fee

\* helpers.rs require_admin: the signer is the multisig (the keeper_set
\* account is pinned to global_config.keeper_set by the same check).
RequireAdmin(c) ==
    /\ global_config # None
    /\ c = global_config.multisig

\* access.rs assert_executor_authorized: the multisig, or a keeper.
ExecutorAuthorized(c) == c = global_config.multisig \/ Contains(keepers, c)

\* access.rs assert_keeper_only: keepers only, the multisig is not let in.
KeeperOnly(c) == Contains(keepers, c)

\* Vec::swap_remove(idx): the last element moves into slot idx.
SwapRemove(s, idx) == Front(ReplaceAt(s, idx, Last(s)))

\* Iterator::position: the first index holding k (0 for None).
Position(s, k) == SelectInSeq(s, LAMBDA x : x = k)
-----------------------------------------------------------------------------
(* market_registry handlers.  The caller c is any key.                     *)

Init ==
    /\ global_config = None
    /\ keepers = <<>>
    /\ market = [m \in MarketIds |-> None]
    /\ engine_config = None
    /\ funding_state = [m \in MarketIds |-> FALSE]
    /\ granted = {}

\* initialize_global: no signer check; whoever calls first names the multisig.
\* Creates GlobalConfig and an empty KeeperSet (both `init`, so once only).
InitializeGlobal(multisig, fee_split, pause_flags) ==
    /\ global_config = None
    /\ FeeSplitValid(fee_split)
    /\ global_config' = [multisig |-> multisig, global_pause |-> pause_flags]
    /\ keepers' = <<>>
    /\ UNCHANGED <<market, engine_config, funding_state, granted>>

CreateMarket(c, m, p) ==
    /\ RequireAdmin(c)
    /\ ~global_config.global_pause
    /\ ValidateParams(p)
    /\ market[m] = None
    /\ market' = [market EXCEPT ![m] = [status |-> "Active", params |-> p]]
    /\ UNCHANGED <<global_config, keepers, engine_config, funding_state, granted>>

UpdateMarketParams(c, m, p) ==
    /\ RequireAdmin(c)
    /\ market[m] # None
    /\ ValidateParams(p)
    /\ market' = [market EXCEPT ![m].params = p]
    /\ UNCHANGED <<global_config, keepers, engine_config, funding_state, granted>>

SetMarketStatus(c, m, status) ==
    /\ RequireAdmin(c)
    /\ market[m] # None
    /\ market' = [market EXCEPT ![m].status = status]
    /\ UNCHANGED <<global_config, keepers, engine_config, funding_state, granted>>

SetGlobalPause(c, paused) ==
    /\ RequireAdmin(c)
    /\ global_config' = [global_config EXCEPT !.global_pause = paused]
    /\ UNCHANGED <<keepers, market, engine_config, funding_state, granted>>

AddKeeperFullOffByOne(c, keeper) ==
    /\ RequireAdmin(c)
    /\ Len(keepers) <= MAX_KEEPERS
    /\ ~Contains(keepers, keeper)
    /\ keepers' = Append(keepers, keeper)
    /\ granted' = granted \cup {keeper}
    /\ UNCHANGED <<global_config, market, engine_config, funding_state>>

AddKeeperNoDupCheck(c, keeper) ==
    /\ RequireAdmin(c)
    /\ Len(keepers) < MAX_KEEPERS
    /\ keepers' = Append(keepers, keeper)
    /\ granted' = granted \cup {keeper}
    /\ UNCHANGED <<global_config, market, engine_config, funding_state>>

\* add_keeper: the set must have room and must not hold the key already.
AddKeeper(c, keeper) ==
    /\ RequireAdmin(c)
    /\ Len(keepers) < MAX_KEEPERS
    /\ ~Contains(keepers, keeper)
    /\ keepers' = Append(keepers, keeper)
    /\ granted' = granted \cup {keeper}
    /\ UNCHANGED <<global_config, market, engine_config, funding_state>>

RemoveKeeper(c, keeper) ==
    /\ RequireAdmin(c)
    /\ Contains(keepers, keeper)
    /\ keepers' = SwapRemove(keepers, Position(keepers, keeper))
    /\ granted' = granted \ {keeper}
    /\ UNCHANGED <<global_config, market, engine_config, funding_state>>
-----------------------------------------------------------------------------
(* order_engine setup, reading the registry's accounts.                    *)

\* initialize_engine: no signer check; the caller becomes the engine admin.
\* The GlobalConfig and KeeperSet accounts must exist and agree
\* (RegistryConfigMismatch); the lp_pool checks are taken to pass.
InitializeEngine(c, cfg) ==
    /\ engine_config = None
    /\ cfg.max_ttl_secs > 0
    /\ cfg.liquidation_penalty_bps <= 5000
    /\ cfg.max_imr_bps <= 10000
    /\ global_config # None
    /\ engine_config' = [admin |-> c]
    /\ UNCHANGED <<global_config, keepers, market, funding_state, granted>>

\* initialize_market_funding_state: the engine admin (not the multisig)
\* creates the funding state of a market that exists in the registry.
InitializeMarketFundingState(c, m) ==
    /\ engine_config # None
    /\ c = engine_config.admin
    /\ market[m] # None
    /\ ~funding_state[m]
    /\ funding_state' = [funding_state EXCEPT ![m] = TRUE]
    /\ UNCHANGED <<global_config, keepers, market, engine_config, granted>>

Next ==
    \/ \E ms \in Keys, fs \in FeeSplits, p \in BOOLEAN : InitializeGlobal(ms, fs, p)
    \/ \E c \in Keys :
        \/ \E m \in MarketIds, p \in ParamChoices :
               CreateMarket(c, m, p) \/ UpdateMarketParams(c, m, p)
        \/ \E m \in MarketIds, st \in MarketStatus : SetMarketStatus(c, m, st)
        \/ \E p \in BOOLEAN : SetGlobalPause(c, p)
        \/ \E k \in Keys : AddKeeper(c, k) \/ RemoveKeeper(c, k)
        \/ \E cfg \in EngineConfigs : InitializeEngine(c, cfg)
        \/ \E m \in MarketIds : InitializeMarketFundingState(c, m)

Spec == Init /\ [][Next]_vars

-----------------------------------------------------------------------------
(* Properties.                                                             *)

\* The refinement mapping: the keys in the vector are the abstract
\* authorised set, the history variable `granted` (the keys of successful
\* add_keeper calls not since named by a successful remove_keeper) is the
\* abstract grants, and the multisig is the one global_config names.
KA == INSTANCE KeeperAccess WITH
        Capacity <- MAX_KEEPERS,
        NoKey <- None,
        multisig <- IF global_config = None THEN None ELSE global_config.multisig,
        grants <- granted,
        authorized <- ToSet(keepers)

\* Revocation is exact: add_keeper and remove_keeper implement grant and
\* revoke of the named key.  After remove_keeper(k), assert_keeper_only and
\* assert_executor_authorized no longer admit k (unless k is the multisig)
\* and still admit every other keeper.  This needs add_keeper's duplicate
\* check, remove_keeper's position lookup and Vec::swap_remove to agree; no
\* other handler may touch the vector or the multisig, and
\* initialize_global must happen once.
KeeperAccessRefined == KA!Spec
====
