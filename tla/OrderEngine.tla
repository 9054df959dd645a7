---------------------------- MODULE OrderEngine ----------------------------
(***************************************************************************)
(* The order_engine program of easyclaw: trader margin accounts, orders,   *)
(* per-user-per-market positions and per-market funding state, together   *)
(* with the effects its handlers have on the other programs they call:     *)
(* token movements between the collateral vault and the lp_vault vaults,  *)
(* and the lp_vault Pool bookkeeping done by apply_trade_fill and          *)
(* apply_liquidation.  The market_registry admin operations that change   *)
(* what the engine reads (params, market status, global pause) are        *)
(* actions too, because the engine re-reads them on every call.            *)
(*                                                                         *)
(* Every handler is one atomic step: a Solana instruction that returns an  *)
(* error leaves every account as it was, so an action's guard is the       *)
(* conjunction of every require! on its path and a failed call is no step. *)
(* The one handler whose error result matters, liquidate, also records its *)
(* result in liq_result.                                                   *)
(***************************************************************************)
EXTENDS Integers, FiniteSets, FiniteSetsExt

CONSTANTS
    Users,                  \* traders; each has a UserMargin account
    Markets,                \* market ids; each has a Market and a MarketFundingState
    MaxNonce,               \* bound: orders a trader may place (next_order_nonce)
    MaxTime,                \* bound: last value of the clock
    PRICE_SCALE,            \* order_engine constants (constants.rs is not in the tree)
    FUNDING_SCALE,
    MaxTtlSecs,             \* EngineConfig.max_ttl_secs
    LiquidationPenaltyBps,  \* EngineConfig.liquidation_penalty_bps
    MaxImrBps,              \* EngineConfig.max_imr_bps
    LpFeeBps,               \* Pool.lp_fee_bps
    InsuranceFeeBps,        \* Pool.insurance_fee_bps
    ExecutionRebateUsdc,    \* Pool.execution_rebate_usdc
    InitParams,             \* params create_market may give a market (a set)
    ParamUpdates,           \* params the registry admin may install later
    MarketStatuses,         \* statuses the registry admin may set
    PauseChoices,           \* values the registry admin may give global_pause
    WalletInit,             \* USDC each trader holds outside the engine
    DepositAmounts, MarginAmounts, TtlChoices,
    LimitPrices,            \* limit prices a trader may give, by side
    FillPrices, OraclePrices, OracleConfs, OracleAges, CloseQtys

BPS_DENOM == 10000
Sides == {"Buy", "Sell"}
Legs == {"Long", "Short"}
OrderIds == 0..(MaxNonce - 1)

\* market_registry types.rs: RiskParams, PricingParams, FundingParams and
\* FeeParams::validate, run by create_market and update_market_params.
ValidParams(p) ==
    /\ p.max_leverage >= 1 /\ p.imr_bps > p.mmr_bps /\ p.imr_bps <= BPS_DENOM
    /\ p.mmr_bps <= BPS_DENOM /\ p.oi_cap > 0 /\ p.max_trade_notional > 0
    /\ p.max_fill_deviation_bps <= 5000 /\ p.max_oracle_staleness_sec > 0
    /\ p.max_conf_bps <= BPS_DENOM
    /\ p.interval_sec > 0 /\ p.funding_velocity_cap_bps_per_day >= 0
    /\ p.premium_clamp_bps >= 0
    /\ p.taker_fee_bps <= 1000

ASSUME /\ MaxNonce \in Nat \ {0} /\ MaxTime \in Nat
       /\ PRICE_SCALE \in Nat \ {0} /\ FUNDING_SCALE \in Nat \ {0}
       /\ LiquidationPenaltyBps \in 0..5000 /\ MaxImrBps \in 0..BPS_DENOM
       /\ LpFeeBps + InsuranceFeeBps <= BPS_DENOM
       /\ \A p \in InitParams : ValidParams(p)   \* create_market validates too

VARIABLES
    now,                \* Clock::unix_timestamp
    global_pause,       \* GlobalConfig.global_pause
    market_status,      \* Market.status
    params,             \* Market risk/pricing/funding/fee params
    wallet,             \* each trader's USDC token account
    collateral_vault,   \* tokens held by the engine's collateral vault
    liquidity_vault,    \* lp_vault vaults (token amounts)
    insurance_vault,
    protocol_fee_vault,
    margin,             \* UserMargin per trader
    orders,             \* Order accounts, by trader and nonce
    position,           \* UserMarketPosition per trader and market
    funding,            \* MarketFundingState per market
    pool,               \* lp_vault Pool counters and the executor's KeeperRebate
    liq_result          \* result of the last liquidate call (observation only)

vars == <<now, global_pause, market_status, params, wallet, collateral_vault,
          liquidity_vault, insurance_vault, protocol_fee_vault, margin, orders,
          position, funding, pool, liq_result>>

NoOrder == [market |-> CHOOSE m \in Markets : TRUE, side |-> "Buy",
            reduce_only |-> FALSE, margin |-> 0, price |-> 0, expires_at |-> 0,
            status |-> "None", reserved |-> 0]
\* reserved is the amount place_order debited: a record of history kept for
\* the properties, which no handler reads.

(***************************************************************************)
(* Arithmetic helpers (helpers/math.rs, lp_vault helpers.rs).  Rust i128   *)
(* division truncates toward zero; TLA+ \div floors, hence TruncDiv.       *)
(***************************************************************************)
mul_bps_u64(value, bps) == (value * bps) \div BPS_DENOM
abs_diff(a, b) == IF a > b THEN a - b ELSE b - a
TruncDiv(a, b) == IF a >= 0 THEN a \div b ELSE -((-a) \div b)
Clamp(x, lo, hi) == IF x < lo THEN lo ELSE IF x > hi THEN hi ELSE x
AbsVal(x) == IF x < 0 THEN -x ELSE x

(***************************************************************************)
(* helpers/reservation.rs: collateral an order reserves, from the params   *)
(* of the market as they are when it is called.                           *)
(***************************************************************************)
estimate_order_reservation(reduce_only, order_margin, p) ==
    IF reduce_only THEN 0
    ELSE mul_bps_u64(order_margin, p.imr_bps) + mul_bps_u64(order_margin, p.taker_fee_bps)

(***************************************************************************)
(* helpers/funding.rs                                                      *)
(***************************************************************************)
FundingDelta(f, t, p) ==
    LET elapsed        == t - f.last_update_ts
        premium_bps    == TruncDiv(f.skew * BPS_DENOM, p.oi_cap)
        clamped        == Clamp(premium_bps, -p.premium_clamp_bps, p.premium_clamp_bps)
        velocity_bound == (p.funding_velocity_cap_bps_per_day * elapsed) \div 86400
        interval_scaled == TruncDiv(clamped * FUNDING_SCALE * elapsed, p.interval_sec)
        max_scaled     == velocity_bound * FUNDING_SCALE
    IN  Clamp(interval_scaled, -max_scaled, max_scaled)

update_funding_index(f, t, p) ==
    IF t <= f.last_update_ts THEN f
    ELSE [f EXCEPT !.funding_index = @ + FundingDelta(f, t, p), !.last_update_ts = t]

\* Net funding owed to (positive) or by (negative) a position at index idx.
FundingNet(pos, idx) ==
    TruncDiv(pos.short_qty * (idx - pos.last_funding_index_short), FUNDING_SCALE)
      - TruncDiv(pos.long_qty * (idx - pos.last_funding_index_long), FUNDING_SCALE)

\* Collateral after settlement: credits add, debits saturate at zero.
SettledCollateral(pos, idx, coll) ==
    LET net == FundingNet(pos, idx)
    IN  IF net >= 0 THEN coll + net ELSE IF coll + net < 0 THEN 0 ELSE coll + net

SettledPosition(pos, idx) ==
    [pos EXCEPT !.last_funding_index_long = idx, !.last_funding_index_short = idx]

(***************************************************************************)
(* helpers/position.rs                                                     *)
(***************************************************************************)
QtyField(leg) == IF leg = "Long" THEN "long_qty" ELSE "short_qty"
NotionalField(leg) == IF leg = "Long" THEN "long_entry_notional" ELSE "short_entry_notional"
SideLeg(side) == IF side = "Buy" THEN "Long" ELSE "Short"

\* Mutant: the fill's quantity is booked as its entry notional.
apply_fill_qty_as_notional(pos, side, qty, notional) ==
    [pos EXCEPT ![QtyField(SideLeg(side))] = @ + qty,
                ![NotionalField(SideLeg(side))] = @ + qty]

apply_fill_to_position(pos, side, qty, notional) ==
    [pos EXCEPT ![QtyField(SideLeg(side))] = @ + qty,
                ![NotionalField(SideLeg(side))] = @ + notional]

\* reduce_position's require: close_qty within the leg.
CanReduce(pos, leg, close_qty) == pos[QtyField(leg)] >= close_qty

\* Mutant: the reduced notional rounded up instead of down.
ReducedNotionalCeil(pos, leg, close_qty) ==
    (pos[NotionalField(leg)] * close_qty + pos[QtyField(leg)] - 1) \div pos[QtyField(leg)]

ReducedNotional(pos, leg, close_qty) ==
    (pos[NotionalField(leg)] * close_qty) \div pos[QtyField(leg)]

reduce_position(pos, leg, close_qty) ==
    [pos EXCEPT ![QtyField(leg)] = @ - close_qty,
                ![NotionalField(leg)] = @ - ReducedNotional(pos, leg, close_qty)]

\* Mutant: closing a leg moves the skew the wrong way.
SkewAfterCloseSwapped(skew, leg, amount) ==
    IF leg = "Long" THEN skew + amount ELSE skew - amount

\* Skew after removing notional from a leg (execute_order / liquidate).
SkewAfterClose(skew, leg, amount) ==
    IF leg = "Long" THEN skew - amount ELSE skew + amount

(***************************************************************************)
(* helpers/oracle.rs, fallback price source (price_update = system         *)
(* program): read_oracle_price_update then validate_oracle.  age is        *)
(* now - publish_time; a publish_time <= 0 means now, i.e. age 0.          *)
(***************************************************************************)
OracleAccepted(p, fill_price, oracle_price, oracle_conf, age) ==
    /\ oracle_price > 0
    /\ age >= 0
    /\ age <= p.max_oracle_staleness_sec
    /\ (oracle_conf * BPS_DENOM) \div oracle_price <= p.max_conf_bps
    /\ (abs_diff(fill_price, oracle_price) * BPS_DENOM) \div oracle_price
          <= p.max_fill_deviation_bps

validate_impact_price(side, fill_price, oracle_price, projected_skew, projected_oi, p) ==
    LET skew_ratio_bps == IF projected_oi = 0 THEN 0
                          ELSE (AbsVal(projected_skew) * BPS_DENOM) \div projected_oi
        impact_bps     == p.base_spread_bps + (p.skew_coeff_bps * skew_ratio_bps) \div BPS_DENOM
        upper          == (oracle_price * (BPS_DENOM + impact_bps)) \div BPS_DENOM
        lower          == (oracle_price * (BPS_DENOM - impact_bps)) \div BPS_DENOM
    IN  /\ impact_bps < BPS_DENOM
        /\ IF side = "Buy" THEN fill_price >= upper ELSE fill_price <= lower

validate_order_price(side, price, fill_price) ==
    /\ price > 0
    /\ IF side = "Buy" THEN fill_price <= price ELSE fill_price >= price

LpFee(fee) == mul_bps_u64(fee, LpFeeBps)
InsuranceFee(fee) == mul_bps_u64(fee, InsuranceFeeBps)
ProtocolFee(fee) == fee - LpFee(fee) - InsuranceFee(fee)

\* execute_order.rs transfer_fee_split: three token transfers out of the
\* collateral vault (none when the fee is 0).
transfer_fee_split(fee) ==
    /\ collateral_vault >= fee
    /\ collateral_vault' = collateral_vault - fee
    /\ liquidity_vault' = liquidity_vault + LpFee(fee)
    /\ insurance_vault' = insurance_vault + InsuranceFee(fee)
    /\ protocol_fee_vault' = protocol_fee_vault + ProtocolFee(fee)

\* lp_vault apply_trade_fill.rs, called by cpi_apply_trade_fill after the
\* transfers: re-derives the split, requires the vaults to hold it, and
\* credits the executor's KeeperRebate with execution_rebate_usdc.
apply_trade_fill(fee) ==
    /\ ProtocolFee(fee) <= protocol_fee_vault'
    /\ InsuranceFee(fee) <= insurance_vault'
    /\ pool' = [pool EXCEPT !.total_trading_fees = @ + fee,
                            !.keeper_rebate = @ + ExecutionRebateUsdc,
                            !.pending_keeper_rebates = @ + ExecutionRebateUsdc]

PayTradeFee(fee) == transfer_fee_split(fee) /\ apply_trade_fill(fee)

-----------------------------------------------------------------------------
Init ==
    /\ now = 0
    /\ global_pause = FALSE
    /\ market_status = [m \in Markets |-> "Active"]
    /\ params \in [Markets -> InitParams]
    /\ wallet = [u \in Users |-> WalletInit]
    /\ collateral_vault = 0
    /\ liquidity_vault = 0
    /\ insurance_vault = 0
    /\ protocol_fee_vault = 0
    \* create_margin_account, create_user_market_position and
    \* initialize_market_funding_state have run for every trader and market.
    /\ margin = [u \in Users |-> [collateral_balance |-> 0, next_order_nonce |-> 0,
                                  total_notional |-> 0]]
    /\ orders = [u \in Users |-> [n \in OrderIds |-> NoOrder]]
    /\ position = [u \in Users |-> [m \in Markets |->
                     [long_qty |-> 0, long_entry_notional |-> 0,
                      short_qty |-> 0, short_entry_notional |-> 0,
                      last_funding_index_long |-> 0, last_funding_index_short |-> 0]]]
    /\ funding = [m \in Markets |-> [funding_index |-> 0, last_update_ts |-> 0,
                     open_interest |-> 0, skew |-> 0, halted |-> FALSE]]
    /\ pool = [total_trading_fees |-> 0, pending_keeper_rebates |-> 0, keeper_rebate |-> 0]
    /\ liq_result = [market |-> CHOOSE m \in Markets : TRUE, code |-> "None"]

(***************************************************************************)
(* Collateral: deposit_collateral.rs, withdraw_collateral.rs.  Withdraw    *)
(* checks the engine-wide max_imr_bps against total_notional and does not  *)
(* settle funding first.                                                   *)
(***************************************************************************)
DepositCollateral(u, amount) ==
    /\ amount > 0
    /\ wallet[u] >= amount
    /\ wallet' = [wallet EXCEPT ![u] = @ - amount]
    /\ collateral_vault' = collateral_vault + amount
    /\ margin' = [margin EXCEPT ![u].collateral_balance = @ + amount]
    /\ UNCHANGED <<now, global_pause, market_status, params, liquidity_vault,
                   insurance_vault, protocol_fee_vault, orders, position, funding,
                   pool, liq_result>>

WithdrawCollateral(u, amount) ==
    LET coll == margin[u].collateral_balance
    IN  /\ amount > 0
        /\ coll >= amount
        /\ coll - amount >= mul_bps_u64(margin[u].total_notional, MaxImrBps)
        /\ collateral_vault >= amount
        /\ collateral_vault' = collateral_vault - amount
        /\ wallet' = [wallet EXCEPT ![u] = @ + amount]
        /\ margin' = [margin EXCEPT ![u].collateral_balance = coll - amount]
        /\ UNCHANGED <<now, global_pause, market_status, params, liquidity_vault,
                       insurance_vault, protocol_fee_vault, orders, position,
                       funding, pool, liq_result>>

(***************************************************************************)
(* Orders: place_order.rs, cancel_order.rs, cancel_order_by_executor.rs.   *)
(* order_type is not modelled: no handler reads it.                        *)
(***************************************************************************)
PlaceOrder(u, m, side, reduce_only, order_margin, price, ttl_secs) ==
    LET n        == margin[u].next_order_nonce
        reserved == estimate_order_reservation(reduce_only, order_margin, params[m])
    IN  /\ n < MaxNonce
        /\ order_margin > 0
        /\ ttl_secs > 0
        /\ ttl_secs <= MaxTtlSecs
        /\ ~global_pause
        /\ market_status[m] = "Active"
        /\ price > 0
        /\ margin[u].collateral_balance >= reserved
        /\ margin' = [margin EXCEPT ![u].collateral_balance = @ - reserved,
                                    ![u].next_order_nonce = @ + 1]
        /\ orders' = [orders EXCEPT ![u][n] =
                        [market |-> m, side |-> side, reduce_only |-> reduce_only,
                         margin |-> order_margin, price |-> price,
                         expires_at |-> now + ttl_secs, status |-> "Open",
                         reserved |-> reserved]]
        /\ UNCHANGED <<now, global_pause, market_status, params, wallet,
                       collateral_vault, liquidity_vault, insurance_vault,
                       protocol_fee_vault, position, funding, pool, liq_result>>

\* Mutant: the refund leaves out the reserved taker fee.
ReleaseReservationWithoutFee(u, n, status) ==
    LET o == orders[u][n]
    IN  /\ margin' = [margin EXCEPT ![u].collateral_balance =
               @ + (IF o.reduce_only THEN 0 ELSE mul_bps_u64(o.margin, params[o.market].imr_bps))]
        /\ orders' = [orders EXCEPT ![u][n].status = status]

\* Credit back what the order's market reserves now and close the order.
ReleaseReservation(u, n, status) ==
    LET o == orders[u][n]
    IN  /\ margin' = [margin EXCEPT ![u].collateral_balance =
               @ + estimate_order_reservation(o.reduce_only, o.margin, params[o.market])]
        /\ orders' = [orders EXCEPT ![u][n].status = status]

CancelOrder(u, n) ==
    /\ orders[u][n].status = "Open"
    /\ ReleaseReservation(u, n, "Cancelled")
    /\ UNCHANGED <<now, global_pause, market_status, params, wallet, collateral_vault,
                   liquidity_vault, insurance_vault, protocol_fee_vault, position,
                   funding, pool, liq_result>>

\* The executor is authorised (multisig or keeper set); the effect is cancel's.
CancelOrderByExecutor(u, n) ==
    /\ orders[u][n].status = "Open"
    /\ ReleaseReservation(u, n, "Cancelled")
    /\ UNCHANGED <<now, global_pause, market_status, params, wallet, collateral_vault,
                   liquidity_vault, insurance_vault, protocol_fee_vault, position,
                   funding, pool, liq_result>>

(***************************************************************************)
(* execute_order.rs.  Checks common to every outcome, then three outcomes: *)
(* expiry (refund, no fill), a reduce-only fill and an opening fill.  The  *)
(* executor is authorised; the oracle is the fallback price source.        *)
(***************************************************************************)
ExecutableOrder(u, n, fill_price) ==
    LET o == orders[u][n]
    IN  /\ fill_price > 0
        /\ ~global_pause
        /\ market_status[o.market] = "Active"
        /\ ~funding[o.market].halted
        /\ o.status = "Open"

\* Mutant: the order is marked Expired but its reservation is not refunded.
ExpireOrderNoRefund(u, n, fill_price) ==
    /\ ExecutableOrder(u, n, fill_price)
    /\ now > orders[u][n].expires_at
    /\ orders' = [orders EXCEPT ![u][n].status = "Expired"]
    /\ UNCHANGED <<now, global_pause, market_status, params, wallet, collateral_vault,
                   liquidity_vault, insurance_vault, protocol_fee_vault, position,
                   funding, pool, liq_result, margin>>

ExpireOrder(u, n, fill_price) ==
    /\ ExecutableOrder(u, n, fill_price)
    /\ now > orders[u][n].expires_at
    /\ ReleaseReservation(u, n, "Expired")
    /\ UNCHANGED <<now, global_pause, market_status, params, wallet, collateral_vault,
                   liquidity_vault, insurance_vault, protocol_fee_vault, position,
                   funding, pool, liq_result>>

OrderQty(o, fill_price) == (o.margin * PRICE_SCALE) \div fill_price

\* Every check execute_order makes before it touches funding state.
FillAccepted(u, n, fill_price, oracle_price, oracle_conf, age) ==
    LET o == orders[u][n]
        p == params[o.market]
    IN  /\ ExecutableOrder(u, n, fill_price)
        /\ now <= o.expires_at
        /\ OracleAccepted(p, fill_price, oracle_price, oracle_conf, age)
        /\ o.margin <= p.max_trade_notional
        /\ OrderQty(o, fill_price) > 0
        /\ validate_order_price(o.side, o.price, fill_price)

\* Funding state of m brought up to now, and a trader's settled position
\* and collateral in m (update_funding_index then settle_user_funding).
FundingNow(m) == update_funding_index(funding[m], now, params[m])
SettledPos(u, m) == SettledPosition(position[u][m], FundingNow(m).funding_index)
SettledColl(u, m, coll) == SettledCollateral(position[u][m], FundingNow(m).funding_index, coll)

\* Collateral of u once the order's reservation is credited back and funding settled.
FillCollateral(u, n) ==
    LET o == orders[u][n]
    IN  SettledColl(u, o.market, margin[u].collateral_balance
                      + estimate_order_reservation(o.reduce_only, o.margin, params[o.market]))

ExecuteReduceOnly(u, n, fill_price, oracle_price, oracle_conf, age) ==
    LET o         == orders[u][n]
        m         == o.market
        f1        == FundingNow(m)
        pos1      == SettledPos(u, m)
        close_leg == IF o.side = "Buy" THEN "Short" ELSE "Long"
        qty       == OrderQty(o, fill_price)
        fee       == mul_bps_u64(o.margin, params[m].taker_fee_bps)
        coll1     == FillCollateral(u, n)
    IN  /\ o.reduce_only
        /\ FillAccepted(u, n, fill_price, oracle_price, oracle_conf, age)
        /\ CanReduce(pos1, close_leg, qty)
        /\ LET reduced == ReducedNotional(pos1, close_leg, qty)
           IN  /\ margin[u].total_notional >= reduced
               /\ f1.open_interest >= reduced
               /\ coll1 >= fee
               /\ margin' = [margin EXCEPT ![u].collateral_balance = coll1 - fee,
                                           ![u].total_notional = @ - reduced]
               /\ funding' = [funding EXCEPT ![m] =
                     [f1 EXCEPT !.open_interest = @ - reduced,
                                !.skew = SkewAfterClose(@, close_leg, reduced)]]
        /\ position' = [position EXCEPT ![u][m] = reduce_position(pos1, close_leg, qty)]
        /\ orders' = [orders EXCEPT ![u][n].status = "Executed"]
        /\ PayTradeFee(fee)
        /\ UNCHANGED <<now, global_pause, market_status, params, wallet, liq_result>>

ExecuteOpen(u, n, fill_price, oracle_price, oracle_conf, age) ==
    LET o              == orders[u][n]
        m              == o.market
        p              == params[m]
        f1             == FundingNow(m)
        projected_oi   == f1.open_interest + o.margin
        projected_skew == IF o.side = "Buy" THEN f1.skew + o.margin ELSE f1.skew - o.margin
        fee            == mul_bps_u64(o.margin, p.taker_fee_bps)
        coll2          == FillCollateral(u, n) - fee
        new_total      == margin[u].total_notional + o.margin
    IN  /\ ~o.reduce_only
        /\ FillAccepted(u, n, fill_price, oracle_price, oracle_conf, age)
        /\ projected_oi <= p.oi_cap
        /\ AbsVal(projected_skew) <= p.skew_cap
        /\ validate_impact_price(o.side, fill_price, oracle_price, projected_skew,
                                 projected_oi, p)
        /\ coll2 >= 0
        /\ coll2 >= mul_bps_u64(new_total, p.imr_bps)
        /\ new_total <= (IF coll2 > 1 THEN coll2 ELSE 1) * p.max_leverage
        /\ position' = [position EXCEPT ![u][m] =
              apply_fill_to_position(SettledPos(u, m), o.side, OrderQty(o, fill_price), o.margin)]
        /\ funding' = [funding EXCEPT ![m] =
              [f1 EXCEPT !.open_interest = projected_oi, !.skew = projected_skew]]
        /\ margin' = [margin EXCEPT ![u].collateral_balance = coll2,
                                    ![u].total_notional = new_total]
        /\ orders' = [orders EXCEPT ![u][n].status = "Executed"]
        /\ PayTradeFee(fee)
        /\ UNCHANGED <<now, global_pause, market_status, params, wallet, liq_result>>

(***************************************************************************)
(* liquidate.rs and lp_vault apply_liquidation.rs.  The executor is a      *)
(* keeper.  When the bad debt exceeds the insurance vault after its        *)
(* credit, the handler sets halted and returns an error: the runtime       *)
(* discards every write of the instruction, halted included, and the      *)
(* caller sees InsuranceShortfallMarketHalted.                             *)
(***************************************************************************)
Penalty(reduced) == mul_bps_u64(reduced, LiquidationPenaltyBps)
KeeperPortion(penalty) == mul_bps_u64(penalty, 1000)

LiquidationAccepted(u, m, leg, close_qty) ==
    LET pos1 == SettledPos(u, m)
    IN  /\ close_qty > 0
        /\ market_status[m] = "Active"
        /\ ~funding[m].halted
        /\ SettledColl(u, m, margin[u].collateral_balance)
              < mul_bps_u64(margin[u].total_notional, params[m].mmr_bps)
        /\ CanReduce(pos1, leg, close_qty)
        /\ ReducedNotional(pos1, leg, close_qty) > 0
        /\ margin[u].total_notional >= ReducedNotional(pos1, leg, close_qty)
        /\ FundingNow(m).open_interest >= ReducedNotional(pos1, leg, close_qty)

\* Mutant: the penalty taken from collateral without the floor at zero.
LiquidationSplitNoFloor(u, m, leg, close_qty) ==
    LET coll1   == SettledColl(u, m, margin[u].collateral_balance)
        penalty == Penalty(ReducedNotional(SettledPos(u, m), leg, close_qty))
    IN  [collateral |-> coll1 - penalty,
         bad_debt   |-> IF coll1 >= penalty THEN 0 ELSE penalty - coll1,
         keeper     |-> KeeperPortion(penalty),
         insurance  |-> penalty - KeeperPortion(penalty)]

\* lp_vault apply_liquidation.rs, called after the transfers: credits the
\* keeper's rebate and checks the insurance vault covers its portion and the
\* bad debt.
apply_liquidation(penalty, bad_debt) ==
    /\ pool' = [pool EXCEPT !.keeper_rebate = @ + KeeperPortion(penalty),
                            !.pending_keeper_rebates = @ + KeeperPortion(penalty)]
    /\ penalty - KeeperPortion(penalty) <= insurance_vault'
    /\ bad_debt > 0 => bad_debt <= insurance_vault'

\* Collateral left, bad debt, and the two transfers out of the collateral vault.
LiquidationSplit(u, m, leg, close_qty) ==
    LET coll1   == SettledColl(u, m, margin[u].collateral_balance)
        penalty == Penalty(ReducedNotional(SettledPos(u, m), leg, close_qty))
        keeper  == KeeperPortion(penalty)
    IN  [collateral |-> IF coll1 >= penalty THEN coll1 - penalty ELSE 0,
         bad_debt   |-> IF coll1 >= penalty THEN 0 ELSE penalty - coll1,
         keeper     |-> keeper,
         insurance  |-> penalty - keeper]

Liquidate(u, m, leg, close_qty) ==
    LET pos1    == SettledPos(u, m)
        f1      == FundingNow(m)
        reduced == ReducedNotional(pos1, leg, close_qty)
        split   == LiquidationSplit(u, m, leg, close_qty)
    IN  /\ LiquidationAccepted(u, m, leg, close_qty)
        /\ collateral_vault >= split.insurance + split.keeper
        /\ split.bad_debt <= insurance_vault + split.insurance
        /\ position' = [position EXCEPT ![u][m] = reduce_position(pos1, leg, close_qty)]
        /\ margin' = [margin EXCEPT ![u].collateral_balance = split.collateral,
                                    ![u].total_notional = @ - reduced]
        /\ funding' = [funding EXCEPT ![m] =
              [f1 EXCEPT !.open_interest = @ - reduced,
                         !.skew = SkewAfterClose(@, leg, reduced)]]
        /\ collateral_vault' = collateral_vault - split.insurance - split.keeper
        /\ insurance_vault' = insurance_vault + split.insurance
        /\ protocol_fee_vault' = protocol_fee_vault + split.keeper
        /\ apply_liquidation(split.keeper + split.insurance, split.bad_debt)
        /\ liq_result' = [market |-> m, code |-> "Ok"]
        /\ UNCHANGED <<now, global_pause, market_status, params, wallet,
                       liquidity_vault, orders>>

LiquidateShortfall(u, m, leg, close_qty) ==
    LET split == LiquidationSplit(u, m, leg, close_qty)
    IN  /\ LiquidationAccepted(u, m, leg, close_qty)
        /\ collateral_vault >= split.insurance + split.keeper
        /\ split.bad_debt > insurance_vault + split.insurance
        /\ liq_result' = [market |-> m, code |-> "InsuranceShortfallMarketHalted"]
        /\ UNCHANGED <<now, global_pause, market_status, params, wallet, collateral_vault,
                       liquidity_vault, insurance_vault, protocol_fee_vault, margin,
                       orders, position, funding, pool>>

\* lp_vault claim_keeper_rebate.rs: the executor takes its whole rebate out
\* of the protocol fee vault.
ClaimKeeperRebate ==
    LET amount == pool.keeper_rebate
    IN  /\ amount > 0
        /\ amount <= protocol_fee_vault
        /\ protocol_fee_vault' = protocol_fee_vault - amount
        /\ pool' = [pool EXCEPT !.keeper_rebate = 0, !.pending_keeper_rebates = @ - amount]
        /\ UNCHANGED <<now, global_pause, market_status, params, wallet, collateral_vault,
                       liquidity_vault, insurance_vault, margin, orders, position,
                       funding, liq_result>>

(***************************************************************************)
(* market_registry admin: update_market_params.rs, set_market_status.rs,   *)
(* set_global_pause.rs.  The admin signer check is abstracted.            *)
(***************************************************************************)
UpdateMarketParams(m, p) ==
    /\ ValidParams(p)
    /\ params' = [params EXCEPT ![m] = p]
    /\ UNCHANGED <<now, global_pause, market_status, wallet, collateral_vault,
                   liquidity_vault, insurance_vault, protocol_fee_vault, margin, orders,
                   position, funding, pool, liq_result>>

SetMarketStatus(m, status) ==
    /\ market_status' = [market_status EXCEPT ![m] = status]
    /\ UNCHANGED <<now, global_pause, params, wallet, collateral_vault, liquidity_vault,
                   insurance_vault, protocol_fee_vault, margin, orders, position,
                   funding, pool, liq_result>>

SetGlobalPause(paused) ==
    /\ global_pause' = paused
    /\ UNCHANGED <<now, market_status, params, wallet, collateral_vault, liquidity_vault,
                   insurance_vault, protocol_fee_vault, margin, orders, position,
                   funding, pool, liq_result>>

\* Time passes between calls.
Tick ==
    /\ now < MaxTime
    /\ now' = now + 1
    /\ UNCHANGED <<global_pause, market_status, params, wallet, collateral_vault,
                   liquidity_vault, insurance_vault, protocol_fee_vault, margin, orders,
                   position, funding, pool, liq_result>>

-----------------------------------------------------------------------------
Next ==
    \/ Tick
    \/ \E u \in Users, a \in DepositAmounts : DepositCollateral(u, a)
    \/ \E u \in Users, a \in DepositAmounts : WithdrawCollateral(u, a)
    \/ \E u \in Users, m \in Markets, s \in Sides, ro \in BOOLEAN, mg \in MarginAmounts,
          ttl \in TtlChoices : \E pr \in LimitPrices[s] : PlaceOrder(u, m, s, ro, mg, pr, ttl)
    \/ \E u \in Users, n \in OrderIds : CancelOrder(u, n)
    \/ \E u \in Users, n \in OrderIds : CancelOrderByExecutor(u, n)
    \/ \E u \in Users, n \in OrderIds, fp \in FillPrices : ExpireOrder(u, n, fp)
    \/ \E u \in Users, n \in OrderIds, fp \in FillPrices, op \in OraclePrices,
          oc \in OracleConfs, age \in OracleAges :
          \/ ExecuteReduceOnly(u, n, fp, op, oc, age)
          \/ ExecuteOpen(u, n, fp, op, oc, age)
    \/ \E u \in Users, m \in Markets, leg \in Legs, q \in CloseQtys :
          \/ Liquidate(u, m, leg, q)
          \/ LiquidateShortfall(u, m, leg, q)
    \/ ClaimKeeperRebate
    \/ \E m \in Markets, p \in ParamUpdates : UpdateMarketParams(m, p)
    \/ \E m \in Markets, st \in MarketStatuses : SetMarketStatus(m, st)
    \/ \E b \in PauseChoices : SetGlobalPause(b)

Spec == Init /\ [][Next]_vars

-----------------------------------------------------------------------------
(***************************************************************************)
(* Properties                                                              *)
(***************************************************************************)
Position == [long_qty : Nat, long_entry_notional : Nat, short_qty : Nat,
             short_entry_notional : Nat, last_funding_index_long : Int,
             last_funding_index_short : Int]

TypeOK ==
    /\ now \in 0..MaxTime
    /\ global_pause \in BOOLEAN
    /\ market_status \in [Markets -> {"Active", "Paused", "Halted"}]
    /\ wallet \in [Users -> Nat]
    /\ {collateral_vault, liquidity_vault, insurance_vault, protocol_fee_vault} \subseteq Nat
    /\ margin \in [Users -> [collateral_balance : Nat, next_order_nonce : 0..MaxNonce,
                             total_notional : Nat]]
    /\ \A u \in Users, n \in OrderIds :
          /\ orders[u][n].status \in {"None", "Open", "Executed", "Cancelled", "Expired"}
          /\ orders[u][n].side \in Sides /\ orders[u][n].market \in Markets
          /\ (orders[u][n].status = "None") <=> (n >= margin[u].next_order_nonce)
    /\ position \in [Users -> [Markets -> Position]]
    /\ funding \in [Markets -> [funding_index : Int, last_update_ts : 0..MaxTime,
                                open_interest : Nat, skew : Int, halted : BOOLEAN]]
    /\ pool \in [total_trading_fees : Nat, pending_keeper_rebates : Nat, keeper_rebate : Nat]

LegsNotional(u, m) == position[u][m].long_entry_notional + position[u][m].short_entry_notional
LegsSkew(u, m) == position[u][m].long_entry_notional - position[u][m].short_entry_notional

\* The three aggregates kept in separate accounts agree with the positions:
\* a market's open_interest and skew with the sum of its traders' legs, and
\* a trader's total_notional with the sum over its markets.  execute_order
\* and liquidate each update all three in one step and must remove the same
\* reduced notional from each.
PositionBooksAgree ==
    /\ \A m \in Markets :
          /\ funding[m].open_interest = MapThenSumSet(LAMBDA u : LegsNotional(u, m), Users)
          /\ funding[m].skew = MapThenSumSet(LAMBDA u : LegsSkew(u, m), Users)
    /\ \A u \in Users :
          margin[u].total_notional = MapThenSumSet(LAMBDA m : LegsNotional(u, m), Markets)

OpenOrders(u) == {n \in OrderIds : orders[u][n].status = "Open"}
HeldByOpenOrders == MapThenSumSet(LAMBDA u : MapThenSumSet(LAMBDA n : orders[u][n].reserved,
                                                           OpenOrders(u)), Users)
Liabilities == MapThenSumSet(LAMBDA u : margin[u].collateral_balance, Users) + HeldByOpenOrders

\* The collateral vault holds exactly the traders' collateral balances plus
\* what their open orders reserved: deposits, withdrawals, reservations,
\* refunds on cancel and expiry, and fees paid out of the vault all move
\* the ledger and the tokens together.
CollateralConserved == collateral_vault = Liabilities

\* The collateral vault can pay every trader what the engine owes it.
VaultSolvent == collateral_vault >= Liabilities

\* Placing then cancelling (or expiring) an order gives back exactly what
\* placing took: the refund each handler recomputes equals the reservation.
ReservationRoundTrip ==
    \A u \in Users : \A n \in OpenOrders(u) :
        estimate_order_reservation(orders[u][n].reduce_only, orders[u][n].margin,
                                   params[orders[u][n].market]) = orders[u][n].reserved

\* Every keeper rebate the pool has credited (execution rebates from
\* apply_trade_fill, keeper portions from apply_liquidation) is held in the
\* protocol fee vault that claim_keeper_rebate pays it from.
RebatesBacked == pool.pending_keeper_rebates <= protocol_fee_vault

\* A market's skew stays within its skew cap.
SkewWithinCap == \A m \in Markets : AbsVal(funding[m].skew) <= params[m].skew_cap

\* When liquidate reports InsuranceShortfallMarketHalted, the market is halted.
LiquidationHaltRecorded ==
    liq_result.code = "InsuranceShortfallMarketHalted" => funding[liq_result.market].halted

\* A partial close keeps the leg's average entry price: the remaining
\* notional per unit is never below the old one and exceeds it by less than
\* one unit of rounding (N' * q >= N * q' and N' * q - N * q' < q).
AvgEntryPriceKept ==
    [][\A u \in Users, m \in Markets, leg \in Legs :
         LET q  == position[u][m][QtyField(leg)]
             q2 == position'[u][m][QtyField(leg)]
             nn == position[u][m][NotionalField(leg)]
             n2 == position'[u][m][NotionalField(leg)]
         IN  (q2 < q /\ q2 > 0) => (n2 * q >= nn * q2 /\ n2 * q - nn * q2 < q)]_vars


\* liquidate's eligibility test in market m (funding settled first) for a
\* trader holding a leg there.
MmrBreached(u, m) ==
    /\ position[u][m].long_qty + position[u][m].short_qty > 0
    /\ SettledColl(u, m, margin[u].collateral_balance)
         < mul_bps_u64(margin[u].total_notional, params[m].mmr_bps)

\* The trader's own steps that pass an initial-margin check on the account.
MarginCheckedStep(u) ==
    \/ \E a \in DepositAmounts : WithdrawCollateral(u, a)
    \/ \E n \in OrderIds, fp \in FillPrices, op \in OraclePrices, oc \in OracleConfs,
          age \in OracleAges : ExecuteOpen(u, n, fp, op, oc, age)

\* A withdraw_collateral or an opening fill, having passed its initial-margin
\* check, never leaves the trader open to liquidation in a market where they
\* were not: every market has imr_bps > mmr_bps (spec section 3), so meeting
\* initial margin is meant to keep an account above maintenance margin.
NoSelfInflictedLiquidation ==
    [][\A u \in Users :
         MarginCheckedStep(u) =>
            \A m \in Markets : ~MmrBreached(u, m) => ~MmrBreached(u, m)']_vars

====
