--------------------------- MODULE MC_OrderEngine ---------------------------
(***************************************************************************)
(* Model-checking instances of OrderEngine: the market parameter records  *)
(* the .cfg files bind to InitParams and ParamUpdates, and the symmetry of *)
(* traders.  Prices are in units of PRICE_SCALE = 100, so a fill of 102   *)
(* is 1.02 and a notional of 100 buys 98 units at it.                      *)
(***************************************************************************)
EXTENDS OrderEngine, TLC

\* One market's params: only the fields a run varies are arguments.
MkParams(imr, taker, skew_cap, clamp, cap_per_day, interval) ==
    [max_leverage |-> 10, imr_bps |-> imr, mmr_bps |-> 500, oi_cap |-> 1000,
     skew_cap |-> skew_cap, max_trade_notional |-> 100,
     base_spread_bps |-> 100, skew_coeff_bps |-> 100, max_fill_deviation_bps |-> 200,
     max_oracle_staleness_sec |-> 60, max_conf_bps |-> 100,
     interval_sec |-> interval, funding_velocity_cap_bps_per_day |-> cap_per_day,
     premium_clamp_bps |-> clamp, taker_fee_bps |-> taker]

\* Funding switched off (zero velocity cap): the trading core on its own.
CoreParams == MkParams(1000, 100, 150, 0, 0, 1)
NoUpdates == {}

\* Funding on: one basis point of premium per 10 s, velocity cap of
\* 10 bps per second (864000 bps/day), so it is the premium clamp that binds.
FundingParamsOn == MkParams(1000, 100, 150, 1, 864000, 10)
\* The admin later lowers the velocity cap to half a basis point per second:
\* an update one second after the last one may then move the index by 0.
FundingCapUpdates == {MkParams(1000, 100, 150, 1, 43200, 10)}

\* The admin raises the initial margin and the taker fee of a live market.
MarginFeeUpdates == {MkParams(2000, 200, 150, 0, 0, 1)}

\* A high-margin market: imr 20%, mmr 15%.
HighMarginParams == [MkParams(2000, 100, 150, 0, 0, 1) EXCEPT !.mmr_bps = 1500]
\* Markets created with the core params, with funding on, or each market
\* either high- or low-margin.
CoreMarkets == {CoreParams}
FundingMarkets == {FundingParamsOn}
MixedMarginMarkets == {HighMarginParams, CoreParams}

\* Marketable limit prices: a buy up to 102, a sell down to 98.
MarketableLimits == [s \in Sides |-> IF s = "Buy" THEN {102} ELSE {98}]
NoStatusChange == {}

UserSymmetry == Permutations(Users)

\* The refinement mapping: a trader's free balance is collateral_balance,
\* an open order holds what place_order debited (the ghost reserved).
TA == INSTANCE TradingAccount WITH
        free   <- [u \in Users |-> margin[u].collateral_balance],
        held   <- [u \in Users |-> [n \in OrderIds |->
                     IF orders[u][n].status = "Open" THEN orders[u][n].reserved ELSE 0]],
        status <- [u \in Users |-> [n \in OrderIds |-> orders[u][n].status]],
        nonce  <- [u \in Users |-> margin[u].next_order_nonce]

\* The engine implements the trading-account promise: cancel and expiry
\* (execute_order's TTL branch) give back exactly what place_order took, a
\* fill never credits a trader beyond what the order held, and each order
\* ends once.  Funding settlement and liquidation change only a trader's
\* free balance (abstract Deposit and Debit), so the promise is checked with
\* funding on as well, as long as no update changes imr_bps or taker_fee_bps
\* while an order is open (run reservation_refund shows such an update).
TradingAccountRefined == TA!Spec
=============================================================================
