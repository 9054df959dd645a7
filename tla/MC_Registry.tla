------------------------------ MODULE MC_Registry ------------------------------
(***************************************************************************)
(* Model-checking instance of Registry: the argument records offered to    *)
(* initialize_global, create_market / update_market_params and             *)
(* initialize_engine.                                                      *)
(***************************************************************************)
EXTENDS Deployment

\* A split that adds up to 10_000, and one that does not.
RunFeeSplits == {[lp_bps |-> 7000, insurance_bps |-> 2000, protocol_bps |-> 1000],
                 [lp_bps |-> 7000, insurance_bps |-> 2000, protocol_bps |-> 2000]}

MkParams(v, risk, fee) ==
    [values |-> v, risk |-> risk, pricing |-> TRUE, funding |-> TRUE, fee |-> fee]

\* Two valid parameter sets, and two that fail one validate() each
\* (risk, e.g. imr_bps <= mmr_bps; fee, e.g. taker_fee_bps > 1_000).
RunParamChoices ==
    {MkParams("A", TRUE, TRUE), MkParams("B", TRUE, TRUE),
     MkParams("C", FALSE, TRUE), MkParams("D", TRUE, FALSE)}

\* Valid engine arguments, and a liquidation penalty above 5_000 bps.
RunEngineConfigs ==
    {[max_ttl_secs |-> 60, liquidation_penalty_bps |-> 500, max_imr_bps |-> 10000],
     [max_ttl_secs |-> 60, liquidation_penalty_bps |-> 6000, max_imr_bps |-> 1000]}
=============================================================================
