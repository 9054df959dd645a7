------------------------------ MODULE MC_LpVault ------------------------------
(***************************************************************************)
(* Model-checking instance of LpVault: the PoolConfigParams records the    *)
(* admin may pass to configure_pool.                                       *)
(***************************************************************************)
EXTENDS LpVault, TLC

\* A PoolConfigParams record; the bps fields are u16 values.
MkPoolConfig(cooldown, buffer, lp_bps, insurance_bps, protocol_bps) ==
    [cooldown_secs |-> cooldown, min_liquidity_buffer_bps |-> buffer,
     lp_fee_bps |-> lp_bps, insurance_fee_bps |-> insurance_bps,
     protocol_fee_bps |-> protocol_bps, execution_rebate_usdc |-> 1]

\* The admin switching between a 1 s cooldown with a 50% buffer and all fees
\* to LPs, and no cooldown and no buffer; and two configs validate rejects:
\* a fee split adding up to 9_000, and one whose u16 sum overflows (60_000
\* + 10_000) but would wrap to exactly 10_000 without checked_add.
PoolRunConfigs == {MkPoolConfig(1, 5000, 10000, 0, 0), MkPoolConfig(0, 0, 7000, 2000, 1000),
                   MkPoolConfig(2, 0, 7000, 2000, 1000),
                   MkPoolConfig(0, 0, 5000, 2000, 2000), MkPoolConfig(0, 0, 60000, 10000, 5536)}
\* LPs are interchangeable model values.
LPSymmetry == Permutations(LPs)
=============================================================================
