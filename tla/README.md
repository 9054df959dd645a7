# TLA+ models of the easyclaw perpetuals contracts

This directory holds TLA+ models of the Solana/Anchor programs under
`src/easyclaw-contract/programs/`, the TLC configurations that check them, and
`PROJECT.json`. `PROJECT.json` maps every modelling definition to the Rust lines
it translates. It also lists the runs, the mutants, the findings and the
hazards.

## 1. The system

There are four programs, and they interact through cross-program calls (CPI)
and shared accounts.

| Program | State | Operations |
|---|---|---|
| `market_registry` | `GlobalConfig` (global pause, admin), `Market` (status, `risk_params`, `pricing_params`, `funding_params`, `fee_params`), `KeeperSet` | `initialize_global`, `create_market`, `update_market_params`, `set_market_status`, `set_global_pause`, `add_keeper`, `remove_keeper` |
| `order_engine` | `EngineConfig` (fee split, penalty, max IMR), `UserMargin` (collateral_balance, next_order_nonce, total_notional), `Order`, `UserMarketPosition` (long/short qty and entry notional, last funding indices), `MarketFundingState` (open interest, skew, funding index and rate, halted) | `deposit_collateral`, `withdraw_collateral`, `place_order`, `cancel_order`, `cancel_order_by_executor`, `execute_order`, `liquidate`, plus the account-creation handlers |
| `lp_vault` | `Pool` (total_trading_fees, pending_keeper_rebates, shares, execution_rebate_usdc), `KeeperRebate`, `LpPosition`, `WithdrawRequest`, token vaults (liquidity, insurance, protocol fee) | `apply_trade_fill`, `apply_liquidation` (called by the engine), `claim_keeper_rebate`, `deposit_lp`, `request_withdraw_lp`, `claim_withdraw_lp`, setup |
| `usdc_faucet` | `FaucetConfig` | `claim_from_faucet`, limits and setup |

The engine reads a market's params and status and the global pause on every
call. It moves tokens into and out of one pooled `collateral_vault`.

- `execute_order` splits the taker fee into three parts: an LP part, an
  insurance part and a protocol part. It transfers each part to the matching
  lp_vault token account.
- It then calls `apply_trade_fill`, which books the fee and credits an
  execution rebate to the executor.
- `liquidate` transfers the penalty the same way and calls `apply_liquidation`.
- Funding accrues lazily. `update_funding_index` runs at the start of execute
  and liquidate, and `settle_user_funding` credits or debits the trader.

Every instruction is atomic. If any `require!` or CPI fails, or any `err!`
is returned, all of that instruction's account writes and transfers are
discarded. One instruction of the model is therefore one TLA+ step, and a
failing instruction is no step.

## 2. Modules

| Module | Models |
|---|---|
| `OrderEngine.tla` | The whole trading path. Collateral, the order lifecycle, execution, funding, positions and liquidation, together with the lp_vault handlers the engine calls and the registry admin actions that change what it reads. |
| `MC_OrderEngine.tla` | The params records bound to `InitParams`/`ParamUpdates`, limit prices per side, and trader symmetry. It also instantiates `TradingAccount` with the refinement mapping. |
| `TradingAccount.tla` | The abstract promise the engine makes a trader: orders get consecutive nonces and end once, as Cancelled, Expired or Executed; placing moves an amount from the free balance to the order; cancel and expiry move exactly that amount back; a fill never leaves more than free plus held. |
| `LpVault.tla` | lp_vault's liquidity side: `initialize_pool` (Init), `create_lp_position`, `deposit_lp`, `request_withdraw_lp`, `claim_withdraw_lp`, `configure_pool`, and the LP part of `execute_order`'s `transfer_fee_split` as an inflow. |
| `MC_LpVault.tla` | The `PoolConfigParams` records the admin may pass. |
| `Oracle.tla` | `helpers/oracle.rs`: `read_oracle_price_update` (fallback and Pyth paths), the exponent scaling (`pow10_u128` as a RECURSIVE `Pow10`, `scale_unsigned_value`, `scale_unsigned_value_ceil`, `ceil_div_u128`, the u64 conversions) and `validate_oracle`. |
| `MC_Oracle.tla` | The sets of exponents and publish times, which include negative numbers. |
| `Registry.tla` | market_registry's seven handlers, with the caller as a parameter, and the engine's setup handlers `initialize_engine` and `initialize_market_funding_state`. The signer checks (`require_admin` of both programs, `assert_executor_authorized`, `assert_keeper_only`) are operators. |
| `KeeperAccess.tla` | The abstract promise of the keeper set: the multisig grants and revokes single keys, up to a capacity, and the keys the executor checks admit follow its grants exactly. `Registry` instantiates it with a refinement mapping. |
| `Faucet.tla` | usdc_faucet for one mint: `initialize_faucet`, `update_faucet_limits`, `claim_from_faucet`. Beside them are the SPL `set_authority` and `mint_to` that the key holding the mint authority can call outside the program. |
| `Deployment.tla` | `Registry` and `Faucet` side by side. A step is a step of exactly one of them, since they share only the signers. |
| `MC_Registry.tla` | The fee splits, parameter sets and engine arguments offered to the handlers, valid and invalid. It extends `Deployment`. |

The components the engine calls are composed inside one module. The
cross-program calls are atomic parts of the caller's instruction, so
`apply_trade_fill` and `apply_liquidation` are operators conjoined into
`ExecuteOpen`/`ExecuteReduceOnly` and `Liquidate`, not actions of their own.

### State (VARIABLES) and the code

| Variable | Code |
|---|---|
| `now` | `Clock::unix_timestamp`, advanced by `Tick` up to `MaxTime` |
| `global_pause`, `market_status`, `params` | `GlobalConfig.global_pause`, `Market.status`, and the market's param structs (one flat record) |
| `wallet`, `collateral_vault`, `liquidity_vault`, `insurance_vault`, `protocol_fee_vault` | token-account balances |
| `margin[u]` | `UserMargin` (collateral_balance, next_order_nonce, total_notional) |
| `orders[u][n]` | `Order` keyed by (user, nonce), plus a ghost `reserved` recording what `place_order` debited |
| `position[u][m]` | `UserMarketPosition` |
| `funding[m]` | `MarketFundingState` |
| `pool` | `Pool.total_trading_fees`, `Pool.pending_keeper_rebates`, and one executor's `KeeperRebate.amount` |
| `liq_result` | the outcome of the last `liquidate` call, which is observable in the transaction result |

### Actions and the handlers they model

- `DepositCollateral`, `WithdrawCollateral`: `deposit_collateral.rs`,
  `withdraw_collateral.rs`. The withdraw guard is the code's IMR check on
  `total_notional` at `max_imr_bps`.
- `PlaceOrder`: `place_order.rs`. It checks pause, status, margin and
  notional bounds and the reservation (`estimate_order_reservation`), then
  debits the reservation.
- `CancelOrder`, `CancelOrderByExecutor`: `cancel_order.rs` and
  `cancel_order_by_executor.rs`. Both use `ReleaseReservation`, which refunds
  the reservation recomputed from the current params, as the code does.
- `ExpireOrder`: the `now > expires_at` branch of `execute_order`.
- `ExecuteReduceOnly`, `ExecuteOpen`: the two fill branches of
  `execute_order`. Each step does all of the following:
  - updates the funding index and settles funding;
  - runs the oracle, impact-price and limit-price checks;
  - changes the position and the open interest/skew/total_notional
    aggregates;
  - checks IMR, the OI cap and the skew cap (open only);
  - transfers the three fee parts;
  - calls `apply_trade_fill`.
- `Liquidate`, `LiquidateShortfall`: `liquidate.rs`.
  - `Liquidate` is the successful call: it settles funding, checks MMR,
    reduces the position, applies the penalty (floored at the collateral
    balance, the rest being bad debt), makes the transfers and calls
    `apply_liquidation`.
  - `LiquidateShortfall` is the `bad_debt > insurance_after_credit` branch.
    Its `err!` discards every write, so only `liq_result` changes.
- `ClaimKeeperRebate`: `claim_keeper_rebate.rs`.
- `UpdateMarketParams`, `SetMarketStatus`, `SetGlobalPause`: the
  market_registry admin handlers. Params are only updated to records that
  satisfy `ValidParams`, which is `types.rs` `validate`.

Data is abstracted: traders and markets are model values, and amounts are
small integers. Prices use `PRICE_SCALE = 100`, and the funding index uses
`FUNDING_SCALE = 1000`. Oracle price, confidence and age are drawn from small
sets at each fill. Division follows Rust: `\div` for u64/u128, and `TruncDiv`
for i128.

## 3. Runs

Every engine cfg (`MC_OrderEngine_*.cfg`) is an instance of `MC_OrderEngine` with `Users = {u1, u2}` (which
are symmetric), one market, one executor and `CHECK_DEADLOCK FALSE`. The exceptions are the two margin runs, which use one trader, and `cross_market_margin`, which uses two markets. `InitParams` is the set of records `create_market` may give a market, so in `cross_market_margin` the markets start with different margins.
Deadlock checking is off because no handler blocks. The only states with no
successor are those where the clock, the nonces and the wallets are all used
up.

| Run | Expect | Properties | What it shows |
|---|---|---|---|
| `core` | pass | `PositionBooksAgree`, `CollateralConserved`, `AvgEntryPriceKept`, `TradingAccountRefined` | The core runs with funding off and no penalty: two traders, two orders each, marketable buy and sell limits, fills at 98 and 102, partial closes of 49, and liquidation. Over all of these, the OI/skew/total_notional aggregates equal the sums over positions, and the collateral vault equals balances plus open reservations. A partial close keeps the leg's notional at no less than its pro-rata share and never above the original. |
| `funding` | pass | `TypeOK`, `TradingAccountRefined` | Funding accrues over three seconds with a 20% penalty, and the admin can change the velocity cap, the status and the pause. In this setting balances stay natural numbers through saturating funding debits and floored penalties. The engine still implements `TradingAccount`: an order that expires in `execute_order`'s TTL branch gives back exactly what `place_order` took, and funding settlement and liquidation move only the free balance. This run is where expiry, the shortfall branch and all admin actions fire. The admin's update here changes funding params only; run `reservation_refund` shows an update of `imr_bps` breaking the refund. |
| `reservation_refund` | violation | `ReservationRoundTrip` | A param update between place and cancel changes the refund. |
| `liquidation_halt` | violation | `LiquidationHaltRecorded` | The halt on an insurance shortfall is reverted along with the failing instruction. |
| `bad_debt_socialised` | violation | `VaultSolvent` | The full penalty leaves the pooled vault even when the trader could not pay it. |
| `reduce_only_skew` | violation | `SkewWithinCap` | A reduce-only fill pushes the skew past `skew_cap`. |
| `rebate_unbacked` | violation | `RebatesBacked` | Execution rebates are credited without tokens behind them. |
| `cross_market_margin` | violation | `NoSelfInflictedLiquidation` | One trader, two markets created with different margins (imr 10%/mmr 5% and imr 20%/mmr 15%). A fill in the low-margin market passes IMR on the account's total notional and leaves the trader liquidatable in the other. |
| `withdraw_stale_funding` | violation | `NoSelfInflictedLiquidation` | A lone long owing one second of funding withdraws down to `max_imr_bps` on its unsettled balance; settled, it is below mmr. |

The seven violations are findings; `PROJECT.json` records each one against its
source line. The same property also fails when `max_imr_bps`, the engine-wide
value `withdraw_collateral` checks, is below a market's mmr: a third cause,
recorded as a hazard (`withdraw_collateral.rs:30`).

**Why these bounds are enough.** Each bound is set to the smallest value at
which the interesting case happens.

- Two traders and two nonces each give the interleavings where both sides
  of the skew are open at once, and where one trader cancels while the other
  fills.
- Fills at 98 and 102 with margin 100 give quantities of 102 and 98, so
  positions are opened at one price and closed at the other.
- A close of 49 is a partial close with a non-integral pro-rata share, so the
  rounding in `reduce_position` matters.
- The funding run uses `MaxTime = 3` and a funding interval of 10 s, with a
  cap update to 43200 bps/day. Under that cap the velocity bound is 0 for
  elapsed 1 and non-zero for larger elapsed times, so both sides of the
  truncation are reached, and a TTL of 1 s lets orders expire.

**Mutants.** Each property of a passing run is also checked against a
plausible bug in the code it is about, and TLC reports each mutant as a
violation:

- a swapped sign in the skew update on close;
- a refund that drops the fee part;
- a ceiling instead of a floor in `reduce_position`;
- a missing floor at zero in the penalty;
- an expiry that marks the order Expired without refunding it, which breaks
  `TradingAccountRefined` in the funding run.


### LpVault, Oracle and the refinement

**Refinement.** `MC_OrderEngine` defines `TA == INSTANCE TradingAccount WITH`
the following mapping:

- `free <- collateral_balance`;
- `held <-` the ghost `reserved` of each Open order, and 0 otherwise;
- `status <-` the order status;
- `nonce <- next_order_nonce`.

The `core` run checks `TradingAccountRefined == TA!Spec` as a PROPERTY. Every
engine step is therefore one abstract step or a stutter. Funding is off in
that run: funding credits and debits balances with no order involved, which
the abstract spec does not allow.

**LpVault.** Its state is the following:

- `pool`: cooldown, buffer, lp_fee_bps, total_shares;
- `lp[u]`: `LpPosition`;
- `request[u][n]`: `WithdrawRequest`, with `claimed` and the Anchor
  `close = user` as status "Closed";
- the liquidity vault and the LP wallets;
- `now`.

Each handler is one action. Its guards are the handler's `require!`s and
checked operations:
- `deposit_lp`'s `checked_div` by the pre-transfer balance;
- `claim_withdraw_lp`'s cooldown, `withdraw_amount > 0`, the `checked_sub`
  and the buffer.

Time is the code's unix clock up to `MaxTime`. Only `now - requested_at` is
compared, against a cooldown of at most `MaxTime`. So at `MaxTime` a `Tick`
moves every pending `requested_at` back by one second instead, stopping at 0.
This is the finite-clock abstraction of Lamport's real-time specifications.

**Oracle.** Its state is one call: an update drawn from all combinations of
source, validity flags, price, confidence, exponent, publish time, the
confidence limit and the fill price, and the result of reading and validating
it.
- A Rust `Result` is a record.
- `AndThen` is `?`.
- u64 and u128 keep their overflow checks, against `U64_MAX = 65535` and
  `U128_MAX = 200000`. These are scaled down together with
  `PRICE_SCALE = 100`, so that every overflow branch is reachable while
  TLC's integers stay exact.

| Run | Expect | Properties | What it shows |
|---|---|---|---|
| `lp_pool` | pass | `TypeOK`, `ShareBooksAgree`, `SharesBacked`, `ShareValueNeverDiluted` | Two LPs with 2 tokens each, deposits of 1 and 2, requests of 1 and 2 shares, two requests each, and fee inflow up to a total of 7 tokens in the system, on a 2 s clock. The admin switches between a 1 s cooldown with a 50% buffer, no cooldown and no buffer, and a 2 s cooldown, so a cooldown can be lengthened or shortened between a request and its claim. Two invalid configs are offered and must be rejected: a split summing to 9,000, and one whose u16 sum overflows but would wrap to exactly 10,000. Under all of this, the share ledger agrees with positions and requests, every share is backed by at least one token (so the `checked_div` in `deposit_lp` never fails), and no step lowers the value of a share. The LPs are symmetric. |
| `oracle_scaling` | pass | `TypeOK`, `ScalingMatchesReference`, `ConfidenceCheckConservative` | The exponents cover -6..6: the overflow edges, and the flooring of small prices to 0. Over these, an accepted Pyth price is exactly the floor of price x 10^e x PRICE_SCALE, the confidence is exactly its ceiling, nothing above u64 is accepted, and no feed whose own confidence ratio exceeds `max_conf_bps` is accepted. |

The reference in `ScalingMatchesReference` uses the standard `^` of
`Integers`, not the recursive `Pow10`.

**Mutants of the new properties:**
- a refund without its fee part, which breaks `TradingAccountRefined`;
- a claim that takes shares from `shares` instead of `pending_shares`;
- minted shares with the ratio inverted;
- a payout rounded up;
- a u64 conversion without its check;
- a price rounded up;
- a confidence rounded down.

**LP findings without a run.** TLC also shows two behaviours that the spec
says nothing about:
- **The buffer can strand a request.** With `min_liquidity_buffer_bps > 0`,
  a request for more than (1 - buffer) of the vault can never be claimed,
  and no instruction cancels it. `lp_pool` reaches such a request. No
  liveness property states it: `LpVault`'s clock stops at `MaxTime` and then
  shifts pending timestamps back, so whether a claim is eventually possible
  would depend on that device rather than on the code.
- **Fees can go to the first depositor.** LP fees that arrive while no
  shares exist go to whoever deposits first.

Both are listed as hazards.

### Registry and access control

`Registry` starts before deployment: no account exists (`None`). Its
state is:
- `global_config`: the multisig and `global_pause`;
- `keepers`: `KeeperSet.keepers`, a sequence bounded by `MAX_KEEPERS`
  (`#[max_len]`);
- `market[m]`: status and parameters, or `None`;
- `engine_config`: the engine admin, or `None`;
- `funding_state[m]`: whether the market's funding state exists;
- `granted`: a history variable, the keys the multisig has added and not
  removed since.

Each handler is an action whose first argument is the signer, drawn from
three keys. An `init` account constraint (GlobalConfig, KeeperSet, Market,
EngineConfig, MarketFundingState) is the guard that the account is still
`None`. `push`, `position` and `swap_remove` are `Append`, `SelectInSeq`
and the last element moved into the freed slot. Each parameter group's
`validate()` is one flag: `ValidateParams` requires all four, and
`OrderEngine`'s `ValidParams` has the field checks. Only those two guarded handlers write params, so no invariant restates
the guard. `MAX_KEEPERS` is a
constant, because `constants.rs` is not part of the repository; the run
uses 2, so that `KeeperSetFull` is reached.

| Run | Expect | Properties | What it shows |
|---|---|---|---|
| `registry_access` | pass | `DeploymentTypeOK`, `KeeperAccessRefined`, `SupplyOnlyByClaims` | Any of three keys may initialize (naming any key multisig, with a valid or invalid fee split, paused or not), create and update a market with valid and invalid parameters, change statuses and the pause, add and remove keepers, and set up the engine. In every order, the keeper vector stays within capacity. `Registry` implements `KeeperAccess`: after `remove_keeper(k)` the engine's keeper and executor checks no longer admit `k` (unless it is the multisig) and still admit every other keeper; no other handler changes who is admitted. Meanwhile the faucet is set up, reconfigured and claimed from, and the mint authority is moved around. Once the faucet exists, no step mints more than its `max_claim_amount`. |

The refinement mapping sends the set of keys in `keepers` to the abstract
`authorized`. It sends the history variable `granted` to the abstract
`grants`. Without `granted`, an abstract revoke could take away any key, and
a removal of the wrong keeper would still refine it.

### The faucet

`Faucet`'s state is:
- `faucet_config`: the admin and the two limits, or `NoFaucet`;
- `mint_authority`: a key, the faucet's PDA `FaucetPda`, or `NoAuthority`;
- `supply`: the mint's supply, bounded by `MAX_SUPPLY`.

The mint starts with supply 0, and its authority is `InitialMintAuthority`.

`InitializeFaucet` is the whole handler:
- the amount checks;
- the branch on the current authority;
- the `set_authority` CPI to the PDA;
- the write of the config.

`ClaimFromFaucet` maps an amount of 0 to the default, checks the cap and the
PDA authority, and mints. Token accounts are left out, because a claim can
only credit the claimer's own account (Anchor's owner and mint constraints),
and no property reads balances. The run offers amounts 0, 1 and 2 and bounds
the supply at 3, so a claim of the maximum can follow another claim, and
`update_faucet_limits` can raise or lower the cap in between. `Registry` runs
with one market here: the second market of earlier versions added only
interleavings of independent market writes.

Its mutants:
- an off-by-one capacity check, which breaks `DeploymentTypeOK`;
- `add_keeper` without its duplicate check, which breaks
  `KeeperAccessRefined`. A key added twice survives one `remove_keeper`;
- `initialize_faucet` without the `set_authority` handover, which breaks
  `SupplyOnlyByClaims`. The admin keeps the mint authority and can mint 2
  while the faucet's cap is 1.

TLC also reaches the following, which are listed as hazards without a
property, because no statement of the spec decides them:
- Nobody, not even the multisig, can liquidate while the keeper set is
  empty (`liquidate` uses `assert_keeper_only`). This is the case right after
  `initialize_global`, and again after the last keeper is removed.
- `initialize_global` and `initialize_engine` accept any signer. The first
  caller names the multisig or the engine admin.
- `initialize_faucet` checks no signer once the mint authority is already the
  PDA. A mint owner who hands the authority over before initializing can be
  front-run, and the first caller becomes the faucet admin.

## 4. Fairness

No run assumes fairness, and every property is a safety, action or
refinement property. The programs have no scheduler: every handler runs
only if some signer sends a transaction, and nothing in the code obliges a
keeper, an executor or an LP to act.

No liveness property is checked for `LpVault`. "A pending withdrawal is
eventually paid" would need weak fairness of the clock and of the LP's
claims. It would also need a premise that the buffer stays 0, and under that
premise no config lengthens a cooldown. Its verdict would depend on how the
finite clock shifts pending timestamps at `MaxTime`, not on the code.

Symmetry is sound for these properties. It is used for the traders in the
engine runs and for the LPs in `lp_pool`.

## 5. Not modelled

- The signer checks inside `OrderEngine`. Its execute, cancel-by-executor
  and liquidate actions take their caller to be authorised. The checks
  themselves are modelled in `Registry`, but the two modules are not
  composed.
- Creating margin and position accounts (`create_margin_account`,
  `create_user_market_position`) after the start. `OrderEngine`'s Init is
  the state after these, and `Registry`'s setup handlers, have run for every
  trader and market. `init_keeper_rebate` only creates the account that
  OrderEngine takes as existing.
- Error codes (`error.rs`). A failed call is the absence of a step.
- The faucet's effect on the engine. It only funds wallets, and the engine
  runs start from `WalletInit`. A claim has no per-period or per-user limit,
  so any wallet amount is reachable.
- SPL token accounts and their balances. `Faucet` keeps only the mint's supply
  and authority.
- Funding solvency as a checked property. Funding is settled against the
  pooled vault: one side's credits are paid from everyone's deposits, and
  debits saturate. `VaultSolvent` would state that this never leaves the
  ledger owing more than the vault holds. The `funding` run, however, also
  has the liquidation penalty, whose overdraw breaks `VaultSolvent` first
  (run `bad_debt_socialised`). With the penalty at 0 and `MaxTime` 6,
  `VaultSolvent` held over 969,188 states. `CollateralConserved` does not
  hold there, because funding paid by an unmatched side stays in the vault,
  owned by nobody.
- Pyth's account owner, discriminator, Borsh layout, verification level and
  feed id. Each is one accept/reject flag in `Oracle`.
- The composition of `LpVault` with `OrderEngine` in one state space. The
  engine's LP fee inflow is `TransferLpFee` in `LpVault`; LP withdrawals do
  not affect the engine.
- Two markets are checked only in `cross_market_margin`. The passing runs
  use one market, to keep them within their time. What a second market adds
  is the account-wide margin across markets, and that run covers it.

## 6. Further work

1. A `Funding` module over longer times that checks funding accrues when it
   should. This would catch the velocity truncation at `funding.rs:38`.
2. `OrderEngine`'s executor-gated actions guarded by `Registry`'s access
   operators, in one composed module.
3. `LpVault` composed with the engine's fee flow, and larger LP instances.
