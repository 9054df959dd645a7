------------------------------- MODULE LpVault -------------------------------
(***************************************************************************)
(* The lp_vault program's liquidity side: LP positions, share minting on   *)
(* deposit_lp, two-step withdrawal (request_withdraw_lp, then              *)
(* claim_withdraw_lp after a cooldown and above a liquidity buffer), the   *)
(* admin's configure_pool, and the LP part of every taker fee that         *)
(* order_engine's execute_order transfers into the liquidity vault.        *)
(*                                                                         *)
(* Time follows the code's unix timestamps, bounded by MaxTime.  Only      *)
(* now - requested_at is ever compared (with cooldown_secs <= MaxTime), so *)
(* once now reaches MaxTime a tick moves every pending requested_at one    *)
(* second back instead, saturating at 0: the behaviours of the code are    *)
(* kept and the clock stays finite.            *)
(***************************************************************************)
EXTENDS Integers, FiniteSets, FiniteSetsExt

CONSTANTS
    LPs,            \* liquidity providers (model values)
    MaxTime,        \* bound of the clock
    MaxRequests,    \* bound of LpPosition.withdraw_nonce
    MaxTokens,      \* bound of the USDC held by the LPs and the vault (caps fee inflow)
    InitCooldown,   \* initialize_pool's cooldown_secs
    InitBufferBps,  \* initialize_pool's min_liquidity_buffer_bps
    PoolConfigs,    \* PoolConfigParams the admin may pass to configure_pool
    WalletInit,     \* each LP's USDC at the start
    DepositAmounts, \* amounts LPs pass to deposit_lp
    ShareAmounts,   \* share amounts LPs pass to request_withdraw_lp
    TradeFees       \* taker fees of fills whose LP part reaches the vault

BPS_DENOM == 10000
DEFAULT_LP_BPS == 7000
DEFAULT_INSURANCE_BPS == 2000
DEFAULT_PROTOCOL_BPS == 1000
Nonces == 0..(MaxRequests - 1)

U16_MAX == 65535

\* PoolConfigParams::validate.  The bps fields are u16 and are summed with
\* checked_add, so a sum past U16_MAX is MathOverflow, not a wrapped value.
ValidPoolConfig(c) ==
    /\ c.cooldown_secs >= 0
    /\ c.min_liquidity_buffer_bps <= BPS_DENOM
    /\ c.lp_fee_bps + c.insurance_fee_bps <= U16_MAX
    /\ c.lp_fee_bps + c.insurance_fee_bps + c.protocol_fee_bps <= U16_MAX
    /\ c.lp_fee_bps + c.insurance_fee_bps + c.protocol_fee_bps = BPS_DENOM

ASSUME
    /\ InitCooldown \in 0..MaxTime
    /\ InitBufferBps \in 0..BPS_DENOM
    /\ \A c \in PoolConfigs : c.cooldown_secs <= MaxTime

VARIABLES
    now,
    wallet,           \* LP token accounts
    liquidity_vault,  \* pool.liquidity_vault balance
    pool,             \* [cooldown_secs, min_liquidity_buffer_bps, lp_fee_bps, total_shares]
    lp,               \* LpPosition per LP (exists: the account was created)
    request           \* WithdrawRequest per LP and nonce

vars == <<now, wallet, liquidity_vault, pool, lp, request>>

NoRequest == [status |-> "None", share_amount |-> 0, requested_at |-> 0]

\* helpers::mul_bps: u128 product, floor division.
mul_bps(value, bps) == (value * bps) \div BPS_DENOM

\* deposit_lp's minted_shares from the balances read before the transfer.
\* With total_shares_before > 0 and pre_liquidity = 0, checked_div fails.
MintedSharesInverted(amount, pre_liquidity, total_shares_before) ==
    IF total_shares_before = 0 THEN amount
    ELSE (amount * pre_liquidity) \div total_shares_before

MintedShares(amount, pre_liquidity, total_shares_before) ==
    IF total_shares_before = 0 THEN amount
    ELSE (amount * total_shares_before) \div pre_liquidity

\* claim_withdraw_lp's withdraw_amount.
WithdrawAmountCeil(share_amount, liquidity_before, total_shares) ==
    (share_amount * liquidity_before + total_shares - 1) \div total_shares

WithdrawAmount(share_amount, liquidity_before, total_shares) ==
    (share_amount * liquidity_before) \div total_shares

\* initialize_pool, with no LP position created yet.
Init ==
    /\ now = 0
    /\ wallet = [u \in LPs |-> WalletInit]
    /\ liquidity_vault = 0
    /\ pool = [cooldown_secs |-> InitCooldown,
               min_liquidity_buffer_bps |-> InitBufferBps,
               lp_fee_bps |-> DEFAULT_LP_BPS,
               total_shares |-> 0]
    /\ lp = [u \in LPs |-> [exists |-> FALSE, shares |-> 0,
                            pending_shares |-> 0, withdraw_nonce |-> 0]]
    /\ request = [u \in LPs |-> [n \in Nonces |-> NoRequest]]

CreateLpPosition(u) ==
    /\ ~lp[u].exists
    /\ lp' = [lp EXCEPT ![u].exists = TRUE]
    /\ UNCHANGED <<now, wallet, liquidity_vault, pool, request>>

DepositLp(u, amount) ==
    LET pre_liquidity == liquidity_vault
        total_shares_before == pool.total_shares
        minted == MintedShares(amount, pre_liquidity, total_shares_before)
    IN /\ amount > 0
       /\ lp[u].exists
       /\ wallet[u] >= amount
       /\ total_shares_before > 0 => pre_liquidity > 0
       /\ minted > 0
       /\ wallet' = [wallet EXCEPT ![u] = @ - amount]
       /\ liquidity_vault' = liquidity_vault + amount
       /\ pool' = [pool EXCEPT !.total_shares = @ + minted]
       /\ lp' = [lp EXCEPT ![u].shares = @ + minted]
       /\ UNCHANGED <<now, request>>

RequestWithdrawLp(u, share_amount) ==
    LET n == lp[u].withdraw_nonce
    IN /\ share_amount > 0
       /\ lp[u].exists
       /\ lp[u].shares >= share_amount
       /\ n < MaxRequests
       /\ lp' = [lp EXCEPT ![u].shares = @ - share_amount,
                           ![u].pending_shares = @ + share_amount,
                           ![u].withdraw_nonce = @ + 1]
       /\ request' = [request EXCEPT ![u][n] =
                        [status |-> "Pending", share_amount |-> share_amount,
                         requested_at |-> now]]
       /\ UNCHANGED <<now, wallet, liquidity_vault, pool>>

\* The cooldown test, against the pool's cooldown at claim time.
CooldownFinished(req) == now >= req.requested_at + pool.cooldown_secs

\* The buffer is a share of the balance before this withdrawal.
BufferKept(liquidity_before, withdraw_amount) ==
    liquidity_before - withdraw_amount
        >= mul_bps(liquidity_before, pool.min_liquidity_buffer_bps)

ReleaseFromShares(pos, share_amount) ==
    [pos EXCEPT !.shares = @ - share_amount]

\* The claimed shares leave pending_shares.
ReleasePending(pos, share_amount) ==
    [pos EXCEPT !.pending_shares = @ - share_amount]

\* The request account is closed to the user (Anchor close = user).
ClaimWithdrawLp(u, n) ==
    LET req == request[u][n]
        liquidity_before == liquidity_vault
        withdraw_amount == WithdrawAmount(req.share_amount, liquidity_before,
                                          pool.total_shares)
    IN /\ req.status = "Pending"
       /\ CooldownFinished(req)
       /\ lp[u].pending_shares >= req.share_amount
       /\ pool.total_shares > 0
       /\ withdraw_amount > 0
       /\ withdraw_amount <= liquidity_before
       /\ BufferKept(liquidity_before, withdraw_amount)
       /\ liquidity_vault' = liquidity_before - withdraw_amount
       /\ wallet' = [wallet EXCEPT ![u] = @ + withdraw_amount]
       /\ lp' = [lp EXCEPT ![u] = ReleasePending(@, req.share_amount)]
       /\ pool' = [pool EXCEPT !.total_shares = @ - req.share_amount]
       /\ request' = [request EXCEPT ![u][n].status = "Closed"]
       /\ UNCHANGED now

ConfigurePool(c) ==
    /\ ValidPoolConfig(c)
    /\ pool' = [pool EXCEPT !.cooldown_secs = c.cooldown_secs,
                            !.min_liquidity_buffer_bps = c.min_liquidity_buffer_bps,
                            !.lp_fee_bps = c.lp_fee_bps]
    /\ UNCHANGED <<now, wallet, liquidity_vault, lp, request>>

\* execute_order's transfer_fee_split: the LP part of a non-zero taker fee,
\* at the pool's current lp_fee_bps, moves from the collateral vault.
TransferLpFee(fee) ==
    LET lp_fee == mul_bps(fee, pool.lp_fee_bps)
    IN /\ fee > 0
       /\ liquidity_vault + MapThenSumSet(LAMBDA u : wallet[u], LPs) + lp_fee <= MaxTokens
       /\ liquidity_vault' = liquidity_vault + lp_fee
       /\ UNCHANGED <<now, wallet, pool, lp, request>>

\* A second passes: the clock moves, or at MaxTime the pending timestamps do.
Tick ==
    \/ /\ now < MaxTime
       /\ now' = now + 1
       /\ UNCHANGED <<wallet, liquidity_vault, pool, lp, request>>
    \/ /\ now = MaxTime
       /\ \E u \in LPs, n \in Nonces :
             request[u][n].status = "Pending" /\ request[u][n].requested_at > 0
       /\ request' = [u \in LPs |-> [n \in Nonces |->
                        IF request[u][n].status = "Pending"
                        THEN [request[u][n] EXCEPT !.requested_at = Max({@ - 1, 0})]
                        ELSE request[u][n]]]
       /\ UNCHANGED <<now, wallet, liquidity_vault, pool, lp>>

Next ==
    \/ \E u \in LPs : CreateLpPosition(u)
    \/ \E u \in LPs, a \in DepositAmounts : DepositLp(u, a)
    \/ \E u \in LPs, s \in ShareAmounts : RequestWithdrawLp(u, s)
    \/ \E u \in LPs, n \in Nonces : ClaimWithdrawLp(u, n)
    \/ \E c \in PoolConfigs : ConfigurePool(c)
    \/ \E f \in TradeFees : TransferLpFee(f)
    \/ Tick

Spec == Init /\ [][Next]_vars

-----------------------------------------------------------------------------
TypeOK ==
    /\ now \in 0..MaxTime
    /\ wallet \in [LPs -> Nat]
    /\ liquidity_vault \in Nat
    /\ pool.total_shares \in Nat
    /\ lp \in [LPs -> [exists : BOOLEAN, shares : Nat, pending_shares : Nat,
                       withdraw_nonce : 0..MaxRequests]]
    /\ request \in [LPs -> [Nonces -> [status : {"None", "Pending", "Closed"},
                                      share_amount : Nat,
                                      requested_at : 0..MaxTime]]]

PendingRequests(u) == {n \in Nonces : request[u][n].status = "Pending"}

\* Every share is held by exactly one LP, free or pending, and an LP's
\* pending_shares are the shares of its unclaimed requests.  request,
\* claim and deposit each update two or three of these counters.
ShareBooksAgree ==
    /\ pool.total_shares = MapThenSumSet(LAMBDA u : lp[u].shares + lp[u].pending_shares, LPs)
    /\ \A u \in LPs :
          lp[u].pending_shares = MapThenSumSet(LAMBDA n : request[u][n].share_amount,
                                               PendingRequests(u))

\* A share is always worth at least one token: deposit_lp rounds minted
\* shares down, claim_withdraw_lp rounds the payout down, and fees only add
\* to the vault.  So while shares exist the vault is never empty, and the
\* checked_div by pre_liquidity in deposit_lp never fails.
SharesBacked == liquidity_vault >= pool.total_shares

\* No step lowers the value of a share (vault / total_shares): the rounding
\* in deposit_lp and claim_withdraw_lp always favours the LPs who stay.
ShareValueNeverDiluted ==
    [][pool.total_shares > 0 /\ pool'.total_shares > 0 =>
         liquidity_vault' * pool.total_shares >= liquidity_vault * pool'.total_shares]_vars
=============================================================================
