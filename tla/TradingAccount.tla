---------------------------- MODULE TradingAccount ----------------------------
(***************************************************************************)
(* What the order engine promises a trader about their collateral account  *)
(* and orders (spec sections 4.6, 5 and 8), with prices, positions and     *)
(* fees abstracted away:                                                   *)
(*   - orders get consecutive nonces, start Open, and end exactly once,    *)
(*     as Cancelled, Expired or Executed;                                  *)
(*   - placing an order moves an amount from the free balance to the       *)
(*     order; cancelling or expiring it moves exactly that amount back;    *)
(*   - a fill closes the order and may cost the trader (fees), but never   *)
(*     leaves them with more than they had free plus what the order held;  *)
(*   - otherwise the free balance only rises by a deposit and only falls   *)
(*     by a withdrawal or a charge (liquidation).                          *)
(* One step changes one trader's account.  This is the promise without     *)
(* funding: funding payments credit and debit balances on their own.       *)
(***************************************************************************)
EXTENDS Naturals

CONSTANTS Users, OrderIds

VARIABLES free, held, status, nonce

vars == <<free, held, status, nonce>>

Terminal == {"Cancelled", "Expired", "Executed"}

Init ==
    /\ free = [u \in Users |-> 0]
    /\ held = [u \in Users |-> [n \in OrderIds |-> 0]]
    /\ status = [u \in Users |-> [n \in OrderIds |-> "None"]]
    /\ nonce = [u \in Users |-> 0]

\* Only trader u's free balance may change.
OthersKeep(u) == \A v \in Users \ {u} : free'[v] = free[v]

Deposit(u) ==
    /\ free'[u] > free[u]
    /\ OthersKeep(u)
    /\ UNCHANGED <<held, status, nonce>>

\* withdraw_collateral, or a liquidation penalty.
Debit(u) ==
    /\ free'[u] < free[u]
    /\ OthersKeep(u)
    /\ UNCHANGED <<held, status, nonce>>

Place(u) ==
    LET n == nonce[u]
    IN /\ n \in OrderIds
       /\ nonce' = [nonce EXCEPT ![u] = n + 1]
       /\ status' = [status EXCEPT ![u][n] = "Open"]
       /\ held'[u][n] <= free[u]
       /\ held' = [held EXCEPT ![u][n] = held'[u][n]]
       /\ free' = [free EXCEPT ![u] = free[u] - held'[u][n]]

Release(u, n) ==
    /\ status[u][n] = "Open"
    /\ status'[u][n] \in {"Cancelled", "Expired"}
    /\ status' = [status EXCEPT ![u][n] = status'[u][n]]
    /\ free' = [free EXCEPT ![u] = free[u] + held[u][n]]
    /\ held' = [held EXCEPT ![u][n] = 0]
    /\ UNCHANGED nonce

Fill(u, n) ==
    /\ status[u][n] = "Open"
    /\ status' = [status EXCEPT ![u][n] = "Executed"]
    /\ held' = [held EXCEPT ![u][n] = 0]
    /\ free'[u] <= free[u] + held[u][n]
    /\ OthersKeep(u)
    /\ UNCHANGED nonce

Next ==
    \E u \in Users :
        \/ Deposit(u)
        \/ Debit(u)
        \/ Place(u)
        \/ \E n \in OrderIds : Release(u, n) \/ Fill(u, n)

Spec == Init /\ [][Next]_vars
=============================================================================
