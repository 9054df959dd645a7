----------------------------- MODULE Deployment -----------------------------
(***************************************************************************)
(* The deployment-time programs side by side: the market registry with    *)
(* the engine's setup handlers (Registry) and the USDC faucet (Faucet).   *)
(* They share the signers and nothing else: no registry or engine handler *)
(* reads the faucet's accounts, and the faucet reads none of theirs, so a  *)
(* step of the system is a step of exactly one of them.                    *)
(***************************************************************************)
EXTENDS Registry

CONSTANTS FaucetPda, InitialMintAuthority, Amounts, MAX_SUPPLY

VARIABLES faucet_config, mint_authority, supply

F == INSTANCE Faucet

faucet_vars == <<faucet_config, mint_authority, supply>>

dvars == <<vars, faucet_vars>>

DeploymentTypeOK == TypeOK /\ F!FaucetTypeOK

DInit == Init /\ F!FInit

DNext ==
    \/ Next /\ UNCHANGED faucet_vars
    \/ F!FNext /\ UNCHANGED vars

DSpec == DInit /\ [][DNext]_dvars

\* Faucet.tla: once initialize_faucet has run, every step that raises the
\* USDC supply adds at most the faucet's max_claim_amount.
SupplyOnlyByClaims == F!SupplyOnlyByClaims
====
