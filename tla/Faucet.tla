------------------------------- MODULE Faucet -------------------------------
(***************************************************************************)
(* The usdc_faucet program for one mint, and the SPL token instructions   *)
(* the mint's authority holder can call on that mint outside the program  *)
(* (set_authority, mint_to).  The faucet's authority PDA is the model     *)
(* value FaucetPda: only the program signs for it, and the program never  *)
(* passes it to set_authority, so once the mint authority is the PDA it    *)
(* stays so.  Token accounts are left out: claim_from_faucet credits the  *)
(* caller's own account (its owner and mint constraints), and the          *)
(* property below is about the mint's supply.                              *)
(***************************************************************************)
EXTENDS Naturals

CONSTANTS
    Keys,                  \* signers
    FaucetPda,             \* the ["faucet-authority", mint] PDA
    InitialMintAuthority,  \* the key that created the mint
    Amounts,               \* u64 arguments offered to the handlers
    MAX_SUPPLY             \* bound on the modelled mint supply

ASSUME InitialMintAuthority \in Keys /\ FaucetPda \notin Keys
ASSUME Amounts \subseteq Nat /\ 0 \in Amounts /\ MAX_SUPPLY \in Nat

\* COption::None for the mint authority, and an absent FaucetConfig.
NoAuthority == "NoAuthority"
NoFaucet == <<>>

VARIABLES
    faucet_config,   \* NoFaucet, or [admin, default_amount, max_claim_amount]
    mint_authority,  \* Mint.mint_authority
    supply           \* Mint.supply

fvars == <<faucet_config, mint_authority, supply>>

FaucetTypeOK ==
    /\ faucet_config \in {NoFaucet} \cup
         [admin : Keys, default_amount : Amounts, max_claim_amount : Amounts]
    /\ mint_authority \in Keys \cup {FaucetPda, NoAuthority}
    /\ supply \in 0..MAX_SUPPLY

\* The checks initialize_faucet and update_faucet_limits share.
LimitsValid(default_amount, max_claim_amount) ==
    default_amount > 0 /\ max_claim_amount >= default_amount

FInit ==
    /\ faucet_config = NoFaucet
    /\ mint_authority = InitialMintAuthority
    /\ supply = 0

InitializeFaucetNoHandover(c, default_amount, max_claim_amount) ==
    /\ faucet_config = NoFaucet
    /\ LimitsValid(default_amount, max_claim_amount)
    /\ mint_authority \in {FaucetPda, c}
    /\ faucet_config' = [admin |-> c, default_amount |-> default_amount,
                         max_claim_amount |-> max_claim_amount]
    /\ UNCHANGED <<mint_authority, supply>>

\* initialize_faucet: `init` on the config PDA, so once per mint.  If the
\* mint authority is not yet the PDA, the signer must hold it and hands it
\* over by set_authority(MintTokens); if it already is the PDA, any signer
\* passes and becomes the faucet admin.
InitializeFaucet(c, default_amount, max_claim_amount) ==
    /\ faucet_config = NoFaucet
    /\ LimitsValid(default_amount, max_claim_amount)
    /\ mint_authority \in {FaucetPda, c}
    /\ mint_authority' = FaucetPda
    /\ faucet_config' = [admin |-> c, default_amount |-> default_amount,
                         max_claim_amount |-> max_claim_amount]
    /\ UNCHANGED supply

\* update_faucet_limits: the stored admin only.
UpdateFaucetLimits(c, default_amount, max_claim_amount) ==
    /\ faucet_config # NoFaucet
    /\ LimitsValid(default_amount, max_claim_amount)
    /\ c = faucet_config.admin
    /\ faucet_config' = [faucet_config EXCEPT !.default_amount = default_amount,
                                              !.max_claim_amount = max_claim_amount]
    /\ UNCHANGED <<mint_authority, supply>>

\* claim_from_faucet: amount 0 means the default; no per-user limit.
\* mint_to, signed by the PDA, fails if it is not the mint authority.
ClaimFromFaucet(c, amount) ==
    LET claim_amount == IF amount = 0 THEN faucet_config.default_amount ELSE amount
    IN /\ faucet_config # NoFaucet
       /\ claim_amount > 0
       /\ claim_amount <= faucet_config.max_claim_amount
       /\ mint_authority = FaucetPda
       /\ supply + claim_amount <= MAX_SUPPLY
       /\ supply' = supply + claim_amount
       /\ UNCHANGED <<faucet_config, mint_authority>>

\* SPL set_authority(MintTokens) and mint_to signed by a key holding the
\* mint authority (the PDA can only sign inside the faucet).
SplSetAuthority(c, new) ==
    /\ mint_authority = c
    /\ mint_authority' = new
    /\ UNCHANGED <<faucet_config, supply>>

SplMintTo(c, amount) ==
    /\ mint_authority = c
    /\ amount > 0
    /\ supply + amount <= MAX_SUPPLY
    /\ supply' = supply + amount
    /\ UNCHANGED <<faucet_config, mint_authority>>

FNext ==
    \E c \in Keys :
        \/ \E d, m \in Amounts :
               InitializeFaucet(c, d, m) \/ UpdateFaucetLimits(c, d, m)
        \/ \E a \in Amounts : ClaimFromFaucet(c, a) \/ SplMintTo(c, a)
        \/ \E new \in Keys \cup {FaucetPda, NoAuthority} : SplSetAuthority(c, new)

FSpec == FInit /\ [][FNext]_fvars

\* Once the faucet exists, the supply grows only by faucet claims: every
\* step that mints adds at most the max_claim_amount in force.  This needs
\* initialize_faucet to take the mint authority away from the admin in the
\* same instruction that creates the config, and no later instruction to
\* give it back; a config left beside a key-held authority would let that
\* key mint without limit while the faucet looks capped.
SupplyOnlyByClaims ==
    [][faucet_config # NoFaucet =>
         supply' <= supply + faucet_config.max_claim_amount]_fvars
====
