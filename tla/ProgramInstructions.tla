------------------------- MODULE ProgramInstructions -------------------------
(***************************************************************************)
(* The instructions as the program declares them: the Accounts struct of   *)
(* each (instructions/*.rs), whose fields are bound by position, and its   *)
(* dispatcher (lib.rs): number, gate, parameters in the order in which     *)
(* they are read from the data. A field is writable if it is mut or init,  *)
(* a signer if it is a Signer; #[event_cpi] appends two more accounts.     *)
(* The notation is that of ClientInstructions.                             *)
(***************************************************************************)
EXTENDS ClientInstructions

EventTrailer == <<R("event_authority"), R("program")>>

\* The accounts a depositor's record and a market are derived from.
DepositSeeds == <<"market", "vault_idx", "signer">>
WithdrawSeeds == <<"market", "vault_idx", "signer">>
ForceWithdrawDepositorSeeds == <<"market", "vault_idx", "owner">>
PositionSeeds == [deposit |-> DepositSeeds, withdraw |-> WithdrawSeeds,
                  force_withdraw_depositor |-> ForceWithdrawDepositorSeeds]

------------------------------------------------------------------------------
InitFields ==
    <<WS("payer"), W("registry"), R("program_data"), R("fee_mint"), W("fee_vault"),
      R("token_program"), R("associated_token_program"), R("system_program")>>
InitHandler ==
    [discrim |-> 0, gate |-> "upgrade_authority", teardown |-> FALSE,
     params |-> <<<<"genesis_admin", "Pubkey">>, <<"fee_atoms", "u64">>>>]

AddAdminFields ==
    <<WS("admin"), W("registry"), R("system_program")>>
AddAdminHandler ==
    [discrim |-> 1, gate |-> "admin", teardown |-> FALSE,
     params |-> <<<<"new_admin", "Pubkey">>>>]

RemoveAdminFields ==
    <<WS("admin"), W("registry")>>
RemoveAdminHandler ==
    [discrim |-> 2, gate |-> "admin", teardown |-> FALSE,
     params |-> <<<<"target", "Pubkey">>>>]

CreateMarketFields ==
    <<WS("payer"), W("registry"), R("base_mint"), R("quote_mint"), R("base_token_program"),
      R("quote_token_program"), W("market"), W("base_treasury"), W("quote_treasury"),
      R("fee_mint"), R("fee_token_program"), W("payer_fee_source"), W("registry_fee_treasury"),
      R("system_program"), R("associated_token_program")>>
CreateMarketHandler ==
    [discrim |-> 3, gate |-> "none", teardown |-> FALSE,
     params |-> <<>>]

CreateVaultFields ==
    <<WS("payer"), R("registry"), W("market"), R("fee_mint"), R("fee_token_program"),
      W("payer_fee_source"), W("registry_fee_treasury"), R("system_program")>>
        \o EventTrailer
CreateVaultHandler ==
    [discrim |-> 4, gate |-> "none", teardown |-> FALSE,
     params |-> <<<<"perf_fee_rate", "u32">>, <<"quote_authority", "Pubkey">>,
                  <<"allow_outside_depositors", "bool">>, <<"leader_override", "Pubkey">>>>]

SetReferencePriceFields ==
    <<RS("signer"), W("market")>>
SetReferencePriceHandler ==
    [discrim |-> 5, gate |-> "none", teardown |-> FALSE,
     params |-> <<<<"vault_idx", "u32">>, <<"price_bits", "u32">>, <<"quote_slot", "u32">>,
                  <<"quote_unix", "u32">>>>]

SetLiquidityProfileFields ==
    <<RS("signer"), W("market")>>
SetLiquidityProfileHandler ==
    [discrim |-> 6, gate |-> "none", teardown |-> FALSE,
     params |-> <<<<"vault_idx", "u32">>, <<"profile_bytes", "[u8; 224]">>>>]

DepositFields ==
    <<WS("signer"), W("market"), W("vault_depositor"), R("base_mint"), R("quote_mint"),
      R("base_token_program"), R("quote_token_program"), W("signer_base_ata"),
      W("signer_quote_ata"), W("market_base_treasury"), W("market_quote_treasury"), R("clock"),
      R("system_program"), R("associated_token_program")>>
        \o EventTrailer
DepositHandler ==
    [discrim |-> 7, gate |-> "none", teardown |-> FALSE,
     params |-> <<<<"vault_idx", "u32">>, <<"base_in", "u64">>, <<"quote_in", "u64">>,
                  <<"max_base_in", "u64">>, <<"max_quote_in", "u64">>>>]

WithdrawFields ==
    <<WS("signer"), W("market"), W("vault_depositor"), R("base_mint"), R("quote_mint"),
      R("base_token_program"), R("quote_token_program"), W("signer_base_ata"),
      W("signer_quote_ata"), W("market_base_treasury"), W("market_quote_treasury"),
      R("associated_token_program"), R("system_program")>>
        \o EventTrailer
WithdrawHandler ==
    [discrim |-> 8, gate |-> "none", teardown |-> FALSE,
     params |-> <<<<"vault_idx", "u32">>, <<"shares_in", "u64">>, <<"min_base_out", "u64">>,
                  <<"min_quote_out", "u64">>>>]

SwapFields ==
    <<WS("taker"), W("market"), R("base_mint"), R("quote_mint"), R("base_token_program"),
      R("quote_token_program"), W("taker_base_ata"), W("taker_quote_ata"),
      W("market_base_treasury"), W("market_quote_treasury"), R("clock"),
      OR("platform_fee_authority"), OW("platform_fee_ata"), R("associated_token_program"),
      R("system_program")>>
        \o EventTrailer
SwapHandler ==
    [discrim |-> 9, gate |-> "none", teardown |-> FALSE,
     params |-> <<<<"side", "u8">>, <<"amount_in", "u64">>, <<"limit_price_bits", "u32">>,
                  <<"min_out", "u64">>, <<"platform_fee_bps", "u16">>>>]

DepositLeaderFields ==
    <<WS("signer"), W("market"), R("base_mint"), R("quote_mint"), R("base_token_program"),
      R("quote_token_program"), W("signer_base_ata"), W("signer_quote_ata"),
      W("market_base_treasury"), W("market_quote_treasury"), R("system_program"),
      R("associated_token_program")>>
        \o EventTrailer
DepositLeaderHandler ==
    [discrim |-> 10, gate |-> "none", teardown |-> FALSE,
     params |-> <<<<"vault_idx", "u32">>, <<"base_in", "u64">>, <<"quote_in", "u64">>,
                  <<"max_base_in", "u64">>, <<"max_quote_in", "u64">>>>]

WithdrawLeaderFields ==
    <<WS("signer"), W("market"), R("base_mint"), R("quote_mint"), R("base_token_program"),
      R("quote_token_program"), W("signer_base_ata"), W("signer_quote_ata"),
      W("market_base_treasury"), W("market_quote_treasury"), R("associated_token_program"),
      R("system_program")>>
        \o EventTrailer
WithdrawLeaderHandler ==
    [discrim |-> 11, gate |-> "none", teardown |-> FALSE,
     params |-> <<<<"vault_idx", "u32">>, <<"shares_in", "u64">>, <<"min_base_out", "u64">>,
                  <<"min_quote_out", "u64">>>>]

SetAllowOutsideDepositorsFields ==
    <<RS("signer"), W("market")>>
SetAllowOutsideDepositorsHandler ==
    [discrim |-> 12, gate |-> "none", teardown |-> FALSE,
     params |-> <<<<"vault_idx", "u32">>, <<"flag", "bool">>>>]

SetOutsideDepositsApprovedFields ==
    <<RS("admin"), R("registry"), W("market")>>
SetOutsideDepositsApprovedHandler ==
    [discrim |-> 13, gate |-> "admin", teardown |-> FALSE,
     params |-> <<<<"vault_idx", "u32">>, <<"flag", "bool">>>>]

CloseVaultFields ==
    <<RS("signer"), W("market")>>
        \o EventTrailer
CloseVaultHandler ==
    [discrim |-> 14, gate |-> "none", teardown |-> FALSE,
     params |-> <<<<"vault_idx", "u32">>>>]

FreezeVaultFields ==
    <<RS("admin"), R("registry"), W("market")>>
        \o EventTrailer
FreezeVaultHandler ==
    [discrim |-> 15, gate |-> "admin", teardown |-> FALSE,
     params |-> <<<<"vault_idx", "u32">>>>]

ForceWithdrawDepositorFields ==
    <<WS("admin"), R("registry"), W("market"), W("owner"), W("vault_depositor"), R("base_mint"),
      R("quote_mint"), R("base_token_program"), R("quote_token_program"), W("owner_base_ata"),
      W("owner_quote_ata"), W("market_base_treasury"), W("market_quote_treasury"),
      R("associated_token_program"), R("system_program")>>
        \o EventTrailer
ForceWithdrawDepositorHandler ==
    [discrim |-> 16, gate |-> "admin", teardown |-> TRUE,
     params |-> <<<<"vault_idx", "u32">>>>]

ForceWithdrawLeaderFields ==
    <<WS("admin"), R("registry"), W("market"), R("leader"), R("base_mint"), R("quote_mint"),
      R("base_token_program"), R("quote_token_program"), W("leader_base_ata"),
      W("leader_quote_ata"), W("market_base_treasury"), W("market_quote_treasury"),
      R("associated_token_program"), R("system_program")>>
        \o EventTrailer
ForceWithdrawLeaderHandler ==
    [discrim |-> 17, gate |-> "admin", teardown |-> TRUE,
     params |-> <<<<"vault_idx", "u32">>>>]

CloseMarketTreasuryFields ==
    <<RS("admin"), R("registry"), W("market"), R("mint"), R("token_program"), W("treasury"),
      W("token_recipient"), W("rent_recipient")>>
        \o EventTrailer
CloseMarketTreasuryHandler ==
    [discrim |-> 18, gate |-> "admin", teardown |-> TRUE,
     params |-> <<>>]

CloseMarketFields ==
    <<RS("admin"), W("registry"), W("market"), R("base_treasury"), R("quote_treasury"),
      W("rent_recipient")>>
CloseMarketHandler ==
    [discrim |-> 19, gate |-> "admin", teardown |-> TRUE,
     params |-> <<>>]

CloseRegistryFeeVaultFields ==
    <<RS("admin"), R("registry"), R("fee_mint"), R("token_program"), W("fee_vault"),
      W("token_recipient"), W("rent_recipient")>>
        \o EventTrailer
CloseRegistryFeeVaultHandler ==
    [discrim |-> 20, gate |-> "admin", teardown |-> TRUE,
     params |-> <<>>]

CloseRegistryFields ==
    <<RS("admin"), W("registry"), W("rent_recipient")>>
CloseRegistryHandler ==
    [discrim |-> 21, gate |-> "admin", teardown |-> TRUE,
     params |-> <<>>]

SetMinLeaderShareFields ==
    <<RS("admin"), R("registry"), W("market")>>
        \o EventTrailer
SetMinLeaderShareHandler ==
    [discrim |-> 22, gate |-> "admin", teardown |-> FALSE,
     params |-> <<<<"vault_idx", "u32">>, <<"min_leader_share", "u32">>>>]

SetMarketFeeConfigFields ==
    <<WS("admin"), R("registry"), W("market"), R("fee_mint"), R("fee_token_program"),
      W("registry_fee_treasury"), R("associated_token_program"), R("system_program")>>
        \o EventTrailer
SetMarketFeeConfigHandler ==
    [discrim |-> 23, gate |-> "admin", teardown |-> FALSE,
     params |-> <<<<"atoms", "u64">>>>]

SetTakerFeeFields ==
    <<RS("admin"), R("registry"), W("market")>>
        \o EventTrailer
SetTakerFeeHandler ==
    [discrim |-> 24, gate |-> "admin", teardown |-> FALSE,
     params |-> <<<<"taker_fee", "u16">>>>]

SetRegistryDefaultsFields ==
    <<RS("admin"), W("registry")>>
        \o EventTrailer
SetRegistryDefaultsHandler ==
    [discrim |-> 25, gate |-> "admin", teardown |-> FALSE,
     params |-> <<<<"taker_fee", "Option<u16>">>, <<"max_platform_fee", "Option<u16>">>,
                  <<"min_leader_share", "Option<u32>">>>>]

SetDefaultFeeConfigFields ==
    <<WS("admin"), W("registry"), R("fee_mint"), R("fee_token_program"),
      W("registry_fee_treasury"), R("associated_token_program"), R("system_program")>>
        \o EventTrailer
SetDefaultFeeConfigHandler ==
    [discrim |-> 26, gate |-> "admin", teardown |-> FALSE,
     params |-> <<<<"atoms", "u64">>>>]

SetQuoteAuthorityFields ==
    <<RS("signer"), W("market")>>
SetQuoteAuthorityHandler ==
    [discrim |-> 27, gate |-> "none", teardown |-> FALSE,
     params |-> <<<<"vault_idx", "u32">>, <<"new_authority", "Pubkey">>>>]

SweepResidualFields ==
    <<RS("admin"), R("registry"), R("market"), R("mint"), R("token_program"), W("treasury"),
      W("token_recipient")>>
        \o EventTrailer
SweepResidualHandler ==
    [discrim |-> 28, gate |-> "admin", teardown |-> FALSE,
     params |-> <<>>]

SetMaxPlatformFeeFields ==
    <<RS("admin"), R("registry"), W("market")>>
        \o EventTrailer
SetMaxPlatformFeeHandler ==
    [discrim |-> 29, gate |-> "admin", teardown |-> FALSE,
     params |-> <<<<"max_platform_fee", "u16">>>>]
------------------------------------------------------------------------------
Program ==
    [init |-> [fields |-> InitFields, handler |-> InitHandler],
     add_admin |-> [fields |-> AddAdminFields, handler |-> AddAdminHandler],
     remove_admin |-> [fields |-> RemoveAdminFields, handler |-> RemoveAdminHandler],
     create_market |-> [fields |-> CreateMarketFields, handler |-> CreateMarketHandler],
     create_vault |-> [fields |-> CreateVaultFields, handler |-> CreateVaultHandler],
     set_reference_price |-> [fields |-> SetReferencePriceFields, handler |-> SetReferencePriceHandler],
     set_liquidity_profile |-> [fields |-> SetLiquidityProfileFields, handler |-> SetLiquidityProfileHandler],
     deposit |-> [fields |-> DepositFields, handler |-> DepositHandler],
     withdraw |-> [fields |-> WithdrawFields, handler |-> WithdrawHandler],
     swap |-> [fields |-> SwapFields, handler |-> SwapHandler],
     deposit_leader |-> [fields |-> DepositLeaderFields, handler |-> DepositLeaderHandler],
     withdraw_leader |-> [fields |-> WithdrawLeaderFields, handler |-> WithdrawLeaderHandler],
     set_allow_outside_depositors |-> [fields |-> SetAllowOutsideDepositorsFields, handler |-> SetAllowOutsideDepositorsHandler],
     set_outside_deposits_approved |-> [fields |-> SetOutsideDepositsApprovedFields, handler |-> SetOutsideDepositsApprovedHandler],
     close_vault |-> [fields |-> CloseVaultFields, handler |-> CloseVaultHandler],
     freeze_vault |-> [fields |-> FreezeVaultFields, handler |-> FreezeVaultHandler],
     force_withdraw_depositor |-> [fields |-> ForceWithdrawDepositorFields, handler |-> ForceWithdrawDepositorHandler],
     force_withdraw_leader |-> [fields |-> ForceWithdrawLeaderFields, handler |-> ForceWithdrawLeaderHandler],
     close_market_treasury |-> [fields |-> CloseMarketTreasuryFields, handler |-> CloseMarketTreasuryHandler],
     close_market |-> [fields |-> CloseMarketFields, handler |-> CloseMarketHandler],
     close_registry_fee_vault |-> [fields |-> CloseRegistryFeeVaultFields, handler |-> CloseRegistryFeeVaultHandler],
     close_registry |-> [fields |-> CloseRegistryFields, handler |-> CloseRegistryHandler],
     set_min_leader_share |-> [fields |-> SetMinLeaderShareFields, handler |-> SetMinLeaderShareHandler],
     set_market_fee_config |-> [fields |-> SetMarketFeeConfigFields, handler |-> SetMarketFeeConfigHandler],
     set_taker_fee |-> [fields |-> SetTakerFeeFields, handler |-> SetTakerFeeHandler],
     set_registry_defaults |-> [fields |-> SetRegistryDefaultsFields, handler |-> SetRegistryDefaultsHandler],
     set_default_fee_config |-> [fields |-> SetDefaultFeeConfigFields, handler |-> SetDefaultFeeConfigHandler],
     set_quote_authority |-> [fields |-> SetQuoteAuthorityFields, handler |-> SetQuoteAuthorityHandler],
     sweep_residual |-> [fields |-> SweepResidualFields, handler |-> SweepResidualHandler],
     set_max_platform_fee |-> [fields |-> SetMaxPlatformFeeFields, handler |-> SetMaxPlatformFeeHandler]]
=============================================================================
