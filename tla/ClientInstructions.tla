------------------------- MODULE ClientInstructions -------------------------
(***************************************************************************)
(* The instruction builders of the generated Rust client (sdk/rs           *)
(* generated/instructions): which accounts each instruction names, in      *)
(* which order and with which privileges, what its data holds, which       *)
(* accounts the builder may leave out, and what the CPI variant and its    *)
(* builder pass on.                                                        *)
(*                                                                         *)
(* W and R are writable and read-only accounts, WS and RS those that also  *)
(* sign; an O in front marks an account that may be absent, in whose place *)
(* the program's own address goes, read-only. Addresses are named by what  *)
(* they stand for: "system" is the system program's.                       *)
(***************************************************************************)
EXTENDS Naturals, Sequences

Account(name, writable, signer, optional) ==
    [name |-> name, writable |-> writable, signer |-> signer, optional |-> optional]
W(name)  == Account(name, TRUE, FALSE, FALSE)
R(name)  == Account(name, FALSE, FALSE, FALSE)
WS(name) == Account(name, TRUE, TRUE, FALSE)
RS(name) == Account(name, FALSE, TRUE, FALSE)
OW(name) == Account(name, TRUE, FALSE, TRUE)
OR(name) == Account(name, FALSE, FALSE, TRUE)

NoDefaults == [nothing \in {} |-> "nothing"]

------------------------------------------------------------------------------
InitMetas ==
    <<WS("payer"), W("registry"), R("program_data"), R("fee_mint"), W("fee_vault"),
      R("token_program"), R("associated_token_program"), R("system_program")>>
InitData ==
    [discriminator |-> 0,
     args |-> <<<<"genesis_admin", "Pubkey">>, <<"fee_atoms", "u64">>>>]
InitBuilder ==
    [defaults |-> [token_program |-> "token", associated_token_program |-> "associated_token",
                  system_program |-> "system"],
     nullable |-> {}]
InitCpi ==
    <<WS("payer"), W("registry"), R("program_data"), R("fee_mint"), W("fee_vault"),
      R("token_program"), R("associated_token_program"), R("system_program")>>
InitCpiBuilder ==
    [requires |-> {"payer", "registry", "program_data", "fee_mint", "fee_vault", "token_program",
                  "associated_token_program", "system_program"},
     passes   |-> {}]

AddAdminMetas ==
    <<WS("admin"), W("registry"), R("system_program")>>
AddAdminData == [discriminator |-> 1, args |-> <<<<"new_admin", "Pubkey">>>>]
AddAdminBuilder == [defaults |-> [system_program |-> "system"], nullable |-> {}]
AddAdminCpi ==
    <<WS("admin"), W("registry"), R("system_program")>>
AddAdminCpiBuilder ==
    [requires |-> {"admin", "registry", "system_program"},
     passes   |-> {}]

RemoveAdminMetas ==
    <<WS("admin"), W("registry")>>
RemoveAdminData == [discriminator |-> 2, args |-> <<<<"target", "Pubkey">>>>]
RemoveAdminBuilder == [defaults |-> NoDefaults, nullable |-> {}]
RemoveAdminCpi ==
    <<WS("admin"), W("registry")>>
RemoveAdminCpiBuilder ==
    [requires |-> {"admin", "registry"},
     passes   |-> {}]

CreateMarketMetas ==
    <<WS("payer"), W("registry"), R("base_mint"), R("quote_mint"), R("base_token_program"),
      R("quote_token_program"), W("market"), W("base_treasury"), W("quote_treasury"),
      R("fee_mint"), R("fee_token_program"), W("payer_fee_source"), W("registry_fee_treasury"),
      R("system_program"), R("associated_token_program")>>
CreateMarketData == [discriminator |-> 3, args |-> <<>>]
CreateMarketBuilder ==
    [defaults |-> [fee_mint |-> "registry.default_fee_config.mint",
                  fee_token_program |-> "registry.default_fee_config.token_program",
                  system_program |-> "system", associated_token_program |-> "associated_token"],
     nullable |-> {}]
CreateMarketCpi ==
    <<WS("payer"), W("registry"), R("base_mint"), R("quote_mint"), R("base_token_program"),
      R("quote_token_program"), W("market"), W("base_treasury"), W("quote_treasury"),
      R("fee_mint"), R("fee_token_program"), W("payer_fee_source"), W("registry_fee_treasury"),
      R("system_program"), R("associated_token_program")>>
CreateMarketCpiBuilder ==
    [requires |-> {"payer", "registry", "base_mint", "quote_mint", "base_token_program",
                  "quote_token_program", "market", "base_treasury", "quote_treasury",
                  "fee_mint", "fee_token_program", "payer_fee_source", "registry_fee_treasury",
                  "system_program", "associated_token_program"},
     passes   |-> {}]

CreateVaultMetas ==
    <<WS("payer"), R("registry"), W("market"), R("fee_mint"), R("fee_token_program"),
      W("payer_fee_source"), W("registry_fee_treasury"), R("system_program"),
      R("event_authority"), R("program")>>
CreateVaultData ==
    [discriminator |-> 4,
     args |-> <<<<"perf_fee_rate", "u32">>, <<"quote_authority", "Pubkey">>,
                <<"allow_outside_depositors", "bool">>, <<"leader_override", "Pubkey">>>>]
CreateVaultBuilder ==
    [defaults |-> [fee_mint |-> "market.fee_config.mint",
                  fee_token_program |-> "market.fee_config.token_program",
                  system_program |-> "system"],
     nullable |-> {}]
CreateVaultCpi ==
    <<WS("payer"), R("registry"), W("market"), R("fee_mint"), R("fee_token_program"),
      W("payer_fee_source"), W("registry_fee_treasury"), R("system_program"),
      R("event_authority"), R("program")>>
CreateVaultCpiBuilder ==
    [requires |-> {"payer", "registry", "market", "fee_mint", "fee_token_program",
                  "payer_fee_source", "registry_fee_treasury", "system_program",
                  "event_authority", "program"},
     passes   |-> {}]

SetReferencePriceMetas ==
    <<RS("signer"), W("market")>>
SetReferencePriceData ==
    [discriminator |-> 5,
     args |-> <<<<"vault_idx", "u32">>, <<"price_bits", "u32">>, <<"quote_slot", "u32">>,
                <<"quote_unix", "u32">>>>]
SetReferencePriceBuilder == [defaults |-> NoDefaults, nullable |-> {}]
SetReferencePriceCpi ==
    <<RS("signer"), W("market")>>
SetReferencePriceCpiBuilder ==
    [requires |-> {"signer", "market"},
     passes   |-> {}]

SetLiquidityProfileMetas ==
    <<RS("signer"), W("market")>>
SetLiquidityProfileData ==
    [discriminator |-> 6,
     args |-> <<<<"vault_idx", "u32">>, <<"profile_bytes", "[u8; 224]">>>>]
SetLiquidityProfileBuilder == [defaults |-> NoDefaults, nullable |-> {}]
SetLiquidityProfileCpi ==
    <<RS("signer"), W("market")>>
SetLiquidityProfileCpiBuilder ==
    [requires |-> {"signer", "market"},
     passes   |-> {}]

DepositMetas ==
    <<WS("signer"), W("market"), W("vault_depositor"), R("base_mint"), R("quote_mint"),
      R("base_token_program"), R("quote_token_program"), W("signer_base_ata"),
      W("signer_quote_ata"), W("market_base_treasury"), W("market_quote_treasury"), R("clock"),
      R("system_program"), R("associated_token_program"), R("event_authority"), R("program")>>
DepositData ==
    [discriminator |-> 7,
     args |-> <<<<"vault_idx", "u32">>, <<"base_in", "u64">>, <<"quote_in", "u64">>,
                <<"max_base_in", "u64">>, <<"max_quote_in", "u64">>>>]
DepositBuilder ==
    [defaults |-> [clock |-> "clock", system_program |-> "system",
                  associated_token_program |-> "associated_token"],
     nullable |-> {}]
DepositCpi ==
    <<WS("signer"), W("market"), W("vault_depositor"), R("base_mint"), R("quote_mint"),
      R("base_token_program"), R("quote_token_program"), W("signer_base_ata"),
      W("signer_quote_ata"), W("market_base_treasury"), W("market_quote_treasury"), R("clock"),
      R("system_program"), R("associated_token_program"), R("event_authority"), R("program")>>
DepositCpiBuilder ==
    [requires |-> {"signer", "market", "vault_depositor", "base_mint", "quote_mint",
                  "base_token_program", "quote_token_program", "signer_base_ata",
                  "signer_quote_ata", "market_base_treasury", "market_quote_treasury", "clock",
                  "system_program", "associated_token_program", "event_authority", "program"},
     passes   |-> {}]

WithdrawMetas ==
    <<WS("signer"), W("market"), W("vault_depositor"), R("base_mint"), R("quote_mint"),
      R("base_token_program"), R("quote_token_program"), W("signer_base_ata"),
      W("signer_quote_ata"), W("market_base_treasury"), W("market_quote_treasury"),
      R("associated_token_program"), R("system_program"), R("event_authority"), R("program")>>
WithdrawData ==
    [discriminator |-> 8,
     args |-> <<<<"vault_idx", "u32">>, <<"shares_in", "u64">>, <<"min_base_out", "u64">>,
                <<"min_quote_out", "u64">>>>]
WithdrawBuilder ==
    [defaults |-> [associated_token_program |-> "associated_token", system_program |-> "system"],
     nullable |-> {}]
WithdrawCpi ==
    <<WS("signer"), W("market"), W("vault_depositor"), R("base_mint"), R("quote_mint"),
      R("base_token_program"), R("quote_token_program"), W("signer_base_ata"),
      W("signer_quote_ata"), W("market_base_treasury"), W("market_quote_treasury"),
      R("associated_token_program"), R("system_program"), R("event_authority"), R("program")>>
WithdrawCpiBuilder ==
    [requires |-> {"signer", "market", "vault_depositor", "base_mint", "quote_mint",
                  "base_token_program", "quote_token_program", "signer_base_ata",
                  "signer_quote_ata", "market_base_treasury", "market_quote_treasury",
                  "associated_token_program", "system_program", "event_authority", "program"},
     passes   |-> {}]

SwapMetas ==
    <<WS("taker"), W("market"), R("base_mint"), R("quote_mint"), R("base_token_program"),
      R("quote_token_program"), W("taker_base_ata"), W("taker_quote_ata"),
      W("market_base_treasury"), W("market_quote_treasury"), R("clock"),
      OR("platform_fee_authority"), OW("platform_fee_ata"), R("associated_token_program"),
      R("system_program"), R("event_authority"), R("program")>>
SwapData ==
    [discriminator |-> 9,
     args |-> <<<<"side", "u8">>, <<"amount_in", "u64">>, <<"limit_price_bits", "u32">>,
                <<"min_out", "u64">>, <<"platform_fee_bps", "u16">>>>]
SwapBuilder ==
    [defaults |-> [clock |-> "clock", associated_token_program |-> "associated_token",
                  system_program |-> "system"],
     nullable |-> {"platform_fee_authority", "platform_fee_ata"}]
SwapCpi ==
    <<WS("taker"), W("market"), R("base_mint"), R("quote_mint"), R("base_token_program"),
      R("quote_token_program"), W("taker_base_ata"), W("taker_quote_ata"),
      W("market_base_treasury"), W("market_quote_treasury"), R("clock"),
      OR("platform_fee_authority"), OW("platform_fee_ata"), R("associated_token_program"),
      R("system_program"), R("event_authority"), R("program")>>
SwapCpiBuilder ==
    [requires |-> {"taker", "market", "base_mint", "quote_mint", "base_token_program",
                  "quote_token_program", "taker_base_ata", "taker_quote_ata",
                  "market_base_treasury", "market_quote_treasury", "clock",
                  "associated_token_program", "system_program", "event_authority", "program"},
     passes   |-> {"platform_fee_authority", "platform_fee_ata"}]

DepositLeaderMetas ==
    <<WS("signer"), W("market"), R("base_mint"), R("quote_mint"), R("base_token_program"),
      R("quote_token_program"), W("signer_base_ata"), W("signer_quote_ata"),
      W("market_base_treasury"), W("market_quote_treasury"), R("system_program"),
      R("associated_token_program"), R("event_authority"), R("program")>>
DepositLeaderData ==
    [discriminator |-> 10,
     args |-> <<<<"vault_idx", "u32">>, <<"base_in", "u64">>, <<"quote_in", "u64">>,
                <<"max_base_in", "u64">>, <<"max_quote_in", "u64">>>>]
DepositLeaderBuilder ==
    [defaults |-> [system_program |-> "system", associated_token_program |-> "associated_token"],
     nullable |-> {}]
DepositLeaderCpi ==
    <<WS("signer"), W("market"), R("base_mint"), R("quote_mint"), R("base_token_program"),
      R("quote_token_program"), W("signer_base_ata"), W("signer_quote_ata"),
      W("market_base_treasury"), W("market_quote_treasury"), R("system_program"),
      R("associated_token_program"), R("event_authority"), R("program")>>
DepositLeaderCpiBuilder ==
    [requires |-> {"signer", "market", "base_mint", "quote_mint", "base_token_program",
                  "quote_token_program", "signer_base_ata", "signer_quote_ata",
                  "market_base_treasury", "market_quote_treasury", "system_program",
                  "associated_token_program", "event_authority", "program"},
     passes   |-> {}]

WithdrawLeaderMetas ==
    <<WS("signer"), W("market"), R("base_mint"), R("quote_mint"), R("base_token_program"),
      R("quote_token_program"), W("signer_base_ata"), W("signer_quote_ata"),
      W("market_base_treasury"), W("market_quote_treasury"), R("associated_token_program"),
      R("system_program"), R("event_authority"), R("program")>>
WithdrawLeaderData ==
    [discriminator |-> 11,
     args |-> <<<<"vault_idx", "u32">>, <<"shares_in", "u64">>, <<"min_base_out", "u64">>,
                <<"min_quote_out", "u64">>>>]
WithdrawLeaderBuilder ==
    [defaults |-> [associated_token_program |-> "associated_token", system_program |-> "system"],
     nullable |-> {}]
WithdrawLeaderCpi ==
    <<WS("signer"), W("market"), R("base_mint"), R("quote_mint"), R("base_token_program"),
      R("quote_token_program"), W("signer_base_ata"), W("signer_quote_ata"),
      W("market_base_treasury"), W("market_quote_treasury"), R("associated_token_program"),
      R("system_program"), R("event_authority"), R("program")>>
WithdrawLeaderCpiBuilder ==
    [requires |-> {"signer", "market", "base_mint", "quote_mint", "base_token_program",
                  "quote_token_program", "signer_base_ata", "signer_quote_ata",
                  "market_base_treasury", "market_quote_treasury", "associated_token_program",
                  "system_program", "event_authority", "program"},
     passes   |-> {}]

SetAllowOutsideDepositorsMetas ==
    <<RS("signer"), W("market")>>
SetAllowOutsideDepositorsData ==
    [discriminator |-> 12,
     args |-> <<<<"vault_idx", "u32">>, <<"flag", "bool">>>>]
SetAllowOutsideDepositorsBuilder == [defaults |-> NoDefaults, nullable |-> {}]
SetAllowOutsideDepositorsCpi ==
    <<RS("signer"), W("market")>>
SetAllowOutsideDepositorsCpiBuilder ==
    [requires |-> {"signer", "market"},
     passes   |-> {}]

SetOutsideDepositsApprovedMetas ==
    <<RS("admin"), R("registry"), W("market")>>
SetOutsideDepositsApprovedData ==
    [discriminator |-> 13,
     args |-> <<<<"vault_idx", "u32">>, <<"flag", "bool">>>>]
SetOutsideDepositsApprovedBuilder == [defaults |-> NoDefaults, nullable |-> {}]
SetOutsideDepositsApprovedCpi ==
    <<RS("admin"), R("registry"), W("market")>>
SetOutsideDepositsApprovedCpiBuilder ==
    [requires |-> {"admin", "registry", "market"},
     passes   |-> {}]

CloseVaultMetas ==
    <<RS("signer"), W("market"), R("event_authority"), R("program")>>
CloseVaultData == [discriminator |-> 14, args |-> <<<<"vault_idx", "u32">>>>]
CloseVaultBuilder == [defaults |-> NoDefaults, nullable |-> {}]
CloseVaultCpi ==
    <<RS("signer"), W("market"), R("event_authority"), R("program")>>
CloseVaultCpiBuilder ==
    [requires |-> {"signer", "market", "event_authority", "program"},
     passes   |-> {}]

FreezeVaultMetas ==
    <<RS("admin"), R("registry"), W("market"), R("event_authority"), R("program")>>
FreezeVaultData == [discriminator |-> 15, args |-> <<<<"vault_idx", "u32">>>>]
FreezeVaultBuilder == [defaults |-> NoDefaults, nullable |-> {}]
FreezeVaultCpi ==
    <<RS("admin"), R("registry"), W("market"), R("event_authority"), R("program")>>
FreezeVaultCpiBuilder ==
    [requires |-> {"admin", "registry", "market", "event_authority", "program"},
     passes   |-> {}]

ForceWithdrawDepositorMetas ==
    <<WS("admin"), R("registry"), W("market"), W("owner"), W("vault_depositor"), R("base_mint"),
      R("quote_mint"), R("base_token_program"), R("quote_token_program"), W("owner_base_ata"),
      W("owner_quote_ata"), W("market_base_treasury"), W("market_quote_treasury"),
      R("associated_token_program"), R("system_program"), R("event_authority"), R("program")>>
ForceWithdrawDepositorData == [discriminator |-> 16, args |-> <<<<"vault_idx", "u32">>>>]
ForceWithdrawDepositorBuilder ==
    [defaults |-> [associated_token_program |-> "associated_token", system_program |-> "system"],
     nullable |-> {}]
ForceWithdrawDepositorCpi ==
    <<WS("admin"), R("registry"), W("market"), W("owner"), W("vault_depositor"), R("base_mint"),
      R("quote_mint"), R("base_token_program"), R("quote_token_program"), W("owner_base_ata"),
      W("owner_quote_ata"), W("market_base_treasury"), W("market_quote_treasury"),
      R("associated_token_program"), R("system_program"), R("event_authority"), R("program")>>
ForceWithdrawDepositorCpiBuilder ==
    [requires |-> {"admin", "registry", "market", "owner", "vault_depositor", "base_mint",
                  "quote_mint", "base_token_program", "quote_token_program", "owner_base_ata",
                  "owner_quote_ata", "market_base_treasury", "market_quote_treasury",
                  "associated_token_program", "system_program", "event_authority", "program"},
     passes   |-> {}]

ForceWithdrawLeaderMetas ==
    <<WS("admin"), R("registry"), W("market"), R("leader"), R("base_mint"), R("quote_mint"),
      R("base_token_program"), R("quote_token_program"), W("leader_base_ata"),
      W("leader_quote_ata"), W("market_base_treasury"), W("market_quote_treasury"),
      R("associated_token_program"), R("system_program"), R("event_authority"), R("program")>>
ForceWithdrawLeaderData == [discriminator |-> 17, args |-> <<<<"vault_idx", "u32">>>>]
ForceWithdrawLeaderBuilder ==
    [defaults |-> [associated_token_program |-> "associated_token", system_program |-> "system"],
     nullable |-> {}]
ForceWithdrawLeaderCpi ==
    <<WS("admin"), R("registry"), W("market"), R("leader"), R("base_mint"), R("quote_mint"),
      R("base_token_program"), R("quote_token_program"), W("leader_base_ata"),
      W("leader_quote_ata"), W("market_base_treasury"), W("market_quote_treasury"),
      R("associated_token_program"), R("system_program"), R("event_authority"), R("program")>>
ForceWithdrawLeaderCpiBuilder ==
    [requires |-> {"admin", "registry", "market", "leader", "base_mint", "quote_mint",
                  "base_token_program", "quote_token_program", "leader_base_ata",
                  "leader_quote_ata", "market_base_treasury", "market_quote_treasury",
                  "associated_token_program", "system_program", "event_authority", "program"},
     passes   |-> {}]

CloseMarketTreasuryMetas ==
    <<RS("admin"), R("registry"), W("market"), R("mint"), R("token_program"), W("treasury"),
      W("token_recipient"), W("rent_recipient"), R("event_authority"), R("program")>>
CloseMarketTreasuryData == [discriminator |-> 18, args |-> <<>>]
CloseMarketTreasuryBuilder == [defaults |-> [token_program |-> "token"], nullable |-> {}]
CloseMarketTreasuryCpi ==
    <<RS("admin"), R("registry"), W("market"), R("mint"), R("token_program"), W("treasury"),
      W("token_recipient"), W("rent_recipient"), R("event_authority"), R("program")>>
CloseMarketTreasuryCpiBuilder ==
    [requires |-> {"admin", "registry", "market", "mint", "token_program", "treasury",
                  "token_recipient", "rent_recipient", "event_authority", "program"},
     passes   |-> {}]

CloseMarketMetas ==
    <<RS("admin"), W("registry"), W("market"), R("base_treasury"), R("quote_treasury"),
      W("rent_recipient")>>
CloseMarketData == [discriminator |-> 19, args |-> <<>>]
CloseMarketBuilder == [defaults |-> NoDefaults, nullable |-> {}]
CloseMarketCpi ==
    <<RS("admin"), W("registry"), W("market"), R("base_treasury"), R("quote_treasury"),
      W("rent_recipient")>>
CloseMarketCpiBuilder ==
    [requires |-> {"admin", "registry", "market", "base_treasury", "quote_treasury",
                  "rent_recipient"},
     passes   |-> {}]

CloseRegistryFeeVaultMetas ==
    <<RS("admin"), R("registry"), R("fee_mint"), R("token_program"), W("fee_vault"),
      W("token_recipient"), W("rent_recipient"), R("event_authority"), R("program")>>
CloseRegistryFeeVaultData == [discriminator |-> 20, args |-> <<>>]
CloseRegistryFeeVaultBuilder == [defaults |-> [token_program |-> "token"], nullable |-> {}]
CloseRegistryFeeVaultCpi ==
    <<RS("admin"), R("registry"), R("fee_mint"), R("token_program"), W("fee_vault"),
      W("token_recipient"), W("rent_recipient"), R("event_authority"), R("program")>>
CloseRegistryFeeVaultCpiBuilder ==
    [requires |-> {"admin", "registry", "fee_mint", "token_program", "fee_vault",
                  "token_recipient", "rent_recipient", "event_authority", "program"},
     passes   |-> {}]

CloseRegistryMetas ==
    <<RS("admin"), W("registry"), W("rent_recipient")>>
CloseRegistryData == [discriminator |-> 21, args |-> <<>>]
CloseRegistryBuilder == [defaults |-> NoDefaults, nullable |-> {}]
CloseRegistryCpi ==
    <<RS("admin"), W("registry"), W("rent_recipient")>>
CloseRegistryCpiBuilder ==
    [requires |-> {"admin", "registry", "rent_recipient"},
     passes   |-> {}]

SetMinLeaderShareMetas ==
    <<RS("admin"), R("registry"), W("market"), R("event_authority"), R("program")>>
SetMinLeaderShareData ==
    [discriminator |-> 22,
     args |-> <<<<"vault_idx", "u32">>, <<"min_leader_share", "u32">>>>]
SetMinLeaderShareBuilder == [defaults |-> NoDefaults, nullable |-> {}]
SetMinLeaderShareCpi ==
    <<RS("admin"), R("registry"), W("market"), R("event_authority"), R("program")>>
SetMinLeaderShareCpiBuilder ==
    [requires |-> {"admin", "registry", "market", "event_authority", "program"},
     passes   |-> {}]

SetMarketFeeConfigMetas ==
    <<WS("admin"), R("registry"), W("market"), R("fee_mint"), R("fee_token_program"),
      W("registry_fee_treasury"), R("associated_token_program"), R("system_program"),
      R("event_authority"), R("program")>>
SetMarketFeeConfigData == [discriminator |-> 23, args |-> <<<<"atoms", "u64">>>>]
SetMarketFeeConfigBuilder ==
    [defaults |-> [associated_token_program |-> "associated_token", system_program |-> "system"],
     nullable |-> {}]
SetMarketFeeConfigCpi ==
    <<WS("admin"), R("registry"), W("market"), R("fee_mint"), R("fee_token_program"),
      W("registry_fee_treasury"), R("associated_token_program"), R("system_program"),
      R("event_authority"), R("program")>>
SetMarketFeeConfigCpiBuilder ==
    [requires |-> {"admin", "registry", "market", "fee_mint", "fee_token_program",
                  "registry_fee_treasury", "associated_token_program", "system_program",
                  "event_authority", "program"},
     passes   |-> {}]

SetTakerFeeMetas ==
    <<RS("admin"), R("registry"), W("market"), R("event_authority"), R("program")>>
SetTakerFeeData == [discriminator |-> 24, args |-> <<<<"taker_fee", "u16">>>>]
SetTakerFeeBuilder == [defaults |-> NoDefaults, nullable |-> {}]
SetTakerFeeCpi ==
    <<RS("admin"), R("registry"), W("market"), R("event_authority"), R("program")>>
SetTakerFeeCpiBuilder ==
    [requires |-> {"admin", "registry", "market", "event_authority", "program"},
     passes   |-> {}]

SetRegistryDefaultsMetas ==
    <<RS("admin"), W("registry"), R("event_authority"), R("program")>>
SetRegistryDefaultsData ==
    [discriminator |-> 25,
     args |-> <<<<"taker_fee", "Option<u16>">>, <<"max_platform_fee", "Option<u16>">>,
                <<"min_leader_share", "Option<u32>">>>>]
SetRegistryDefaultsBuilder ==
    [defaults |-> NoDefaults,
     nullable |-> {"taker_fee", "max_platform_fee", "min_leader_share"}]
SetRegistryDefaultsCpi ==
    <<RS("admin"), W("registry"), R("event_authority"), R("program")>>
SetRegistryDefaultsCpiBuilder ==
    [requires |-> {"admin", "registry", "event_authority", "program"},
     passes   |-> {}]

SetDefaultFeeConfigMetas ==
    <<WS("admin"), W("registry"), R("fee_mint"), R("fee_token_program"),
      W("registry_fee_treasury"), R("associated_token_program"), R("system_program"),
      R("event_authority"), R("program")>>
SetDefaultFeeConfigData == [discriminator |-> 26, args |-> <<<<"atoms", "u64">>>>]
SetDefaultFeeConfigBuilder ==
    [defaults |-> [associated_token_program |-> "associated_token", system_program |-> "system"],
     nullable |-> {}]
SetDefaultFeeConfigCpi ==
    <<WS("admin"), W("registry"), R("fee_mint"), R("fee_token_program"),
      W("registry_fee_treasury"), R("associated_token_program"), R("system_program"),
      R("event_authority"), R("program")>>
SetDefaultFeeConfigCpiBuilder ==
    [requires |-> {"admin", "registry", "fee_mint", "fee_token_program", "registry_fee_treasury",
                  "associated_token_program", "system_program", "event_authority", "program"},
     passes   |-> {}]

SetQuoteAuthorityMetas ==
    <<RS("signer"), W("market")>>
SetQuoteAuthorityData ==
    [discriminator |-> 27,
     args |-> <<<<"vault_idx", "u32">>, <<"new_authority", "Pubkey">>>>]
SetQuoteAuthorityBuilder == [defaults |-> NoDefaults, nullable |-> {}]
SetQuoteAuthorityCpi ==
    <<RS("signer"), W("market")>>
SetQuoteAuthorityCpiBuilder ==
    [requires |-> {"signer", "market"},
     passes   |-> {}]

SweepResidualMetas ==
    <<RS("admin"), R("registry"), R("market"), R("mint"), R("token_program"), W("treasury"),
      W("token_recipient"), R("event_authority"), R("program")>>
SweepResidualData == [discriminator |-> 28, args |-> <<>>]
SweepResidualBuilder == [defaults |-> [token_program |-> "token"], nullable |-> {}]
SweepResidualCpi ==
    <<RS("admin"), R("registry"), R("market"), R("mint"), R("token_program"), W("treasury"),
      W("token_recipient"), R("event_authority"), R("program")>>
SweepResidualCpiBuilder ==
    [requires |-> {"admin", "registry", "market", "mint", "token_program", "treasury",
                  "token_recipient", "event_authority", "program"},
     passes   |-> {}]

SetMaxPlatformFeeMetas ==
    <<RS("admin"), R("registry"), W("market"), R("event_authority"), R("program")>>
SetMaxPlatformFeeData == [discriminator |-> 29, args |-> <<<<"max_platform_fee", "u16">>>>]
SetMaxPlatformFeeBuilder == [defaults |-> NoDefaults, nullable |-> {}]
SetMaxPlatformFeeCpi ==
    <<RS("admin"), R("registry"), W("market"), R("event_authority"), R("program")>>
SetMaxPlatformFeeCpiBuilder ==
    [requires |-> {"admin", "registry", "market", "event_authority", "program"},
     passes   |-> {}]
------------------------------------------------------------------------------
Client ==
    [init |-> [metas |-> InitMetas, data |-> InitData, builder |-> InitBuilder,
          cpi |-> InitCpi, cpi_builder |-> InitCpiBuilder],
     add_admin |-> [metas |-> AddAdminMetas, data |-> AddAdminData, builder |-> AddAdminBuilder,
          cpi |-> AddAdminCpi, cpi_builder |-> AddAdminCpiBuilder],
     remove_admin |-> [metas |-> RemoveAdminMetas, data |-> RemoveAdminData, builder |-> RemoveAdminBuilder,
          cpi |-> RemoveAdminCpi, cpi_builder |-> RemoveAdminCpiBuilder],
     create_market |-> [metas |-> CreateMarketMetas, data |-> CreateMarketData, builder |-> CreateMarketBuilder,
          cpi |-> CreateMarketCpi, cpi_builder |-> CreateMarketCpiBuilder],
     create_vault |-> [metas |-> CreateVaultMetas, data |-> CreateVaultData, builder |-> CreateVaultBuilder,
          cpi |-> CreateVaultCpi, cpi_builder |-> CreateVaultCpiBuilder],
     set_reference_price |-> [metas |-> SetReferencePriceMetas, data |-> SetReferencePriceData, builder |-> SetReferencePriceBuilder,
          cpi |-> SetReferencePriceCpi, cpi_builder |-> SetReferencePriceCpiBuilder],
     set_liquidity_profile |-> [metas |-> SetLiquidityProfileMetas, data |-> SetLiquidityProfileData, builder |-> SetLiquidityProfileBuilder,
          cpi |-> SetLiquidityProfileCpi, cpi_builder |-> SetLiquidityProfileCpiBuilder],
     deposit |-> [metas |-> DepositMetas, data |-> DepositData, builder |-> DepositBuilder,
          cpi |-> DepositCpi, cpi_builder |-> DepositCpiBuilder],
     withdraw |-> [metas |-> WithdrawMetas, data |-> WithdrawData, builder |-> WithdrawBuilder,
          cpi |-> WithdrawCpi, cpi_builder |-> WithdrawCpiBuilder],
     swap |-> [metas |-> SwapMetas, data |-> SwapData, builder |-> SwapBuilder,
          cpi |-> SwapCpi, cpi_builder |-> SwapCpiBuilder],
     deposit_leader |-> [metas |-> DepositLeaderMetas, data |-> DepositLeaderData, builder |-> DepositLeaderBuilder,
          cpi |-> DepositLeaderCpi, cpi_builder |-> DepositLeaderCpiBuilder],
     withdraw_leader |-> [metas |-> WithdrawLeaderMetas, data |-> WithdrawLeaderData, builder |-> WithdrawLeaderBuilder,
          cpi |-> WithdrawLeaderCpi, cpi_builder |-> WithdrawLeaderCpiBuilder],
     set_allow_outside_depositors |-> [metas |-> SetAllowOutsideDepositorsMetas, data |-> SetAllowOutsideDepositorsData, builder |-> SetAllowOutsideDepositorsBuilder,
          cpi |-> SetAllowOutsideDepositorsCpi, cpi_builder |-> SetAllowOutsideDepositorsCpiBuilder],
     set_outside_deposits_approved |-> [metas |-> SetOutsideDepositsApprovedMetas, data |-> SetOutsideDepositsApprovedData, builder |-> SetOutsideDepositsApprovedBuilder,
          cpi |-> SetOutsideDepositsApprovedCpi, cpi_builder |-> SetOutsideDepositsApprovedCpiBuilder],
     close_vault |-> [metas |-> CloseVaultMetas, data |-> CloseVaultData, builder |-> CloseVaultBuilder,
          cpi |-> CloseVaultCpi, cpi_builder |-> CloseVaultCpiBuilder],
     freeze_vault |-> [metas |-> FreezeVaultMetas, data |-> FreezeVaultData, builder |-> FreezeVaultBuilder,
          cpi |-> FreezeVaultCpi, cpi_builder |-> FreezeVaultCpiBuilder],
     force_withdraw_depositor |-> [metas |-> ForceWithdrawDepositorMetas, data |-> ForceWithdrawDepositorData, builder |-> ForceWithdrawDepositorBuilder,
          cpi |-> ForceWithdrawDepositorCpi, cpi_builder |-> ForceWithdrawDepositorCpiBuilder],
     force_withdraw_leader |-> [metas |-> ForceWithdrawLeaderMetas, data |-> ForceWithdrawLeaderData, builder |-> ForceWithdrawLeaderBuilder,
          cpi |-> ForceWithdrawLeaderCpi, cpi_builder |-> ForceWithdrawLeaderCpiBuilder],
     close_market_treasury |-> [metas |-> CloseMarketTreasuryMetas, data |-> CloseMarketTreasuryData, builder |-> CloseMarketTreasuryBuilder,
          cpi |-> CloseMarketTreasuryCpi, cpi_builder |-> CloseMarketTreasuryCpiBuilder],
     close_market |-> [metas |-> CloseMarketMetas, data |-> CloseMarketData, builder |-> CloseMarketBuilder,
          cpi |-> CloseMarketCpi, cpi_builder |-> CloseMarketCpiBuilder],
     close_registry_fee_vault |-> [metas |-> CloseRegistryFeeVaultMetas, data |-> CloseRegistryFeeVaultData, builder |-> CloseRegistryFeeVaultBuilder,
          cpi |-> CloseRegistryFeeVaultCpi, cpi_builder |-> CloseRegistryFeeVaultCpiBuilder],
     close_registry |-> [metas |-> CloseRegistryMetas, data |-> CloseRegistryData, builder |-> CloseRegistryBuilder,
          cpi |-> CloseRegistryCpi, cpi_builder |-> CloseRegistryCpiBuilder],
     set_min_leader_share |-> [metas |-> SetMinLeaderShareMetas, data |-> SetMinLeaderShareData, builder |-> SetMinLeaderShareBuilder,
          cpi |-> SetMinLeaderShareCpi, cpi_builder |-> SetMinLeaderShareCpiBuilder],
     set_market_fee_config |-> [metas |-> SetMarketFeeConfigMetas, data |-> SetMarketFeeConfigData, builder |-> SetMarketFeeConfigBuilder,
          cpi |-> SetMarketFeeConfigCpi, cpi_builder |-> SetMarketFeeConfigCpiBuilder],
     set_taker_fee |-> [metas |-> SetTakerFeeMetas, data |-> SetTakerFeeData, builder |-> SetTakerFeeBuilder,
          cpi |-> SetTakerFeeCpi, cpi_builder |-> SetTakerFeeCpiBuilder],
     set_registry_defaults |-> [metas |-> SetRegistryDefaultsMetas, data |-> SetRegistryDefaultsData, builder |-> SetRegistryDefaultsBuilder,
          cpi |-> SetRegistryDefaultsCpi, cpi_builder |-> SetRegistryDefaultsCpiBuilder],
     set_default_fee_config |-> [metas |-> SetDefaultFeeConfigMetas, data |-> SetDefaultFeeConfigData, builder |-> SetDefaultFeeConfigBuilder,
          cpi |-> SetDefaultFeeConfigCpi, cpi_builder |-> SetDefaultFeeConfigCpiBuilder],
     set_quote_authority |-> [metas |-> SetQuoteAuthorityMetas, data |-> SetQuoteAuthorityData, builder |-> SetQuoteAuthorityBuilder,
          cpi |-> SetQuoteAuthorityCpi, cpi_builder |-> SetQuoteAuthorityCpiBuilder],
     sweep_residual |-> [metas |-> SweepResidualMetas, data |-> SweepResidualData, builder |-> SweepResidualBuilder,
          cpi |-> SweepResidualCpi, cpi_builder |-> SweepResidualCpiBuilder],
     set_max_platform_fee |-> [metas |-> SetMaxPlatformFeeMetas, data |-> SetMaxPlatformFeeData, builder |-> SetMaxPlatformFeeBuilder,
          cpi |-> SetMaxPlatformFeeCpi, cpi_builder |-> SetMaxPlatformFeeCpiBuilder]]
=============================================================================
