--------------------------- MODULE WebInstructions ---------------------------
(***************************************************************************)
(* The instruction builders of the generated web client (sdk/ts            *)
(* generated/instructions): the accounts with their privileges, the        *)
(* defaults of the synchronous builder and those of the asynchronous one,  *)
(* which derives addresses, the codec of the data, and the parser that     *)
(* reads an instruction back. The notation is that of ClientInstructions;  *)
(* an account signs when its input is a TransactionSigner.                 *)
(***************************************************************************)
EXTENDS ProgramInstructions

Literal(address) == [prefix |-> "literal", seeds |-> <<address>>]
Pda(prefix, seeds) == [prefix |-> prefix, seeds |-> seeds]
RegistryPda == Pda("registry", <<>>)
EventAuthorityPda == Pda("event_authority", <<>>)
MarketPda(baseMint, quoteMint) == Pda("market", <<baseMint, quoteMint>>)
SignerBeforeSector(market, vaultIdx, signer) ==
    Pda("vault_depositor", <<market, signer, vaultIdx>>)
VaultDepositorPda(market, vaultIdx, signer) ==
    Pda("vault_depositor", <<market, vaultIdx, signer>>)
ForcedVaultDepositorPda(market, vaultIdx, owner) ==
    Pda("vault_depositor", <<market, vaultIdx, owner>>)

------------------------------------------------------------------------------
InitWebData ==
    [discriminator |-> 0,
     encoded |-> <<<<"genesis_admin", "Pubkey">>, <<"fee_atoms", "u64">>>>,
     decoded |-> <<<<"genesis_admin", "Pubkey">>, <<"fee_atoms", "u64">>>>]
InitWebAsync ==
    [metas    |-> <<WS("payer"), W("registry"), R("program_data"), R("fee_mint"),
                    W("fee_vault"), R("token_program"), R("associated_token_program"),
                    R("system_program")>>,
     resolved |-> [registry |-> RegistryPda, token_program |-> Literal("token"),
                  associated_token_program |-> Literal("associated_token"),
                  system_program |-> Literal("system")]]
InitWebSync ==
    [metas    |-> <<WS("payer"), W("registry"), R("program_data"), R("fee_mint"),
                    W("fee_vault"), R("token_program"), R("associated_token_program"),
                    R("system_program")>>,
     resolved |-> [token_program |-> Literal("token"),
                  associated_token_program |-> Literal("associated_token"),
                  system_program |-> Literal("system")]]
InitWebParsed ==
    <<"payer", "registry", "program_data", "fee_mint", "fee_vault", "token_program",
      "associated_token_program", "system_program">>

AddAdminWebData ==
    [discriminator |-> 1,
     encoded |-> <<<<"new_admin", "Pubkey">>>>,
     decoded |-> <<<<"new_admin", "Pubkey">>>>]
AddAdminWebAsync ==
    [metas    |-> <<WS("admin"), W("registry"), R("system_program")>>,
     resolved |-> [registry |-> RegistryPda, system_program |-> Literal("system")]]
AddAdminWebSync ==
    [metas    |-> <<WS("admin"), W("registry"), R("system_program")>>,
     resolved |-> [system_program |-> Literal("system")]]
AddAdminWebParsed ==
    <<"admin", "registry", "system_program">>

RemoveAdminWebData ==
    [discriminator |-> 2,
     encoded |-> <<<<"target", "Pubkey">>>>,
     decoded |-> <<<<"target", "Pubkey">>>>]
RemoveAdminWebAsync ==
    [metas    |-> <<WS("admin"), W("registry")>>,
     resolved |-> [registry |-> RegistryPda]]
RemoveAdminWebSync ==
    [metas    |-> <<WS("admin"), W("registry")>>,
     resolved |-> NoDefaults]
RemoveAdminWebParsed ==
    <<"admin", "registry">>

CreateMarketWebData ==
    [discriminator |-> 3,
     encoded |-> <<>>,
     decoded |-> <<>>]
CreateMarketWebAsync ==
    [metas    |-> <<WS("payer"), W("registry"), R("base_mint"), R("quote_mint"),
                    R("base_token_program"), R("quote_token_program"), W("market"),
                    W("base_treasury"), W("quote_treasury"), R("fee_mint"),
                    R("fee_token_program"), W("payer_fee_source"), W("registry_fee_treasury"),
                    R("system_program"), R("associated_token_program")>>,
     resolved |-> [registry |-> RegistryPda, market |-> MarketPda("base_mint", "quote_mint"),
                  fee_mint |-> Literal("registry.default_fee_config.mint"),
                  fee_token_program |-> Literal("registry.default_fee_config.token_program"),
                  system_program |-> Literal("system"),
                  associated_token_program |-> Literal("associated_token")]]
CreateMarketWebSync ==
    [metas    |-> <<WS("payer"), W("registry"), R("base_mint"), R("quote_mint"),
                    R("base_token_program"), R("quote_token_program"), W("market"),
                    W("base_treasury"), W("quote_treasury"), R("fee_mint"),
                    R("fee_token_program"), W("payer_fee_source"), W("registry_fee_treasury"),
                    R("system_program"), R("associated_token_program")>>,
     resolved |-> [fee_mint |-> Literal("registry.default_fee_config.mint"),
                  fee_token_program |-> Literal("registry.default_fee_config.token_program"),
                  system_program |-> Literal("system"),
                  associated_token_program |-> Literal("associated_token")]]
CreateMarketWebParsed ==
    <<"payer", "registry", "base_mint", "quote_mint", "base_token_program",
      "quote_token_program", "market", "base_treasury", "quote_treasury", "fee_mint",
      "fee_token_program", "payer_fee_source", "registry_fee_treasury", "system_program",
      "associated_token_program">>

CreateVaultWebData ==
    [discriminator |-> 4,
     encoded |-> <<<<"perf_fee_rate", "u32">>, <<"quote_authority", "Pubkey">>,
                   <<"allow_outside_depositors", "bool">>, <<"leader_override", "Pubkey">>>>,
     decoded |-> <<<<"perf_fee_rate", "u32">>, <<"quote_authority", "Pubkey">>,
                   <<"allow_outside_depositors", "bool">>, <<"leader_override", "Pubkey">>>>]
CreateVaultWebAsync ==
    [metas    |-> <<WS("payer"), R("registry"), W("market"), R("fee_mint"),
                    R("fee_token_program"), W("payer_fee_source"), W("registry_fee_treasury"),
                    R("system_program"), R("event_authority"), R("program")>>,
     resolved |-> [registry |-> RegistryPda, fee_mint |-> Literal("market.fee_config.mint"),
                  fee_token_program |-> Literal("market.fee_config.token_program"),
                  system_program |-> Literal("system"), event_authority |-> EventAuthorityPda]]
CreateVaultWebSync ==
    [metas    |-> <<WS("payer"), R("registry"), W("market"), R("fee_mint"),
                    R("fee_token_program"), W("payer_fee_source"), W("registry_fee_treasury"),
                    R("system_program"), R("event_authority"), R("program")>>,
     resolved |-> [fee_mint |-> Literal("market.fee_config.mint"),
                  fee_token_program |-> Literal("market.fee_config.token_program"),
                  system_program |-> Literal("system")]]
CreateVaultWebParsed ==
    <<"payer", "registry", "market", "fee_mint", "fee_token_program", "payer_fee_source",
      "registry_fee_treasury", "system_program", "event_authority", "program">>

SetReferencePriceWebData ==
    [discriminator |-> 5,
     encoded |-> <<<<"vault_idx", "u32">>, <<"price_bits", "u32">>, <<"quote_slot", "u32">>,
                   <<"quote_unix", "u32">>>>,
     decoded |-> <<<<"vault_idx", "u32">>, <<"price_bits", "u32">>, <<"quote_slot", "u32">>,
                   <<"quote_unix", "u32">>>>]
SetReferencePriceWebSync ==
    [metas    |-> <<RS("signer"), W("market")>>,
     resolved |-> NoDefaults]
SetReferencePriceWebParsed ==
    <<"signer", "market">>

SetLiquidityProfileWebData ==
    [discriminator |-> 6,
     encoded |-> <<<<"vault_idx", "u32">>, <<"profile_bytes", "[u8; 224]">>>>,
     decoded |-> <<<<"vault_idx", "u32">>, <<"profile_bytes", "[u8; 224]">>>>]
SetLiquidityProfileWebSync ==
    [metas    |-> <<RS("signer"), W("market")>>,
     resolved |-> NoDefaults]
SetLiquidityProfileWebParsed ==
    <<"signer", "market">>

DepositWebData ==
    [discriminator |-> 7,
     encoded |-> <<<<"vault_idx", "u32">>, <<"base_in", "u64">>, <<"quote_in", "u64">>,
                   <<"max_base_in", "u64">>, <<"max_quote_in", "u64">>>>,
     decoded |-> <<<<"vault_idx", "u32">>, <<"base_in", "u64">>, <<"quote_in", "u64">>,
                   <<"max_base_in", "u64">>, <<"max_quote_in", "u64">>>>]
DepositWebAsync ==
    [metas    |-> <<WS("signer"), W("market"), W("vault_depositor"), R("base_mint"),
                    R("quote_mint"), R("base_token_program"), R("quote_token_program"),
                    W("signer_base_ata"), W("signer_quote_ata"), W("market_base_treasury"),
                    W("market_quote_treasury"), R("clock"), R("system_program"),
                    R("associated_token_program"), R("event_authority"), R("program")>>,
     resolved |-> [vault_depositor |-> VaultDepositorPda("market", "vault_idx", "signer"),
                  clock |-> Literal("clock"), system_program |-> Literal("system"),
                  associated_token_program |-> Literal("associated_token"),
                  event_authority |-> EventAuthorityPda]]
DepositWebSync ==
    [metas    |-> <<WS("signer"), W("market"), W("vault_depositor"), R("base_mint"),
                    R("quote_mint"), R("base_token_program"), R("quote_token_program"),
                    W("signer_base_ata"), W("signer_quote_ata"), W("market_base_treasury"),
                    W("market_quote_treasury"), R("clock"), R("system_program"),
                    R("associated_token_program"), R("event_authority"), R("program")>>,
     resolved |-> [clock |-> Literal("clock"), system_program |-> Literal("system"),
                  associated_token_program |-> Literal("associated_token")]]
DepositWebParsed ==
    <<"signer", "market", "vault_depositor", "base_mint", "quote_mint", "base_token_program",
      "quote_token_program", "signer_base_ata", "signer_quote_ata", "market_base_treasury",
      "market_quote_treasury", "clock", "system_program", "associated_token_program",
      "event_authority", "program">>

WithdrawWebData ==
    [discriminator |-> 8,
     encoded |-> <<<<"vault_idx", "u32">>, <<"shares_in", "u64">>, <<"min_base_out", "u64">>,
                   <<"min_quote_out", "u64">>>>,
     decoded |-> <<<<"vault_idx", "u32">>, <<"shares_in", "u64">>, <<"min_base_out", "u64">>,
                   <<"min_quote_out", "u64">>>>]
WithdrawWebAsync ==
    [metas    |-> <<WS("signer"), W("market"), W("vault_depositor"), R("base_mint"),
                    R("quote_mint"), R("base_token_program"), R("quote_token_program"),
                    W("signer_base_ata"), W("signer_quote_ata"), W("market_base_treasury"),
                    W("market_quote_treasury"), R("associated_token_program"),
                    R("system_program"), R("event_authority"), R("program")>>,
     resolved |-> [vault_depositor |-> VaultDepositorPda("market", "vault_idx", "signer"),
                  associated_token_program |-> Literal("associated_token"),
                  system_program |-> Literal("system"), event_authority |-> EventAuthorityPda]]
WithdrawWebSync ==
    [metas    |-> <<WS("signer"), W("market"), W("vault_depositor"), R("base_mint"),
                    R("quote_mint"), R("base_token_program"), R("quote_token_program"),
                    W("signer_base_ata"), W("signer_quote_ata"), W("market_base_treasury"),
                    W("market_quote_treasury"), R("associated_token_program"),
                    R("system_program"), R("event_authority"), R("program")>>,
     resolved |-> [associated_token_program |-> Literal("associated_token"),
                  system_program |-> Literal("system")]]
WithdrawWebParsed ==
    <<"signer", "market", "vault_depositor", "base_mint", "quote_mint", "base_token_program",
      "quote_token_program", "signer_base_ata", "signer_quote_ata", "market_base_treasury",
      "market_quote_treasury", "associated_token_program", "system_program", "event_authority",
      "program">>

SwapWebData ==
    [discriminator |-> 9,
     encoded |-> <<<<"side", "u8">>, <<"amount_in", "u64">>, <<"limit_price_bits", "u32">>,
                   <<"min_out", "u64">>, <<"platform_fee_bps", "u16">>>>,
     decoded |-> <<<<"side", "u8">>, <<"amount_in", "u64">>, <<"limit_price_bits", "u32">>,
                   <<"min_out", "u64">>, <<"platform_fee_bps", "u16">>>>]
SwapWebAsync ==
    [metas    |-> <<WS("taker"), W("market"), R("base_mint"), R("quote_mint"),
                    R("base_token_program"), R("quote_token_program"), W("taker_base_ata"),
                    W("taker_quote_ata"), W("market_base_treasury"), W("market_quote_treasury"),
                    R("clock"), OR("platform_fee_authority"), OW("platform_fee_ata"),
                    R("associated_token_program"), R("system_program"), R("event_authority"),
                    R("program")>>,
     resolved |-> [clock |-> Literal("clock"),
                  associated_token_program |-> Literal("associated_token"),
                  system_program |-> Literal("system"), event_authority |-> EventAuthorityPda]]
SwapWebSync ==
    [metas    |-> <<WS("taker"), W("market"), R("base_mint"), R("quote_mint"),
                    R("base_token_program"), R("quote_token_program"), W("taker_base_ata"),
                    W("taker_quote_ata"), W("market_base_treasury"), W("market_quote_treasury"),
                    R("clock"), OR("platform_fee_authority"), OW("platform_fee_ata"),
                    R("associated_token_program"), R("system_program"), R("event_authority"),
                    R("program")>>,
     resolved |-> [clock |-> Literal("clock"),
                  associated_token_program |-> Literal("associated_token"),
                  system_program |-> Literal("system")]]
SwapWebParsed ==
    <<"taker", "market", "base_mint", "quote_mint", "base_token_program", "quote_token_program",
      "taker_base_ata", "taker_quote_ata", "market_base_treasury", "market_quote_treasury",
      "clock", "platform_fee_authority", "platform_fee_ata", "associated_token_program",
      "system_program", "event_authority", "program">>

DepositLeaderWebData ==
    [discriminator |-> 10,
     encoded |-> <<<<"vault_idx", "u32">>, <<"base_in", "u64">>, <<"quote_in", "u64">>,
                   <<"max_base_in", "u64">>, <<"max_quote_in", "u64">>>>,
     decoded |-> <<<<"vault_idx", "u32">>, <<"base_in", "u64">>, <<"quote_in", "u64">>,
                   <<"max_base_in", "u64">>, <<"max_quote_in", "u64">>>>]
DepositLeaderWebAsync ==
    [metas    |-> <<WS("signer"), W("market"), R("base_mint"), R("quote_mint"),
                    R("base_token_program"), R("quote_token_program"), W("signer_base_ata"),
                    W("signer_quote_ata"), W("market_base_treasury"),
                    W("market_quote_treasury"), R("system_program"),
                    R("associated_token_program"), R("event_authority"), R("program")>>,
     resolved |-> [system_program |-> Literal("system"),
                  associated_token_program |-> Literal("associated_token"),
                  event_authority |-> EventAuthorityPda]]
DepositLeaderWebSync ==
    [metas    |-> <<WS("signer"), W("market"), R("base_mint"), R("quote_mint"),
                    R("base_token_program"), R("quote_token_program"), W("signer_base_ata"),
                    W("signer_quote_ata"), W("market_base_treasury"),
                    W("market_quote_treasury"), R("system_program"),
                    R("associated_token_program"), R("event_authority"), R("program")>>,
     resolved |-> [system_program |-> Literal("system"),
                  associated_token_program |-> Literal("associated_token")]]
DepositLeaderWebParsed ==
    <<"signer", "market", "base_mint", "quote_mint", "base_token_program",
      "quote_token_program", "signer_base_ata", "signer_quote_ata", "market_base_treasury",
      "market_quote_treasury", "system_program", "associated_token_program", "event_authority",
      "program">>

WithdrawLeaderWebData ==
    [discriminator |-> 11,
     encoded |-> <<<<"vault_idx", "u32">>, <<"shares_in", "u64">>, <<"min_base_out", "u64">>,
                   <<"min_quote_out", "u64">>>>,
     decoded |-> <<<<"vault_idx", "u32">>, <<"shares_in", "u64">>, <<"min_base_out", "u64">>,
                   <<"min_quote_out", "u64">>>>]
WithdrawLeaderWebAsync ==
    [metas    |-> <<WS("signer"), W("market"), R("base_mint"), R("quote_mint"),
                    R("base_token_program"), R("quote_token_program"), W("signer_base_ata"),
                    W("signer_quote_ata"), W("market_base_treasury"),
                    W("market_quote_treasury"), R("associated_token_program"),
                    R("system_program"), R("event_authority"), R("program")>>,
     resolved |-> [associated_token_program |-> Literal("associated_token"),
                  system_program |-> Literal("system"), event_authority |-> EventAuthorityPda]]
WithdrawLeaderWebSync ==
    [metas    |-> <<WS("signer"), W("market"), R("base_mint"), R("quote_mint"),
                    R("base_token_program"), R("quote_token_program"), W("signer_base_ata"),
                    W("signer_quote_ata"), W("market_base_treasury"),
                    W("market_quote_treasury"), R("associated_token_program"),
                    R("system_program"), R("event_authority"), R("program")>>,
     resolved |-> [associated_token_program |-> Literal("associated_token"),
                  system_program |-> Literal("system")]]
WithdrawLeaderWebParsed ==
    <<"signer", "market", "base_mint", "quote_mint", "base_token_program",
      "quote_token_program", "signer_base_ata", "signer_quote_ata", "market_base_treasury",
      "market_quote_treasury", "associated_token_program", "system_program", "event_authority",
      "program">>

SetAllowOutsideDepositorsWebData ==
    [discriminator |-> 12,
     encoded |-> <<<<"vault_idx", "u32">>, <<"flag", "bool">>>>,
     decoded |-> <<<<"vault_idx", "u32">>, <<"flag", "bool">>>>]
SetAllowOutsideDepositorsWebSync ==
    [metas    |-> <<RS("signer"), W("market")>>,
     resolved |-> NoDefaults]
SetAllowOutsideDepositorsWebParsed ==
    <<"signer", "market">>

SetOutsideDepositsApprovedWebData ==
    [discriminator |-> 13,
     encoded |-> <<<<"vault_idx", "u32">>, <<"flag", "bool">>>>,
     decoded |-> <<<<"vault_idx", "u32">>, <<"flag", "bool">>>>]
SetOutsideDepositsApprovedWebAsync ==
    [metas    |-> <<RS("admin"), R("registry"), W("market")>>,
     resolved |-> [registry |-> RegistryPda]]
SetOutsideDepositsApprovedWebSync ==
    [metas    |-> <<RS("admin"), R("registry"), W("market")>>,
     resolved |-> NoDefaults]
SetOutsideDepositsApprovedWebParsed ==
    <<"admin", "registry", "market">>

CloseVaultWebData ==
    [discriminator |-> 14,
     encoded |-> <<<<"vault_idx", "u32">>>>,
     decoded |-> <<<<"vault_idx", "u32">>>>]
CloseVaultWebAsync ==
    [metas    |-> <<RS("signer"), W("market"), R("event_authority"), R("program")>>,
     resolved |-> [event_authority |-> EventAuthorityPda]]
CloseVaultWebSync ==
    [metas    |-> <<RS("signer"), W("market"), R("event_authority"), R("program")>>,
     resolved |-> NoDefaults]
CloseVaultWebParsed ==
    <<"signer", "market", "event_authority", "program">>

FreezeVaultWebData ==
    [discriminator |-> 15,
     encoded |-> <<<<"vault_idx", "u32">>>>,
     decoded |-> <<<<"vault_idx", "u32">>>>]
FreezeVaultWebAsync ==
    [metas    |-> <<RS("admin"), R("registry"), W("market"), R("event_authority"), R("program")>>,
     resolved |-> [registry |-> RegistryPda, event_authority |-> EventAuthorityPda]]
FreezeVaultWebSync ==
    [metas    |-> <<RS("admin"), R("registry"), W("market"), R("event_authority"), R("program")>>,
     resolved |-> NoDefaults]
FreezeVaultWebParsed ==
    <<"admin", "registry", "market", "event_authority", "program">>

ForceWithdrawDepositorWebData ==
    [discriminator |-> 16,
     encoded |-> <<<<"vault_idx", "u32">>>>,
     decoded |-> <<<<"vault_idx", "u32">>>>]
ForceWithdrawDepositorWebAsync ==
    [metas    |-> <<WS("admin"), R("registry"), W("market"), W("owner"), W("vault_depositor"),
                    R("base_mint"), R("quote_mint"), R("base_token_program"),
                    R("quote_token_program"), W("owner_base_ata"), W("owner_quote_ata"),
                    W("market_base_treasury"), W("market_quote_treasury"),
                    R("associated_token_program"), R("system_program"), R("event_authority"),
                    R("program")>>,
     resolved |-> [registry |-> RegistryPda,
                  vault_depositor |-> ForcedVaultDepositorPda("market", "vault_idx", "owner"),
                  associated_token_program |-> Literal("associated_token"),
                  system_program |-> Literal("system"), event_authority |-> EventAuthorityPda]]
ForceWithdrawDepositorWebSync ==
    [metas    |-> <<WS("admin"), R("registry"), W("market"), W("owner"), W("vault_depositor"),
                    R("base_mint"), R("quote_mint"), R("base_token_program"),
                    R("quote_token_program"), W("owner_base_ata"), W("owner_quote_ata"),
                    W("market_base_treasury"), W("market_quote_treasury"),
                    R("associated_token_program"), R("system_program"), R("event_authority"),
                    R("program")>>,
     resolved |-> [associated_token_program |-> Literal("associated_token"),
                  system_program |-> Literal("system")]]
ForceWithdrawDepositorWebParsed ==
    <<"admin", "registry", "market", "owner", "vault_depositor", "base_mint", "quote_mint",
      "base_token_program", "quote_token_program", "owner_base_ata", "owner_quote_ata",
      "market_base_treasury", "market_quote_treasury", "associated_token_program",
      "system_program", "event_authority", "program">>

ForceWithdrawLeaderWebData ==
    [discriminator |-> 17,
     encoded |-> <<<<"vault_idx", "u32">>>>,
     decoded |-> <<<<"vault_idx", "u32">>>>]
ForceWithdrawLeaderWebAsync ==
    [metas    |-> <<WS("admin"), R("registry"), W("market"), R("leader"), R("base_mint"),
                    R("quote_mint"), R("base_token_program"), R("quote_token_program"),
                    W("leader_base_ata"), W("leader_quote_ata"), W("market_base_treasury"),
                    W("market_quote_treasury"), R("associated_token_program"),
                    R("system_program"), R("event_authority"), R("program")>>,
     resolved |-> [registry |-> RegistryPda,
                  associated_token_program |-> Literal("associated_token"),
                  system_program |-> Literal("system"), event_authority |-> EventAuthorityPda]]
ForceWithdrawLeaderWebSync ==
    [metas    |-> <<WS("admin"), R("registry"), W("market"), R("leader"), R("base_mint"),
                    R("quote_mint"), R("base_token_program"), R("quote_token_program"),
                    W("leader_base_ata"), W("leader_quote_ata"), W("market_base_treasury"),
                    W("market_quote_treasury"), R("associated_token_program"),
                    R("system_program"), R("event_authority"), R("program")>>,
     resolved |-> [associated_token_program |-> Literal("associated_token"),
                  system_program |-> Literal("system")]]
ForceWithdrawLeaderWebParsed ==
    <<"admin", "registry", "market", "leader", "base_mint", "quote_mint", "base_token_program",
      "quote_token_program", "leader_base_ata", "leader_quote_ata", "market_base_treasury",
      "market_quote_treasury", "associated_token_program", "system_program", "event_authority",
      "program">>

CloseMarketTreasuryWebData ==
    [discriminator |-> 18,
     encoded |-> <<>>,
     decoded |-> <<>>]
CloseMarketTreasuryWebAsync ==
    [metas    |-> <<RS("admin"), R("registry"), W("market"), R("mint"), R("token_program"),
                    W("treasury"), W("token_recipient"), W("rent_recipient"),
                    R("event_authority"), R("program")>>,
     resolved |-> [registry |-> RegistryPda, token_program |-> Literal("token"),
                  event_authority |-> EventAuthorityPda]]
CloseMarketTreasuryWebSync ==
    [metas    |-> <<RS("admin"), R("registry"), W("market"), R("mint"), R("token_program"),
                    W("treasury"), W("token_recipient"), W("rent_recipient"),
                    R("event_authority"), R("program")>>,
     resolved |-> [token_program |-> Literal("token")]]
CloseMarketTreasuryWebParsed ==
    <<"admin", "registry", "market", "mint", "token_program", "treasury", "token_recipient",
      "rent_recipient", "event_authority", "program">>

CloseMarketWebData ==
    [discriminator |-> 19,
     encoded |-> <<>>,
     decoded |-> <<>>]
CloseMarketWebAsync ==
    [metas    |-> <<RS("admin"), W("registry"), W("market"), R("base_treasury"),
                    R("quote_treasury"), W("rent_recipient")>>,
     resolved |-> [registry |-> RegistryPda]]
CloseMarketWebSync ==
    [metas    |-> <<RS("admin"), W("registry"), W("market"), R("base_treasury"),
                    R("quote_treasury"), W("rent_recipient")>>,
     resolved |-> NoDefaults]
CloseMarketWebParsed ==
    <<"admin", "registry", "market", "base_treasury", "quote_treasury", "rent_recipient">>

CloseRegistryFeeVaultWebData ==
    [discriminator |-> 20,
     encoded |-> <<>>,
     decoded |-> <<>>]
CloseRegistryFeeVaultWebAsync ==
    [metas    |-> <<RS("admin"), R("registry"), R("fee_mint"), R("token_program"),
                    W("fee_vault"), W("token_recipient"), W("rent_recipient"),
                    R("event_authority"), R("program")>>,
     resolved |-> [registry |-> RegistryPda, token_program |-> Literal("token"),
                  event_authority |-> EventAuthorityPda]]
CloseRegistryFeeVaultWebSync ==
    [metas    |-> <<RS("admin"), R("registry"), R("fee_mint"), R("token_program"),
                    W("fee_vault"), W("token_recipient"), W("rent_recipient"),
                    R("event_authority"), R("program")>>,
     resolved |-> [token_program |-> Literal("token")]]
CloseRegistryFeeVaultWebParsed ==
    <<"admin", "registry", "fee_mint", "token_program", "fee_vault", "token_recipient",
      "rent_recipient", "event_authority", "program">>

CloseRegistryWebData ==
    [discriminator |-> 21,
     encoded |-> <<>>,
     decoded |-> <<>>]
CloseRegistryWebAsync ==
    [metas    |-> <<RS("admin"), W("registry"), W("rent_recipient")>>,
     resolved |-> [registry |-> RegistryPda]]
CloseRegistryWebSync ==
    [metas    |-> <<RS("admin"), W("registry"), W("rent_recipient")>>,
     resolved |-> NoDefaults]
CloseRegistryWebParsed ==
    <<"admin", "registry", "rent_recipient">>

SetMinLeaderShareWebData ==
    [discriminator |-> 22,
     encoded |-> <<<<"vault_idx", "u32">>, <<"min_leader_share", "u32">>>>,
     decoded |-> <<<<"vault_idx", "u32">>, <<"min_leader_share", "u32">>>>]
SetMinLeaderShareWebAsync ==
    [metas    |-> <<RS("admin"), R("registry"), W("market"), R("event_authority"), R("program")>>,
     resolved |-> [registry |-> RegistryPda, event_authority |-> EventAuthorityPda]]
SetMinLeaderShareWebSync ==
    [metas    |-> <<RS("admin"), R("registry"), W("market"), R("event_authority"), R("program")>>,
     resolved |-> NoDefaults]
SetMinLeaderShareWebParsed ==
    <<"admin", "registry", "market", "event_authority", "program">>

SetMarketFeeConfigWebData ==
    [discriminator |-> 23,
     encoded |-> <<<<"atoms", "u64">>>>,
     decoded |-> <<<<"atoms", "u64">>>>]
SetMarketFeeConfigWebAsync ==
    [metas    |-> <<WS("admin"), R("registry"), W("market"), R("fee_mint"),
                    R("fee_token_program"), W("registry_fee_treasury"),
                    R("associated_token_program"), R("system_program"), R("event_authority"),
                    R("program")>>,
     resolved |-> [registry |-> RegistryPda,
                  associated_token_program |-> Literal("associated_token"),
                  system_program |-> Literal("system"), event_authority |-> EventAuthorityPda]]
SetMarketFeeConfigWebSync ==
    [metas    |-> <<WS("admin"), R("registry"), W("market"), R("fee_mint"),
                    R("fee_token_program"), W("registry_fee_treasury"),
                    R("associated_token_program"), R("system_program"), R("event_authority"),
                    R("program")>>,
     resolved |-> [associated_token_program |-> Literal("associated_token"),
                  system_program |-> Literal("system")]]
SetMarketFeeConfigWebParsed ==
    <<"admin", "registry", "market", "fee_mint", "fee_token_program", "registry_fee_treasury",
      "associated_token_program", "system_program", "event_authority", "program">>

SetTakerFeeWebData ==
    [discriminator |-> 24,
     encoded |-> <<<<"taker_fee", "u16">>>>,
     decoded |-> <<<<"taker_fee", "u16">>>>]
SetTakerFeeWebAsync ==
    [metas    |-> <<RS("admin"), R("registry"), W("market"), R("event_authority"), R("program")>>,
     resolved |-> [registry |-> RegistryPda, event_authority |-> EventAuthorityPda]]
SetTakerFeeWebSync ==
    [metas    |-> <<RS("admin"), R("registry"), W("market"), R("event_authority"), R("program")>>,
     resolved |-> NoDefaults]
SetTakerFeeWebParsed ==
    <<"admin", "registry", "market", "event_authority", "program">>

SetRegistryDefaultsWebData ==
    [discriminator |-> 25,
     encoded |-> <<<<"taker_fee", "Option<u16>">>, <<"max_platform_fee", "Option<u16>">>,
                   <<"min_leader_share", "Option<u32>">>>>,
     decoded |-> <<<<"taker_fee", "Option<u16>">>, <<"max_platform_fee", "Option<u16>">>,
                   <<"min_leader_share", "Option<u32>">>>>]
SetRegistryDefaultsWebAsync ==
    [metas    |-> <<RS("admin"), W("registry"), R("event_authority"), R("program")>>,
     resolved |-> [registry |-> RegistryPda, event_authority |-> EventAuthorityPda]]
SetRegistryDefaultsWebSync ==
    [metas    |-> <<RS("admin"), W("registry"), R("event_authority"), R("program")>>,
     resolved |-> NoDefaults]
SetRegistryDefaultsWebParsed ==
    <<"admin", "registry", "event_authority", "program">>

SetDefaultFeeConfigWebData ==
    [discriminator |-> 26,
     encoded |-> <<<<"atoms", "u64">>>>,
     decoded |-> <<<<"atoms", "u64">>>>]
SetDefaultFeeConfigWebAsync ==
    [metas    |-> <<WS("admin"), W("registry"), R("fee_mint"), R("fee_token_program"),
                    W("registry_fee_treasury"), R("associated_token_program"),
                    R("system_program"), R("event_authority"), R("program")>>,
     resolved |-> [registry |-> RegistryPda,
                  associated_token_program |-> Literal("associated_token"),
                  system_program |-> Literal("system"), event_authority |-> EventAuthorityPda]]
SetDefaultFeeConfigWebSync ==
    [metas    |-> <<WS("admin"), W("registry"), R("fee_mint"), R("fee_token_program"),
                    W("registry_fee_treasury"), R("associated_token_program"),
                    R("system_program"), R("event_authority"), R("program")>>,
     resolved |-> [associated_token_program |-> Literal("associated_token"),
                  system_program |-> Literal("system")]]
SetDefaultFeeConfigWebParsed ==
    <<"admin", "registry", "fee_mint", "fee_token_program", "registry_fee_treasury",
      "associated_token_program", "system_program", "event_authority", "program">>

SetQuoteAuthorityWebData ==
    [discriminator |-> 27,
     encoded |-> <<<<"vault_idx", "u32">>, <<"new_authority", "Pubkey">>>>,
     decoded |-> <<<<"vault_idx", "u32">>, <<"new_authority", "Pubkey">>>>]
SetQuoteAuthorityWebSync ==
    [metas    |-> <<RS("signer"), W("market")>>,
     resolved |-> NoDefaults]
SetQuoteAuthorityWebParsed ==
    <<"signer", "market">>

SweepResidualWebData ==
    [discriminator |-> 28,
     encoded |-> <<>>,
     decoded |-> <<>>]
SweepResidualWebAsync ==
    [metas    |-> <<RS("admin"), R("registry"), R("market"), R("mint"), R("token_program"),
                    W("treasury"), W("token_recipient"), R("event_authority"), R("program")>>,
     resolved |-> [registry |-> RegistryPda, token_program |-> Literal("token"),
                  event_authority |-> EventAuthorityPda]]
SweepResidualWebSync ==
    [metas    |-> <<RS("admin"), R("registry"), R("market"), R("mint"), R("token_program"),
                    W("treasury"), W("token_recipient"), R("event_authority"), R("program")>>,
     resolved |-> [token_program |-> Literal("token")]]
SweepResidualWebParsed ==
    <<"admin", "registry", "market", "mint", "token_program", "treasury", "token_recipient",
      "event_authority", "program">>

SetMaxPlatformFeeWebData ==
    [discriminator |-> 29,
     encoded |-> <<<<"max_platform_fee", "u16">>>>,
     decoded |-> <<<<"max_platform_fee", "u16">>>>]
SetMaxPlatformFeeWebAsync ==
    [metas    |-> <<RS("admin"), R("registry"), W("market"), R("event_authority"), R("program")>>,
     resolved |-> [registry |-> RegistryPda, event_authority |-> EventAuthorityPda]]
SetMaxPlatformFeeWebSync ==
    [metas    |-> <<RS("admin"), R("registry"), W("market"), R("event_authority"), R("program")>>,
     resolved |-> NoDefaults]
SetMaxPlatformFeeWebParsed ==
    <<"admin", "registry", "market", "event_authority", "program">>
------------------------------------------------------------------------------
WebClient ==
    [init |-> [data |-> InitWebData, parsed |-> InitWebParsed,
          web_async |-> InitWebAsync, web_sync |-> InitWebSync],
     add_admin |-> [data |-> AddAdminWebData, parsed |-> AddAdminWebParsed,
          web_async |-> AddAdminWebAsync, web_sync |-> AddAdminWebSync],
     remove_admin |-> [data |-> RemoveAdminWebData, parsed |-> RemoveAdminWebParsed,
          web_async |-> RemoveAdminWebAsync, web_sync |-> RemoveAdminWebSync],
     create_market |-> [data |-> CreateMarketWebData, parsed |-> CreateMarketWebParsed,
          web_async |-> CreateMarketWebAsync, web_sync |-> CreateMarketWebSync],
     create_vault |-> [data |-> CreateVaultWebData, parsed |-> CreateVaultWebParsed,
          web_async |-> CreateVaultWebAsync, web_sync |-> CreateVaultWebSync],
     set_reference_price |-> [data |-> SetReferencePriceWebData, parsed |-> SetReferencePriceWebParsed,
          web_async |-> SetReferencePriceWebSync, web_sync |-> SetReferencePriceWebSync],
     set_liquidity_profile |-> [data |-> SetLiquidityProfileWebData, parsed |-> SetLiquidityProfileWebParsed,
          web_async |-> SetLiquidityProfileWebSync, web_sync |-> SetLiquidityProfileWebSync],
     deposit |-> [data |-> DepositWebData, parsed |-> DepositWebParsed,
          web_async |-> DepositWebAsync, web_sync |-> DepositWebSync],
     withdraw |-> [data |-> WithdrawWebData, parsed |-> WithdrawWebParsed,
          web_async |-> WithdrawWebAsync, web_sync |-> WithdrawWebSync],
     swap |-> [data |-> SwapWebData, parsed |-> SwapWebParsed,
          web_async |-> SwapWebAsync, web_sync |-> SwapWebSync],
     deposit_leader |-> [data |-> DepositLeaderWebData, parsed |-> DepositLeaderWebParsed,
          web_async |-> DepositLeaderWebAsync, web_sync |-> DepositLeaderWebSync],
     withdraw_leader |-> [data |-> WithdrawLeaderWebData, parsed |-> WithdrawLeaderWebParsed,
          web_async |-> WithdrawLeaderWebAsync, web_sync |-> WithdrawLeaderWebSync],
     set_allow_outside_depositors |-> [data |-> SetAllowOutsideDepositorsWebData, parsed |-> SetAllowOutsideDepositorsWebParsed,
          web_async |-> SetAllowOutsideDepositorsWebSync, web_sync |-> SetAllowOutsideDepositorsWebSync],
     set_outside_deposits_approved |-> [data |-> SetOutsideDepositsApprovedWebData, parsed |-> SetOutsideDepositsApprovedWebParsed,
          web_async |-> SetOutsideDepositsApprovedWebAsync, web_sync |-> SetOutsideDepositsApprovedWebSync],
     close_vault |-> [data |-> CloseVaultWebData, parsed |-> CloseVaultWebParsed,
          web_async |-> CloseVaultWebAsync, web_sync |-> CloseVaultWebSync],
     freeze_vault |-> [data |-> FreezeVaultWebData, parsed |-> FreezeVaultWebParsed,
          web_async |-> FreezeVaultWebAsync, web_sync |-> FreezeVaultWebSync],
     force_withdraw_depositor |-> [data |-> ForceWithdrawDepositorWebData, parsed |-> ForceWithdrawDepositorWebParsed,
          web_async |-> ForceWithdrawDepositorWebAsync, web_sync |-> ForceWithdrawDepositorWebSync],
     force_withdraw_leader |-> [data |-> ForceWithdrawLeaderWebData, parsed |-> ForceWithdrawLeaderWebParsed,
          web_async |-> ForceWithdrawLeaderWebAsync, web_sync |-> ForceWithdrawLeaderWebSync],
     close_market_treasury |-> [data |-> CloseMarketTreasuryWebData, parsed |-> CloseMarketTreasuryWebParsed,
          web_async |-> CloseMarketTreasuryWebAsync, web_sync |-> CloseMarketTreasuryWebSync],
     close_market |-> [data |-> CloseMarketWebData, parsed |-> CloseMarketWebParsed,
          web_async |-> CloseMarketWebAsync, web_sync |-> CloseMarketWebSync],
     close_registry_fee_vault |-> [data |-> CloseRegistryFeeVaultWebData, parsed |-> CloseRegistryFeeVaultWebParsed,
          web_async |-> CloseRegistryFeeVaultWebAsync, web_sync |-> CloseRegistryFeeVaultWebSync],
     close_registry |-> [data |-> CloseRegistryWebData, parsed |-> CloseRegistryWebParsed,
          web_async |-> CloseRegistryWebAsync, web_sync |-> CloseRegistryWebSync],
     set_min_leader_share |-> [data |-> SetMinLeaderShareWebData, parsed |-> SetMinLeaderShareWebParsed,
          web_async |-> SetMinLeaderShareWebAsync, web_sync |-> SetMinLeaderShareWebSync],
     set_market_fee_config |-> [data |-> SetMarketFeeConfigWebData, parsed |-> SetMarketFeeConfigWebParsed,
          web_async |-> SetMarketFeeConfigWebAsync, web_sync |-> SetMarketFeeConfigWebSync],
     set_taker_fee |-> [data |-> SetTakerFeeWebData, parsed |-> SetTakerFeeWebParsed,
          web_async |-> SetTakerFeeWebAsync, web_sync |-> SetTakerFeeWebSync],
     set_registry_defaults |-> [data |-> SetRegistryDefaultsWebData, parsed |-> SetRegistryDefaultsWebParsed,
          web_async |-> SetRegistryDefaultsWebAsync, web_sync |-> SetRegistryDefaultsWebSync],
     set_default_fee_config |-> [data |-> SetDefaultFeeConfigWebData, parsed |-> SetDefaultFeeConfigWebParsed,
          web_async |-> SetDefaultFeeConfigWebAsync, web_sync |-> SetDefaultFeeConfigWebSync],
     set_quote_authority |-> [data |-> SetQuoteAuthorityWebData, parsed |-> SetQuoteAuthorityWebParsed,
          web_async |-> SetQuoteAuthorityWebSync, web_sync |-> SetQuoteAuthorityWebSync],
     sweep_residual |-> [data |-> SweepResidualWebData, parsed |-> SweepResidualWebParsed,
          web_async |-> SweepResidualWebAsync, web_sync |-> SweepResidualWebSync],
     set_max_platform_fee |-> [data |-> SetMaxPlatformFeeWebData, parsed |-> SetMaxPlatformFeeWebParsed,
          web_async |-> SetMaxPlatformFeeWebAsync, web_sync |-> SetMaxPlatformFeeWebSync]]
=============================================================================
