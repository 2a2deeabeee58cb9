------------------------------- MODULE Registry -------------------------------
(***************************************************************************)
(* The registry: who may govern, what new markets are stamped with, where  *)
(* fees are collected, and the teardown that ends with nothing on chain.   *)
(*                                                                         *)
(* The registry, its markets and its fee vaults are accounts of their own  *)
(* that refer to one another: a market needs the fee vault of its own mint *)
(* to admit a vault, and the registry knows its markets only by a counter. *)
(* Of a market's vaults and depositors only the counters its teardown asks *)
(* for are kept; MarketVaults has the rest.                                *)
(***************************************************************************)
EXTENDS Naturals, Sequences, FiniteSets

CONSTANTS Wallets,             \* who sign: administrators, leaders, the upgrade authority
          UpgradeAuthority,    \* the one wallet that may initialize
          Pairs,               \* the pairs a market may be created for
          Mints,               \* mints fees are charged in
          Prices,              \* the fees that may be charged, in atoms
          Shares, PPM,         \* values of a minimum leader share, and its whole
          Absent,              \* an account that does not exist
          MaxFees              \* bound: fees in a mint before no more are charged

VARIABLE reg

Fee    == [mint : Mints, atoms : Prices]
Market == [fee : Fee, share : 0 .. PPM, treasuries : Nat, active : Nat, depositors : Nat]

ASSUME PairAssumption   == IsFiniteSet(Pairs)
ASSUME AmountAssumption == /\ Prices \subseteq Nat /\ Shares \subseteq Nat
                           /\ PPM \in Nat /\ MaxFees \in Nat
ASSUME AbsentAssumption == Absent \notin Nat /\ Absent \notin Market

RegistryTypeOK ==
    /\ reg \in [open : BOOLEAN, admins : Seq(Wallets), fee : Fee \cup {Absent},
                share : 0 .. PPM, count : Nat, cap : Nat,
                markets : [Pairs -> Market \cup {Absent}], vaults : [Mints -> Nat \cup {Absent}],
                fees : [Mints -> Nat]]
    /\ reg.open => reg.fee \in Fee

MarketAt(p)  == reg.markets[p]
Live(p)      == MarketAt(p) # Absent
IsAdmin(w)   == reg.open /\ \E i \in DOMAIN reg.admins : reg.admins[i] = w
HasVault(m)  == reg.vaults[m] # Absent

RegistryInit ==
    reg = [open |-> FALSE, admins |-> <<>>, fee |-> Absent, share |-> 0, count |-> 0,
           cap |-> 0,
           markets |-> [p \in Pairs |-> Absent], vaults |-> [m \in Mints |-> Absent],
           fees |-> [m \in Mints |-> 0]]

\* A fee vault is an associated account: creating one that exists changes nothing.
WithVault(vaults, m) == IF vaults[m] = Absent THEN [vaults EXCEPT ![m] = 0] ELSE vaults

------------------------------------------------------------------------------
(* Governance.                                                              *)

\* A closed registry can be initialized again; its fee vaults may have outlived it.
Initialize(payer, genesis, fee) ==
    /\ ~reg.open
    /\ payer = UpgradeAuthority
    /\ reg' = [reg EXCEPT !.open = TRUE, !.admins = <<genesis>>, !.fee = fee,
                              !.share = PPM, !.count = 0, !.cap = 1,
                              !.vaults = WithVault(@, fee.mint)]

AdminInsert(admins, w) == Append(admins, w)
AddAdmin(admin, w) ==
    /\ IsAdmin(admin)
    /\ ~IsAdmin(w)
    /\ reg' = [reg EXCEPT !.admins = AdminInsert(@, w)]

\* swap_remove: the last one moves into the gap.
AdminRemove(admins, w) ==
    LET pos  == CHOOSE i \in DOMAIN admins : admins[i] = w
        last == Len(admins)
    IN  SubSeq([admins EXCEPT ![pos] = admins[last]], 1, last - 1)
MayRemoveAny(admins) == Len(admins) > 0
MayRemove(admins) == Len(admins) > 1

RemoveAdmin(admin, w) ==
    /\ IsAdmin(admin)
    /\ IsAdmin(w)
    /\ MayRemove(reg.admins)
    /\ reg' = [reg EXCEPT !.admins = AdminRemove(@, w)]

SetRegistryDefaults(admin, share) ==
    /\ IsAdmin(admin)
    /\ share <= PPM
    /\ reg' = [reg EXCEPT !.share = share]

SetDefaultFeeConfig(admin, fee) ==
    /\ IsAdmin(admin)
    /\ reg' = [reg EXCEPT !.fee = fee, !.vaults = WithVault(@, fee.mint)]

------------------------------------------------------------------------------
(* Markets and their vaults.                                                *)

\* Administrators pay nothing.
Charged(w, fee) == IF IsAdmin(w) THEN 0 ELSE fee.atoms
Collect(w, fee) ==
    [reg EXCEPT !.vaults[fee.mint] = @ + Charged(w, fee), !.fees[fee.mint] = @ + Charged(w, fee)]

CountAfterCreate(n) == n + 1
CountAfterClose(n)  == IF n = 0 THEN 0 ELSE n - 1

CreateMarket(payer, p) ==
    /\ reg.open
    /\ ~Live(p)
    /\ HasVault(reg.fee.mint)
    /\ reg' = [Collect(payer, reg.fee) EXCEPT
                    !.count = CountAfterCreate(@),
                    !.markets[p] = [fee |-> reg.fee, share |-> reg.share, treasuries |-> 2,
                                    active |-> 0, depositors |-> 0]]

\* A leader other than the payer is for administrators to name.
Leads(payer, override) == IF override = Absent THEN payer ELSE override

AdmitVault(payer, p, override) ==
    /\ reg.open
    /\ Live(p)
    /\ MarketAt(p).active < reg.cap
    /\ IsAdmin(payer) \/ Leads(payer, override) = payer
    /\ HasVault(MarketAt(p).fee.mint)
    /\ reg' = [Collect(payer, MarketAt(p).fee) EXCEPT !.markets[p].active = @ + 1]

SetMarketFeeConfig(admin, p, fee) ==
    /\ IsAdmin(admin)
    /\ Live(p)
    /\ reg' = [reg EXCEPT !.markets[p].fee = fee, !.vaults = WithVault(@, fee.mint)]

\* A vault takes a depositor, and loses the last one with its own end.
DepositorComes(p) ==
    /\ Live(p)
    /\ MarketAt(p).active > 0 /\ MarketAt(p).depositors = 0
    /\ reg' = [reg EXCEPT !.markets[p].depositors = 1]
VaultEnds(p) ==
    /\ Live(p)
    /\ MarketAt(p).active > 0
    /\ \E left \in 0..MarketAt(p).depositors :
          reg' = [reg EXCEPT !.markets[p].active = @ - 1, !.markets[p].depositors = left]
DepositorLeaves(p) ==
    /\ Live(p)
    /\ MarketAt(p).depositors > 0
    /\ reg' = [reg EXCEPT !.markets[p].depositors = @ - 1]

------------------------------------------------------------------------------
(* Teardown.                                                                *)

CloseMarketTreasury(admin, p) ==
    /\ IsAdmin(admin)
    /\ Live(p)
    /\ MarketAt(p).active = 0 /\ MarketAt(p).treasuries > 0
    /\ reg' = [reg EXCEPT !.markets[p].treasuries = @ - 1]

CloseMarket(admin, p) ==
    /\ IsAdmin(admin)
    /\ Live(p)
    /\ MarketAt(p).depositors = 0 /\ MarketAt(p).treasuries = 0
    /\ reg' = [reg EXCEPT !.count = CountAfterClose(@), !.markets[p] = Absent]

NoMarkets == reg.count = 0
CloseRegistryFeeVault(admin, m) ==
    /\ IsAdmin(admin)
    /\ NoMarkets
    /\ HasVault(m)
    /\ reg' = [reg EXCEPT !.fees[m] = @ - reg.vaults[m], !.vaults[m] = Absent]

CloseRegistry(admin) ==
    /\ IsAdmin(admin)
    /\ NoMarkets
    /\ Len(reg.admins) <= 1
    /\ reg' = [reg EXCEPT !.open = FALSE, !.admins = <<>>]

------------------------------------------------------------------------------
MayCharge(w, fee) == reg.fees[fee.mint] + Charged(w, fee) <= MaxFees

RegistryNext ==
    \/ \E w, g \in Wallets, fee \in Fee : Initialize(w, g, fee)
    \/ \E a, w \in Wallets : AddAdmin(a, w) \/ RemoveAdmin(a, w)
    \/ \E a \in Wallets, share \in Shares : SetRegistryDefaults(a, share)
    \/ \E a \in Wallets, fee \in Fee :
          \/ SetDefaultFeeConfig(a, fee)
          \/ \E p \in Pairs : SetMarketFeeConfig(a, p, fee)
    \/ \E w \in Wallets, p \in Pairs : reg.open /\ MayCharge(w, reg.fee) /\ CreateMarket(w, p)
    \/ \E w \in Wallets, p \in Pairs, o \in Wallets \cup {Absent} :
          Live(p) /\ MayCharge(w, MarketAt(p).fee) /\ AdmitVault(w, p, o)
    \/ \E p \in Pairs : DepositorComes(p) \/ VaultEnds(p) \/ DepositorLeaves(p)
    \/ \E a \in Wallets :
          \/ \E p \in Pairs : CloseMarketTreasury(a, p) \/ CloseMarket(a, p)
          \/ \E m \in Mints : CloseRegistryFeeVault(a, m)
          \/ CloseRegistry(a)

RegistrySpec == RegistryInit /\ [][RegistryNext]_reg

------------------------------------------------------------------------------
\* Somebody governs as long as there is anything to govern: an open registry has an
\* administrator, each one once, and no market outlives the registry its levers hang on.
Governed ==
    /\ reg.open => Len(reg.admins) > 0
    /\ \A i, j \in DOMAIN reg.admins : reg.admins[i] = reg.admins[j] => i = j
    /\ (\E p \in Pairs : Live(p)) => reg.open

\* The counter that stands for markets the program cannot enumerate is exact.
CountExact == reg.count = Cardinality({p \in Pairs : Live(p)})

\* Whatever mint a market charges its fee in, and whatever has been torn down meanwhile,
\* the vault create_vault has to name exists: no market is bricked by a closed fee vault.
NoMarketBricked == \A p \in Pairs : Live(p) => HasVault(MarketAt(p).fee.mint)

\* Every fee charged and not yet paid out by a close is in the vault of its mint.
FeesAccounted ==
    \A m \in Mints : reg.fees[m] = IF HasVault(m) THEN reg.vaults[m] ELSE 0

RegistrySound == RegistryTypeOK /\ Governed /\ CountExact /\ NoMarketBricked /\ FeesAccounted

\* docs/architecture.md, account table, row 1: closing the registry asks for its fee vault
\* to be closed, so that no fee is left in an account nobody can sign for.
ClosedRegistryLeavesNoFees ==
    ~reg.open => \A m \in Mints : HasVault(m) => reg.vaults[m] = 0
=============================================================================
