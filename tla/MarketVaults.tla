---------------------------- MODULE MarketVaults ----------------------------
(***************************************************************************)
(* One Dropset market: its vault slab, the share ledger of every vault,    *)
(* the depositors' position accounts, and the two treasuries that hold     *)
(* every atom any of them has a claim on (programs/dropset).               *)
(*                                                                         *)
(* Each action is one instruction, whole: a Solana transaction is atomic,  *)
(* so what interleaves is instructions of different signers. An            *)
(* instruction that fails a check, overflows or cannot make a transfer     *)
(* leaves the state as it was and is not a step here.                      *)
(*                                                                         *)
(* Three ledgers have to agree and no instruction can look at all of them: *)
(*   - a vault knows its total and its leader's shares, but not who holds  *)
(*     the rest: depositor positions are accounts of their own, which the  *)
(*     program cannot enumerate;                                           *)
(*   - the market counts open positions in outstanding_vault_depositors;   *)
(*   - a treasury is one token account for all vaults and for the accrued  *)
(*     protocol fee.                                                       *)
(***************************************************************************)
EXTENDS ShareMath, Sums, Sequences

CONSTANTS Wallets,       \* signers: leaders, depositors, takers
          NoWallet,      \* Address::default(), the leader of an empty sector
          MaxSectors,    \* cap on the slab's length (u32 in the code)
          MaxVaults,     \* registry.max_vaults_per_market
          MaxU128,       \* the largest u128
          HwmModulus,    \* what a stored high-water mark is truncated to (2^64)
          PerfFees,      \* the performance fee rates leaders choose
          FloorShares,   \* the values of min_leader_share admins set
          DefaultFloor,  \* MarketHeader.default_min_leader_share
          MaxFill,       \* bound: atoms one fill moves on one leg
          MaxResidue     \* bound: input atoms a swap leaves unattributed

ASSUME WalletAssumption == NoWallet \notin Wallets
ASSUME SizeAssumption   == /\ MaxSectors \in Nat /\ MaxVaults \in Nat
                           /\ MaxU128 \in Nat
                           /\ MaxFill \in Nat /\ MaxResidue \in 0 .. MaxU64
                           /\ HwmModulus \in Nat \ {0}
ASSUME RateAssumption   == /\ PerfFees \subseteq 0 .. PPM
                           /\ FloorShares \subseteq 0 .. PPM
                           /\ DefaultFloor \in 0 .. PPM
ASSUME FiniteAssumption == IsFiniteSet(Wallets)

Sectors == 0 .. MaxSectors - 1
Leg     == {"base", "quote"}
OtherLeg(leg) == IF leg = "base" THEN "quote" ELSE "base"

VARIABLES
    vault,         \* per sector: leader, flags, rates and high-water mark
    total,         \* per sector: total_shares
    leaderShares,  \* per sector: leader_shares
    position,      \* per sector and wallet: shares of a VaultDepositor, 0 if closed
    atoms,         \* per leg and sector: base_atoms, quote_atoms
    list,          \* per sector: the linked list it is on, "none" beyond the slab
    freeStack,     \* the free list, head first
    slabLen,       \* how many sectors the slab has grown to
    activeCount,   \* MarketHeader.active_count
    outstanding,   \* MarketHeader.outstanding_vault_depositors
    treasury,      \* per leg: balance of the market's token account
    ata,           \* per leg: whether that account exists
    accrued,       \* per leg: accrued_base_fee_atoms, accrued_quote_fee_atoms
    open           \* whether the market account exists

slabVars   == <<list, freeStack, slabLen, activeCount>>
moneyVars  == <<treasury, ata, accrued>>
shareVars  == <<total, leaderShares, position, outstanding>>
vars == <<vault, slabVars, shareVars, atoms, moneyVars, open>>

\* A reference price is written unchecked: deposits only refuse the two sentinels
\* (zero, infinity), matching also refuses an encoding that is not a price.
PriceKind == {"sentinel", "malformed", "matchable"}

VaultSettings == [leader     : Wallets \cup {NoWallet},
                  frozen     : BOOLEAN,
                  tombstoned : BOOLEAN,
                  allow      : BOOLEAN,   \* allow_outside_depositors, the leader's key
                  approved   : BOOLEAN,   \* outside_deposits_approved, the admin's key
                  price      : PriceKind, \* what the reference price decodes to
                  perfFee    : 0 .. PPM,
                  floor      : 0 .. PPM,  \* min_leader_share
                  hwm        : Nat]

\* A sector as the slab allocator hands it out, all bytes zero.
ZeroedVault == [leader |-> NoWallet, frozen |-> FALSE, tombstoned |-> FALSE,
                allow |-> FALSE, approved |-> FALSE, price |-> "sentinel",
                perfFee |-> 0, floor |-> 0, hwm |-> 0]

TypeOK ==
    /\ vault \in [Sectors -> VaultSettings]
    /\ total \in [Sectors -> 0 .. MaxU64]
    /\ leaderShares \in [Sectors -> 0 .. MaxU64]
    /\ position \in [Sectors -> [Wallets -> 0 .. MaxU64]]
    /\ atoms \in [Leg -> [Sectors -> Nat]]
    /\ list \in [Sectors -> {"none", "active", "tombstone", "free"}]
    /\ freeStack \in Seq(Sectors)
    /\ slabLen \in 0 .. MaxSectors
    /\ activeCount \in Nat
    /\ outstanding \in Nat
    /\ treasury \in [Leg -> 0 .. MaxU64]
    /\ ata \in [Leg -> BOOLEAN]
    /\ accrued \in [Leg -> Nat]
    /\ open \in BOOLEAN

\* create_market tolerates treasuries that exist already and hold atoms.
Init ==
    /\ vault = [s \in Sectors |-> ZeroedVault]
    /\ total = [s \in Sectors |-> 0]
    /\ leaderShares = [s \in Sectors |-> 0]
    /\ position = [s \in Sectors |-> [w \in Wallets |-> 0]]
    /\ atoms = [l \in Leg |-> [s \in Sectors |-> 0]]
    /\ list = [s \in Sectors |-> "none"]
    /\ freeStack = <<>>
    /\ slabLen = 0
    /\ activeCount = 0
    /\ outstanding = 0
    /\ treasury \in [Leg -> 0 .. MaxResidue]
    /\ ata = [l \in Leg |-> TRUE]
    /\ accrued = [l \in Leg |-> 0]
    /\ open = TRUE

------------------------------------------------------------------------------
(* Guards and amounts the instructions share.                               *)

InSlab(s)      == s < slabLen
Occupied(s)    == InSlab(s) /\ vault[s].leader # NoWallet
WindingDown(s) == vault[s].frozen \/ vault[s].tombstoned
Live(s)        == Occupied(s) /\ ~WindingDown(s)
BothTreasuries == \A l \in Leg : ata[l]

LegVaultSum(leg) == SumOf(atoms[leg])
SatSub(a, b)     == IF a < b THEN 0 ELSE a - b

(* realize_in_place, which every deposit and withdrawal runs first.         *)

FeeShares(s) ==
    PerfFeeMint(atoms["base"][s], atoms["quote"][s], total[s], vault[s].hwm, vault[s].perfFee)
FeeMark(s) ==
    PerfFeeMark(atoms["base"][s], atoms["quote"][s], total[s], vault[s].hwm, vault[s].perfFee)

MintedEvenWindingDown(s) == FeeShares(s)
Minted(s) == IF WindingDown(s) THEN 0 ELSE FeeShares(s)

TotalAfterFee(s)  == SatAdd(total[s], Minted(s))
FeeNotCredited(s) == leaderShares[s]
LeaderAfterFee(s) == SatAdd(leaderShares[s], Minted(s))
MarkAfterFee(s)   == IF WindingDown(s) THEN vault[s].hwm ELSE FeeMark(s) % HwmModulus

\* The fee's numerator is computed in u128 with overflow checks on.
FeeProductFits(s) ==
    LET L == ValueOf(atoms["base"][s], atoms["quote"][s])
        h == MarkOf(vault[s].hwm, total[s])
    IN  ~WindingDown(s) /\ AboveMark(L, total[s], vault[s].hwm) /\ L > h
            => vault[s].perfFee * total[s] * (L - h) <= MaxU128

(* reclaim_sector: what the slab looks like once sector s has been emptied. *)

FreeStackAfter(s, emptied) == IF emptied THEN <<s>> \o freeStack ELSE freeStack
TombstonesNotReclaimed(s, emptied) ==
    IF emptied /\ list[s] = "active" THEN [list EXCEPT ![s] = "free"] ELSE list
ListAfter(s, emptied) == IF emptied THEN [list EXCEPT ![s] = "free"] ELSE list
CountedTwice(s, emptied) == IF emptied THEN activeCount - 1 ELSE activeCount
ActiveAfter(s, emptied) ==
    IF emptied /\ list[s] = "active" THEN SatSub(activeCount, 1) ELSE activeCount
LeaderAfter(s, emptied) == IF emptied THEN NoWallet ELSE vault[s].leader

SlabAfter(s, emptied) ==
    /\ list' = ListAfter(s, emptied)
    /\ freeStack' = FreeStackAfter(s, emptied)
    /\ activeCount' = ActiveAfter(s, emptied)
    /\ UNCHANGED slabLen

\* The vault's settings after the fee has moved its mark and a drain has emptied it.
SettingsAfter(s, emptied) ==
    [vault EXCEPT ![s].hwm = MarkAfterFee(s), ![s].leader = LeaderAfter(s, emptied)]

------------------------------------------------------------------------------
(* Vault lifecycle.                                                         *)

\* The sector allocate_sector hands out: the head of the free list, else a new one.
CanAllocate == freeStack # <<>> \/ slabLen < MaxSectors
NextSector  == IF freeStack # <<>> THEN Head(freeStack) ELSE slabLen

CreateVault(leader, fee, allow) ==
    /\ open /\ activeCount < MaxVaults /\ CanAllocate
    /\ LET s == NextSector IN
       /\ vault' = [vault EXCEPT ![s] =
                      [ZeroedVault EXCEPT !.leader = leader, !.perfFee = fee,
                         !.floor = DefaultFloor, !.hwm = QOne, !.allow = allow]]
       /\ total' = [total EXCEPT ![s] = 0]
       /\ leaderShares' = [leaderShares EXCEPT ![s] = 0]
       /\ atoms' = [l \in Leg |-> [atoms[l] EXCEPT ![s] = 0]]
       /\ list' = [list EXCEPT ![s] = "active"]
    /\ freeStack' = IF freeStack # <<>> THEN Tail(freeStack) ELSE freeStack
    /\ slabLen' = IF freeStack # <<>> THEN slabLen ELSE slabLen + 1
    /\ activeCount' = activeCount + 1
    /\ UNCHANGED <<position, outstanding, moneyVars, open>>

CloseVault(s) ==
    /\ open /\ Occupied(s) /\ list[s] = "active"
    /\ list' = [list EXCEPT ![s] = "tombstone"]
    /\ activeCount' = SatSub(activeCount, 1)
    /\ vault' = [vault EXCEPT ![s].tombstoned = TRUE]
    /\ UNCHANGED <<freeStack, slabLen, shareVars, atoms, moneyVars, open>>

\* What the settings instructions have in common: they touch one vault and nothing else.
SetVault(s, settings) ==
    /\ open
    /\ vault' = [vault EXCEPT ![s] = settings]
    /\ UNCHANGED <<slabVars, shareVars, atoms, moneyVars, open>>

FreezeVault(s) ==
    Occupied(s) /\ SetVault(s, [vault[s] EXCEPT !.frozen = TRUE])
SetMinLeaderShare(s, floor) ==
    Occupied(s) /\ SetVault(s, [vault[s] EXCEPT !.floor = floor])
SetAllowOutsideDepositors(s, allow) ==
    Occupied(s) /\ SetVault(s, [vault[s] EXCEPT !.allow = allow])
SetOutsideDepositsApproved(s, approved) ==
    Occupied(s) /\ SetVault(s, [vault[s] EXCEPT !.approved = approved])

\* A quote write asks only for the quote authority's signature: a frozen, a
\* tombstoned, even a reclaimed sector still takes one.
SetReferencePrice(s, kind) ==
    InSlab(s) /\ SetVault(s, [vault[s] EXCEPT !.price = kind])

------------------------------------------------------------------------------
(* Deposits.                                                                *)

\* Both transfers in and the credit to the vault, on the fee-adjusted share supply.
TakeIn(s, paid, shares) ==
    /\ BothTreasuries
    /\ \A l \in Leg : treasury[l] + paid[l] <= MaxU64
    /\ TotalAfterFee(s) + shares <= MaxU64
    /\ treasury' = [l \in Leg |-> treasury[l] + paid[l]]
    /\ atoms' = [l \in Leg |-> [atoms[l] EXCEPT ![s] = @ + paid[l]]]
    /\ total' = [total EXCEPT ![s] = TotalAfterFee(s) + shares]
    /\ vault' = SettingsAfter(s, FALSE)

Basket(s, leg, legIn) == BasketShares(legIn, TotalAfterFee(s), atoms[leg][s])
Cost(s, shares) == [l \in Leg |-> BasketCost(shares, TotalAfterFee(s), atoms[l][s])]

\* Whether the leader's stake still covers the floor once an outsider has come in.
DepositKeepsFloor(s, shares) ==
    MinLeaderShareOk(LeaderAfterFee(s), TotalAfterFee(s) + shares, vault[s].floor)

OutstandingAfterDeposit(s, w) ==
    IF position[s][w] = 0 THEN outstanding + 1 ELSE outstanding

Anyone(w, s) == TRUE
Outsider(w, s) == vault[s].leader # w

Deposit(w, s, leg, legIn) ==
    /\ open /\ Live(s) /\ FeeProductFits(s)
    /\ Outsider(w, s)
    /\ total[s] > 0
    /\ vault[s].allow /\ vault[s].approved /\ vault[s].price # "sentinel"
    /\ legIn > 0 /\ atoms[leg][s] > 0
    /\ LET shares == Basket(s, leg, legIn) IN
       /\ shares > 0
       /\ DepositKeepsFloor(s, shares)
       /\ position[s][w] + shares <= MaxU64
       /\ TakeIn(s, Cost(s, shares), shares)
       /\ leaderShares' = [leaderShares EXCEPT ![s] = LeaderAfterFee(s)]
       /\ position' = [position EXCEPT ![s][w] = @ + shares]
       /\ outstanding' = OutstandingAfterDeposit(s, w)
    /\ UNCHANGED <<slabVars, ata, accrued, open>>

\* The first deposit into a vault is its leader's, on both legs at once.
SeedVault(s, paid) ==
    /\ open /\ Live(s)
    /\ total[s] = 0
    /\ \A l \in Leg : paid[l] > 0
    /\ LET shares == ValueOf(paid["base"], paid["quote"]) IN
       /\ LeaderAfterFee(s) + shares <= MaxU64
       /\ TakeIn(s, paid, shares)
       /\ leaderShares' = [leaderShares EXCEPT ![s] = LeaderAfterFee(s) + shares]
    /\ UNCHANGED <<slabVars, position, outstanding, ata, accrued, open>>

DepositLeader(s, leg, legIn) ==
    /\ open /\ Live(s) /\ FeeProductFits(s)
    /\ total[s] > 0
    /\ legIn > 0 /\ atoms[leg][s] > 0
    /\ LET shares == Basket(s, leg, legIn) IN
       /\ shares > 0
       /\ LeaderAfterFee(s) + shares <= MaxU64
       /\ TakeIn(s, Cost(s, shares), shares)
       /\ leaderShares' = [leaderShares EXCEPT ![s] = LeaderAfterFee(s) + shares]
    /\ UNCHANGED <<slabVars, position, outstanding, ata, accrued, open>>

------------------------------------------------------------------------------
(* Withdrawals.                                                             *)

Slice(s, shares) == [l \in Leg |-> SliceOf(shares, TotalAfterFee(s), atoms[l][s])]

DownToDust(left) == left <= 1
Emptied(left) == left = 0

\* Both transfers out, the debit to the vault, and the reclaim of a vault left empty.
PayOut(s, slice, shares) ==
    LET left    == TotalAfterFee(s) - shares
        emptied == Emptied(left)
    IN  /\ BothTreasuries
        /\ \A l \in Leg : slice[l] <= atoms[l][s] /\ slice[l] <= treasury[l]
        /\ shares <= TotalAfterFee(s)
        /\ treasury' = [l \in Leg |-> treasury[l] - slice[l]]
        /\ atoms' = [l \in Leg |-> [atoms[l] EXCEPT ![s] = @ - slice[l]]]
        /\ total' = [total EXCEPT ![s] = left]
        /\ vault' = SettingsAfter(s, emptied)
        /\ SlabAfter(s, emptied)

\* An outsider burns shares of a position; the account is closed when none are left.
OutstandingAfterExit(s, w, shares) ==
    IF position[s][w] = shares THEN SatSub(outstanding, 1) ELSE outstanding

ExitPosition(w, s, shares) ==
    /\ Occupied(s) /\ total[s] > 0 /\ FeeProductFits(s)
    /\ shares > 0 /\ position[s][w] >= shares
    /\ PayOut(s, Slice(s, shares), shares)
    /\ leaderShares' = [leaderShares EXCEPT ![s] = LeaderAfterFee(s)]
    /\ position' = [position EXCEPT ![s][w] = @ - shares]
    /\ outstanding' = OutstandingAfterExit(s, w, shares)
    /\ UNCHANGED <<ata, accrued, open>>

Withdraw(w, s, shares) ==
    open /\ Outsider(w, s) /\ ExitPosition(w, s, shares)

\* The admin's teardown of a position pays the owner, whatever state the vault is in.
ForceWithdrawDepositor(w, s) ==
    open /\ ExitPosition(w, s, position[s][w])

\* The floor binds the leader only while the vault trades and others stay in it.
WithdrawKeepsFloor(s, shares) ==
    \/ WindingDown(s)
    \/ TotalAfterFee(s) - shares = 0
    \/ MinLeaderShareOk(LeaderAfterFee(s) - shares, TotalAfterFee(s) - shares, vault[s].floor)

ExitLeader(s, shares) ==
    /\ Occupied(s) /\ total[s] > 0 /\ FeeProductFits(s)
    /\ shares > 0 /\ LeaderAfterFee(s) >= shares
    /\ PayOut(s, Slice(s, shares), shares)
    /\ leaderShares' = [leaderShares EXCEPT ![s] = LeaderAfterFee(s) - shares]
    /\ UNCHANGED <<position, outstanding, ata, accrued, open>>

WithdrawLeader(s, shares) ==
    open /\ WithdrawKeepsFloor(s, shares) /\ ExitLeader(s, shares)

ForceWithdrawLeader(s) ==
    /\ open
    /\ \/ ExitLeader(s, LeaderAfterFee(s))
       \/ /\ Occupied(s) /\ total[s] = 0 /\ BothTreasuries  \* never seeded: only reclaim it
          /\ vault' = [vault EXCEPT ![s].leader = LeaderAfter(s, TRUE)]
          /\ SlabAfter(s, TRUE)
          /\ UNCHANGED <<shareVars, atoms, moneyVars, open>>

------------------------------------------------------------------------------
(* Swaps. What a taker's order fills against which vault is decided by the  *)
(* matching engine; here any fills it could produce are applied at once: on *)
(* every filled vault at least one atom moves each way, the output within   *)
(* the vault's inventory.                                                   *)

Fillable(s) == list[s] = "active" /\ vault[s].price = "matchable" /\ ~vault[s].frozen

FillsOK(out, outs, ins) ==
    \A s \in Sectors : /\ outs[s] <= atoms[out][s]
                       /\ (outs[s] > 0) <=> (ins[s] > 0)
                       /\ outs[s] > 0 => Fillable(s)

\* The taker fee stays in the treasury; taker and platform are paid the rest.
AccruedAfter(leg, fee) == SatAdd(accrued[leg], fee)

Swap(out, outs, ins, fee, residue) ==
    LET in     == OtherLeg(out)
        netOut == SumOf(outs) - fee
        paidIn == SumOf(ins) + residue
    IN  /\ open /\ BothTreasuries
        /\ FillsOK(out, outs, ins)
        /\ SumOf(outs) > 0 /\ fee <= SumOf(outs)
        /\ treasury[in] + paidIn <= MaxU64
        /\ netOut <= treasury[out]
        /\ treasury' = [treasury EXCEPT ![in] = @ + paidIn, ![out] = @ - netOut]
        /\ atoms' = [atoms EXCEPT ![in]  = [s \in Sectors |-> @[s] + ins[s]],
                                  ![out] = [s \in Sectors |-> @[s] - outs[s]]]
        /\ accrued' = [accrued EXCEPT ![out] = AccruedAfter(out, fee)]
        /\ UNCHANGED <<vault, slabVars, shareVars, ata, open>>

------------------------------------------------------------------------------
(* Treasuries and the end of the market.                                    *)

\* Anybody may send tokens to a treasury.
Donate(leg) ==
    /\ open /\ ata[leg] /\ treasury[leg] < MaxU64
    /\ treasury' = [treasury EXCEPT ![leg] = @ + 1]
    /\ UNCHANGED <<vault, slabVars, shareVars, atoms, ata, accrued, open>>

\* What sweep_residual may take: the balance neither a vault nor the protocol fee claims.
ResidualOverFeesOnly(leg) == SatSub(treasury[leg], accrued[leg])
ResidualOverVaultsOnly(leg) == SatSub(treasury[leg], LegVaultSum(leg))
Residual(leg) == SatSub(treasury[leg], LegVaultSum(leg) + accrued[leg])

SweepResidual(leg) ==
    /\ open /\ ata[leg]
    /\ treasury' = [treasury EXCEPT ![leg] = @ - Residual(leg)]
    /\ UNCHANGED <<vault, slabVars, shareVars, atoms, ata, accrued, open>>

CanCloseOnceInactive(leg) == activeCount = 0
CanCloseTreasury(leg) == LegVaultSum(leg) = 0 /\ activeCount = 0

CloseMarketTreasury(leg) ==
    /\ open /\ ata[leg] /\ CanCloseTreasury(leg)
    /\ treasury' = [treasury EXCEPT ![leg] = 0]
    /\ accrued' = [accrued EXCEPT ![leg] = 0]
    /\ ata' = [ata EXCEPT ![leg] = FALSE]
    /\ UNCHANGED <<vault, slabVars, shareVars, atoms, open>>

\* A treasury's address is derived, so anybody may create the account again.
RecreateTreasury(leg) ==
    /\ open /\ ~ata[leg]
    /\ ata' = [ata EXCEPT ![leg] = TRUE]
    /\ UNCHANGED <<vault, slabVars, shareVars, atoms, treasury, accrued, open>>

CloseMarket ==
    /\ open /\ outstanding = 0
    /\ \A l \in Leg : ~ata[l]
    /\ open' = FALSE
    /\ UNCHANGED <<vault, slabVars, shareVars, atoms, moneyVars>>

------------------------------------------------------------------------------
Next ==
    \/ \E w \in Wallets, fee \in PerfFees, allow \in BOOLEAN : CreateVault(w, fee, allow)
    \/ \E s \in Sectors :
          \/ CloseVault(s)
          \/ FreezeVault(s)
          \/ \E floor \in FloorShares : SetMinLeaderShare(s, floor)
          \/ \E b \in BOOLEAN : SetAllowOutsideDepositors(s, b)
          \/ \E b \in BOOLEAN : SetOutsideDepositsApproved(s, b)
          \/ \E kind \in PriceKind : SetReferencePrice(s, kind)
          \/ \E paid \in [Leg -> 1 .. MaxU64] : SeedVault(s, paid)
          \/ \E l \in Leg, n \in 1 .. MaxU64 : DepositLeader(s, l, n)
          \/ \E n \in 1 .. MaxU64 : WithdrawLeader(s, n)
          \/ ForceWithdrawLeader(s)
          \/ \E w \in Wallets :
                \/ \E l \in Leg, n \in 1 .. MaxU64 : Deposit(w, s, l, n)
                \/ \E n \in 1 .. MaxU64 : Withdraw(w, s, n)
                \/ ForceWithdrawDepositor(w, s)
    \/ \E out \in Leg, outs, ins \in [Sectors -> 0 .. MaxFill],
          fee \in 0 .. MaxFill * MaxSectors, residue \in 0 .. MaxResidue :
             Swap(out, outs, ins, fee, residue)
    \/ \E l \in Leg : Donate(l) \/ SweepResidual(l) \/ CloseMarketTreasury(l) \/ RecreateTreasury(l)
    \/ CloseMarket

Spec == Init /\ [][Next]_vars

------------------------------------------------------------------------------
(* What must hold. The three ledgers first.                                 *)

\* I6 of the architecture document: a vault's total is its leader's shares plus
\* every open position's, although no instruction ever adds them up: each reads
\* the vault and at most one position account.
SharesConserved ==
    \A s \in Sectors : total[s] = leaderShares[s] + SumOf(position[s])

\* A mark is stored in 64 bits, unchecked: this says that none is cut off, so that no
\* share is worth 2^32 times what it cost. SharesConserved is proved under it: a mark
\* cut below one can mint shares past u64, where total and leader saturate apart.
MarksInRange == \A s \in Sectors : FeeMark(s) < HwmModulus

\* The market's counter of position accounts, the one thing close_market can ask
\* instead of enumerating them, is exact: across partial exits, re-entries, forced
\* exits and sectors that one vault leaves to the next.
OutstandingExact ==
    outstanding = Cardinality({x \in Sectors \X Wallets : position[x[1]][x[2]] > 0})

\* Custody: each treasury holds what all vaults and the protocol fee claim on it,
\* whatever order deposits, fills, sweeps and donations come in; so the vaults
\* never pay one another's depositors.
Custody ==
    \A l \in Leg : treasury[l] >= LegVaultSum(l) + accrued[l]

(* Sectors are reused; what a new vault finds in one.                       *)

\* A sector no vault occupies carries nothing over: no shares, no position of an
\* earlier depositor (its address does not change with the vault), no inventory.
VacantSectorsAreClean ==
    \A s \in Sectors :
        vault[s].leader = NoWallet =>
            /\ total[s] = 0 /\ leaderShares[s] = 0
            /\ \A w \in Wallets : position[s][w] = 0
            /\ \A l \in Leg : atoms[l][s] = 0

\* The lists and the leader field agree: active and tombstoned sectors are the
\* occupied ones, the free list is the rest of the slab, each sector once, and
\* active_count counts the active.
ListsMatchVaults ==
    /\ \A s \in Sectors : Occupied(s) <=> list[s] \in {"active", "tombstone"}
    /\ \A s \in Sectors : Occupied(s) => (vault[s].tombstoned <=> list[s] = "tombstone")
    /\ activeCount = Cardinality({s \in Sectors : list[s] = "active"})
    /\ {freeStack[i] : i \in DOMAIN freeStack} = {s \in Sectors : InSlab(s) /\ ~Occupied(s)}
    /\ Cardinality(DOMAIN freeStack) = Cardinality({s \in Sectors : list[s] = "free"})

\* The market moves its sectors as the slab allocator promises, whose pointers
\* VaultList models: no instruction frees a sector twice, revives a tombstone or
\* passes the cap on active vaults.
Slab == INSTANCE SectorSlab
ImplementsSlab == Slab!Spec

\* Shares and inventory vanish together: no vault with shares has been emptied of
\* both legs, none without shares keeps an atom nobody can claim.
SharesAreBacked ==
    \A s \in Sectors : total[s] = 0 <=> \A l \in Leg : atoms[l][s] = 0

LeaderIsNoDepositor(s) == position[s][vault[s].leader] = 0
UnseededMarkIsOne(s)   == total[s] = 0 => vault[s].hwm = QOne

\* A vault owes nothing to the one before it in its sector. Its leader is none of its
\* depositors, though they may have been a depositor of the one before: withdraw would
\* pay such a position no more. And until it is seeded its mark is where create_vault
\* put it, as the debug_assert in the seeding branch of deposit_leader expects: the
\* first leader's mark would tax, or shelter, the next one.
SuccessorsStartFresh ==
    \A s \in Sectors : Occupied(s) => LeaderIsNoDepositor(s) /\ UnseededMarkIsOne(s)

\* What the market remembers of its positions stays right through the reuse of sectors.
PositionsAreAccounted == OutstandingExact /\ SuccessorsStartFresh

\* Every counter keeps its width, and the lists, the leader fields and what a sector holds
\* agree on which sectors are vacant.
SectorsAreAccounted == TypeOK /\ ListsMatchVaults /\ VacantSectorsAreClean

(* Getting out, and the end of the market.                                  *)

\* A fee never eats into what depositors had at the high-water mark: after the
\* mint, the old shares are still worth at least the mark of all of them.
FeeSparesPrincipal ==
    \A s \in Sectors :
        total[s] > 0 /\ Minted(s) > 0 =>
            ValueOf(atoms["base"][s], atoms["quote"][s]) * total[s]
                >= MarkOf(vault[s].hwm, total[s]) * TotalAfterFee(s)

\* While both treasuries exist, whoever has shares can burn all of them: no flag,
\* floor, drained leg or rounding stands between a position and its slice.
\* (The fee's product fits MaxU128: a premise of the theorem, an exact bound of the run.)
EveryShareCanExit ==
    \A s \in Sectors, w \in Wallets :
        open /\ BothTreasuries /\ position[s][w] > 0 =>
            /\ Occupied(s) /\ FeeProductFits(s)
            /\ position[s][w] <= TotalAfterFee(s)
            /\ \A l \in Leg : Slice(s, position[s][w])[l] <= treasury[l]

\* Nothing is stranded: every share buys its way out, and every atom belongs to a share.
NothingIsStranded == EveryShareCanExit /\ SharesAreBacked

\* A treasury is closed under no claim, and none arises while it is closed; once
\* both are, no share is left, so a closed market has paid everybody out.
ClosedMeansPaidOut ==
    /\ \A l \in Leg : ~ata[l] => LegVaultSum(l) = 0
    /\ ~open => \A s \in Sectors :
                  /\ total[s] = 0 /\ leaderShares[s] = 0
                  /\ \A w \in Wallets : position[s][w] = 0

\* The architecture document (Frozen and tombstoned vaults): both terminal states
\* "are designed so depositors can always exit". A withdrawal names both treasuries.
WindingDownCanExit ==
    \A s \in Sectors, w \in Wallets :
        open /\ WindingDown(s) /\ position[s][w] > 0 => BothTreasuries

------------------------------------------------------------------------------
(* What no step may do.                                                     *)

HoldersChange(s) == <<leaderShares[s], position[s]>>' # <<leaderShares[s], position[s]>>

\* No deposit or withdrawal dilutes those who stay: per share, neither leg shrinks,
\* counting the fee's mint first. All roundings favour the vault.
NoDilution ==
    [][\A s \in Sectors :
          total[s] > 0 /\ total'[s] > 0 /\ HoldersChange(s) =>
              \A l \in Leg : atoms'[l][s] * TotalAfterFee(s) >= atoms[l][s] * total'[s]]_vars

\* A frozen or tombstoned vault only ever shrinks: no fee accrues to the leader of a
\* vault that winds down, whoever withdraws and however far it is above its mark.
WindingDownOnlyShrinks ==
    [][\A s \in Sectors :
          Occupied(s) /\ WindingDown(s) =>
              /\ total'[s] <= total[s] /\ leaderShares'[s] <= leaderShares[s]
              /\ vault'[s].hwm = vault[s].hwm]_vars

\* The leader's skin in the game: a trading vault whose leader covers the floor is
\* never brought below it by a deposit, a fee or a withdrawal, only by the admin
\* (a new floor, or forcing the leader out).
FloorIsKept ==
    [][\A s \in Sectors :
          \/ ForceWithdrawLeader(s)
          \/ Live(s) /\ Live(s)' /\ vault'[s].floor = vault[s].floor
             /\ MinLeaderShareOk(leaderShares[s], total[s], vault[s].floor)
             => MinLeaderShareOk(leaderShares'[s], total'[s], vault[s].floor)]_vars

\* What a vault's rules hold its leader to: nothing is gained once the vault winds down,
\* and the floor is kept while it trades.
LeaderIsBound == WindingDownOnlyShrinks /\ FloorIsKept
=============================================================================
