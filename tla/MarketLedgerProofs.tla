-------------------------- MODULE MarketLedgerProofs --------------------------
(***************************************************************************)
(* More proofs about MarketVaults: the slab's lists and the abstract slab  *)
(* they implement, the count of positions, what a reused sector holds, who *)
(* is paid at the end, and what no step may do to those who stay. As in    *)
(* MarketVaultsProofs, for every number of wallets and sectors and every   *)
(* width of the integers.                                                  *)
(***************************************************************************)
EXTENDS MarketVaultsProofs

------------------------------------------------------------------------------
(* The instructions by what they do to the ledgers. Several of them differ  *)
(* only in who may call them; the proofs below go by shape.                 *)

\* A settings instruction: one vault's flags, floor or price, never its leader, its
\* mark, its fee rate or whether it is tombstoned; a frozen vault stays frozen.
SettingsStep(s, r) ==
    /\ SetVault(s, r) /\ InSlab(s)
    /\ r.leader = vault[s].leader /\ r.hwm = vault[s].hwm
    /\ r.tombstoned = vault[s].tombstoned /\ r.perfFee = vault[s].perfFee
    /\ vault[s].frozen => r.frozen

\* Shares are bought, by the leader or by a wallet that is not the leader.
LeaderEnters(s, n) ==
    /\ leaderShares' = [leaderShares EXCEPT ![s] = LeaderAfterFee(s) + n]
    /\ LeaderAfterFee(s) + n <= MaxU64
    /\ UNCHANGED <<position, outstanding>>
OutsiderEnters(w, s, n) ==
    /\ Outsider(w, s) /\ DepositKeepsFloor(s, n)
    /\ leaderShares' = [leaderShares EXCEPT ![s] = LeaderAfterFee(s)]
    /\ position[s][w] + n <= MaxU64
    /\ position' = [position EXCEPT ![s][w] = position[s][w] + n]
    /\ outstanding' = OutstandingAfterDeposit(s, w)
EnterStep(s, paid, n) ==
    /\ open /\ Live(s) /\ TakeIn(s, paid, n)
    /\ \E l \in Leg : atoms[l][s] + paid[l] > 0
    /\ total[s] > 0 => paid = Cost(s, n)
    /\ UNCHANGED <<slabVars, ata, accrued, open>>
    /\ LeaderEnters(s, n) \/ (total[s] > 0 /\ \E w \in Wallets : OutsiderEnters(w, s, n))

\* Shares are burned, by the leader, freely or forced out, or off a position.
LeaderLeaves(s, n) ==
    /\ LeaderAfterFee(s) >= n
    /\ leaderShares' = [leaderShares EXCEPT ![s] = LeaderAfterFee(s) - n]
    /\ UNCHANGED <<position, outstanding>>
OutsiderLeaves(w, s, n) ==
    /\ position[s][w] >= n
    /\ leaderShares' = [leaderShares EXCEPT ![s] = LeaderAfterFee(s)]
    /\ position' = [position EXCEPT ![s][w] = position[s][w] - n]
    /\ outstanding' = OutstandingAfterExit(s, w, n)
ExitStep(s, n) ==
    /\ open /\ Occupied(s) /\ total[s] > 0 /\ n <= TotalAfterFee(s)
    /\ PayOut(s, Slice(s, n), n)
    /\ UNCHANGED <<ata, accrued, open>>
    /\ \/ LeaderLeaves(s, n) /\ (WithdrawKeepsFloor(s, n) \/ ForceWithdrawLeader(s))
       \/ \E w \in Wallets : OutsiderLeaves(w, s, n)

\* The admin reclaims the sector of a leader who never seeded it.
EvictStep(s) ==
    /\ open /\ Occupied(s) /\ total[s] = 0 /\ BothTreasuries
    /\ vault' = [vault EXCEPT ![s].leader = NoWallet]
    /\ SlabAfter(s, TRUE)
    /\ UNCHANGED <<shareVars, atoms, moneyVars, open>>

\* The treasuries move, the vaults do not.
TreasuryStep(l) == Donate(l) \/ SweepResidual(l) \/ CloseMarketTreasury(l) \/ RecreateTreasury(l)

\* A swap whose fills and fee are of their types.
SwapStep ==
    \E out \in Leg, outs, ins \in [Sectors -> 0 .. MaxFill],
       fee \in 0 .. MaxFill * MaxSectors, residue \in 0 .. MaxResidue :
         Swap(out, outs, ins, fee, residue)

\* A settings instruction keeps what SettingsStep says it keeps.
LEMMA SettingsShape ==
    ASSUME TypeOK, NEW s \in Sectors,
           \/ FreezeVault(s)
           \/ \E floor \in FloorShares : SetMinLeaderShare(s, floor)
           \/ \E b \in BOOLEAN : SetAllowOutsideDepositors(s, b)
           \/ \E b \in BOOLEAN : SetOutsideDepositsApproved(s, b)
           \/ \E kind \in PriceKind : SetReferencePrice(s, kind)
    PROVE  \E r \in VaultSettings : SettingsStep(s, r)
<1>1. vault[s] \in VaultSettings
  BY DEF TypeOK
<1>2. CASE FreezeVault(s)
  <2>1. [vault[s] EXCEPT !.frozen = TRUE] \in VaultSettings
    BY <1>1 DEF VaultSettings
  <2>2. SettingsStep(s, [vault[s] EXCEPT !.frozen = TRUE])
    BY <1>1, <1>2 DEF FreezeVault, SettingsStep, Occupied, VaultSettings
  <2>3. QED
    BY <2>1, <2>2
<1>3. ASSUME NEW floor \in FloorShares, SetMinLeaderShare(s, floor)
      PROVE  \E r \in VaultSettings : SettingsStep(s, r)
  <2>1. [vault[s] EXCEPT !.floor = floor] \in VaultSettings
    BY <1>1, RateAssumption DEF VaultSettings
  <2>2. SettingsStep(s, [vault[s] EXCEPT !.floor = floor])
    BY <1>1, <1>3 DEF SetMinLeaderShare, SettingsStep, Occupied, VaultSettings
  <2>3. QED
    BY <2>1, <2>2
<1>4. ASSUME NEW b \in BOOLEAN, SetAllowOutsideDepositors(s, b)
      PROVE  \E r \in VaultSettings : SettingsStep(s, r)
  <2>1. [vault[s] EXCEPT !.allow = b] \in VaultSettings
    BY <1>1 DEF VaultSettings
  <2>2. SettingsStep(s, [vault[s] EXCEPT !.allow = b])
    BY <1>1, <1>4 DEF SetAllowOutsideDepositors, SettingsStep, Occupied, VaultSettings
  <2>3. QED
    BY <2>1, <2>2
<1>5. ASSUME NEW b \in BOOLEAN, SetOutsideDepositsApproved(s, b)
      PROVE  \E r \in VaultSettings : SettingsStep(s, r)
  <2>1. [vault[s] EXCEPT !.approved = b] \in VaultSettings
    BY <1>1 DEF VaultSettings
  <2>2. SettingsStep(s, [vault[s] EXCEPT !.approved = b])
    BY <1>1, <1>5 DEF SetOutsideDepositsApproved, SettingsStep, Occupied, VaultSettings
  <2>3. QED
    BY <2>1, <2>2
<1>6. ASSUME NEW kind \in PriceKind, SetReferencePrice(s, kind)
      PROVE  \E r \in VaultSettings : SettingsStep(s, r)
  <2>1. [vault[s] EXCEPT !.price = kind] \in VaultSettings
    BY <1>1 DEF VaultSettings
  <2>2. SettingsStep(s, [vault[s] EXCEPT !.price = kind])
    BY <1>1, <1>6 DEF SetReferencePrice, SettingsStep, VaultSettings
  <2>3. QED
    BY <2>1, <2>2
<1>7. QED
  BY <1>2, <1>3, <1>4, <1>5, <1>6

\* Every deposit has the shape of EnterStep: it buys at least one share, into a vault
\* left with an atom.
LEMMA EnterShape ==
    ASSUME TypeOK, NEW s \in Sectors,
           \/ \E paid \in [Leg -> 1 .. MaxU64] : SeedVault(s, paid)
           \/ \E l \in Leg, n \in 1 .. MaxU64 : DepositLeader(s, l, n)
           \/ \E l \in Leg, n \in 1 .. MaxU64, w \in Wallets : Deposit(w, s, l, n)
    PROVE  \E n \in Nat, paid \in [Leg -> Nat] : n > 0 /\ EnterStep(s, paid, n)
<1>1. ASSUME NEW paid \in [Leg -> 1 .. MaxU64], SeedVault(s, paid)
      PROVE  \E n \in Nat, p \in [Leg -> Nat] : n > 0 /\ EnterStep(s, p, n)
  <2> DEFINE n == ValueOf(paid["base"], paid["quote"])
  <2>1. /\ paid \in [Leg -> Nat] /\ \A l \in Leg : atoms[l][s] \in Nat
        /\ paid["base"] \in Nat /\ paid["base"] > 0
        /\ paid["quote"] \in Nat /\ paid["quote"] > 0
    BY SizeAssumption, U64Assumption DEF Leg, TypeOK
  <2>2. paid["base"] * paid["quote"] \in Nat /\ paid["base"] * paid["quote"] > 0
    BY <2>1, TimesPositive
  <2>3. n \in Nat /\ n > 0
    BY <2>2, IsqrtType, IsqrtPositive DEF ValueOf
  <2> HIDE DEF n
  <2>4. open /\ Live(s) /\ TakeIn(s, paid, n) /\ total[s] = 0 /\ LeaderEnters(s, n)
    BY <1>1 DEF SeedVault, LeaderEnters, n
  <2>5. "base" \in Leg /\ atoms["base"][s] + paid["base"] > 0
    BY <2>1 DEF Leg
  <2>6. EnterStep(s, paid, n)
    BY <1>1, <2>4, <2>5 DEF EnterStep, SeedVault
  <2>7. QED
    BY <2>1, <2>3, <2>6
<1>2. ASSUME NEW l \in Leg, NEW k \in 1 .. MaxU64,
             DepositLeader(s, l, k) \/ \E w \in Wallets : Deposit(w, s, l, k)
      PROVE  \E n \in Nat, p \in [Leg -> Nat] : n > 0 /\ EnterStep(s, p, n)
  <2> DEFINE n == Basket(s, l, k)
             paid == Cost(s, n)
  <2>1. /\ open /\ Live(s) /\ total[s] > 0 /\ atoms[l][s] > 0 /\ n > 0 /\ TakeIn(s, paid, n)
        /\ UNCHANGED <<slabVars, ata, accrued, open>>
    BY <1>2 DEF DepositLeader, Deposit
  <2>2. k \in Nat /\ n \in Nat
    BY <2>1, BasketType, SizeAssumption, U64Assumption
  <2>3. LeaderEnters(s, n) \/ \E w \in Wallets : OutsiderEnters(w, s, n)
    BY <1>2 DEF DepositLeader, Deposit, LeaderEnters, OutsiderEnters
  <2> HIDE DEF n
  <2>4. paid \in [Leg -> Nat]
    BY <2>1, <2>2, CostType
  <2> HIDE DEF paid
  <2>5. atoms[l][s] \in Nat /\ paid[l] \in Nat
    BY <2>4 DEF TypeOK
  <2>6. atoms[l][s] + paid[l] > 0
    BY <2>1, <2>5
  <2>7. EnterStep(s, paid, n)
    BY <2>1, <2>3, <2>6 DEF EnterStep, paid
  <2>8. QED
    BY <2>1, <2>2, <2>4, <2>7
<1>3. QED
  BY <1>1, <1>2

\* Every withdrawal that burns shares has the shape of ExitStep.
LEMMA ExitShape ==
    ASSUME TypeOK, NEW s \in Sectors,
           \/ \E n \in 1 .. MaxU64 : WithdrawLeader(s, n)
           \/ \E w \in Wallets, n \in 1 .. MaxU64 : Withdraw(w, s, n)
           \/ \E w \in Wallets : ForceWithdrawDepositor(w, s)
           \/ ForceWithdrawLeader(s)
    PROVE  EvictStep(s) \/ \E n \in Nat : n > 0 /\ ExitStep(s, n)
<1>1. /\ LeaderAfterFee(s) \in Nat
      /\ \A n \in 1 .. MaxU64 : n \in Nat
      /\ \A w \in Wallets : position[s][w] \in Nat
  BY FeeOfVault, SizeAssumption, U64Assumption DEF TypeOK
<1>2. ASSUME NEW n \in Nat, NEW w \in Wallets, open, ExitPosition(w, s, n)
      PROVE  n > 0 /\ ExitStep(s, n)
  <2>1. /\ Occupied(s) /\ total[s] > 0 /\ n > 0 /\ PayOut(s, Slice(s, n), n)
        /\ OutsiderLeaves(w, s, n) /\ UNCHANGED <<ata, accrued, open>>
    BY <1>2 DEF ExitPosition, OutsiderLeaves
  <2>2. n <= TotalAfterFee(s)
    BY <2>1 DEF PayOut
  <2>3. QED
    BY <1>2, <2>1, <2>2 DEF ExitStep
<1>3. ASSUME NEW n \in Nat, open, ExitLeader(s, n),
             WithdrawKeepsFloor(s, n) \/ ForceWithdrawLeader(s)
      PROVE  n > 0 /\ ExitStep(s, n)
  <2>1. /\ Occupied(s) /\ total[s] > 0 /\ n > 0 /\ PayOut(s, Slice(s, n), n)
        /\ LeaderLeaves(s, n) /\ UNCHANGED <<ata, accrued, open>>
    BY <1>3 DEF ExitLeader, LeaderLeaves
  <2>2. n <= TotalAfterFee(s)
    BY <2>1 DEF PayOut
  <2>3. QED
    BY <1>3, <2>1, <2>2 DEF ExitStep
<1>4. CASE \E n \in 1 .. MaxU64 : WithdrawLeader(s, n)
  BY <1>1, <1>3, <1>4 DEF WithdrawLeader
<1>5. CASE \E w \in Wallets, n \in 1 .. MaxU64 : Withdraw(w, s, n)
  BY <1>1, <1>2, <1>5 DEF Withdraw
<1>6. CASE \E w \in Wallets : ForceWithdrawDepositor(w, s)
  BY <1>1, <1>2, <1>6 DEF ForceWithdrawDepositor
<1>7. CASE ForceWithdrawLeader(s)
  <2>1. open
    BY <1>7 DEF ForceWithdrawLeader
  <2>2. CASE ExitLeader(s, LeaderAfterFee(s))
    BY <1>1, <1>3, <1>7, <2>1, <2>2
  <2>3. CASE ~ExitLeader(s, LeaderAfterFee(s))
    BY <1>7, <2>3 DEF ForceWithdrawLeader, EvictStep, LeaderAfter
  <2>4. QED
    BY <2>2, <2>3
<1>8. QED
  BY <1>4, <1>5, <1>6, <1>7

\* Every step is of one of the shapes.
LEMMA NextShape ==
    ASSUME TypeOK, [Next]_vars
    PROVE  \/ \E w \in Wallets, fee \in PerfFees, allow \in BOOLEAN : CreateVault(w, fee, allow)
           \/ \E s \in Sectors : CloseVault(s)
           \/ \E s \in Sectors, r \in VaultSettings : SettingsStep(s, r)
           \/ \E s \in Sectors, n \in Nat, paid \in [Leg -> Nat] : n > 0 /\ EnterStep(s, paid, n)
           \/ \E s \in Sectors, n \in Nat : n > 0 /\ ExitStep(s, n)
           \/ \E s \in Sectors : EvictStep(s)
           \/ SwapStep
           \/ \E l \in Leg : TreasuryStep(l)
           \/ CloseMarket
           \/ UNCHANGED vars
<1>1. ASSUME NEW s \in Sectors,
             \/ FreezeVault(s)
             \/ \E floor \in FloorShares : SetMinLeaderShare(s, floor)
             \/ \E b \in BOOLEAN : SetAllowOutsideDepositors(s, b)
             \/ \E b \in BOOLEAN : SetOutsideDepositsApproved(s, b)
             \/ \E kind \in PriceKind : SetReferencePrice(s, kind)
      PROVE  \E r \in VaultSettings : SettingsStep(s, r)
  BY <1>1, SettingsShape
<1>2. ASSUME NEW s \in Sectors,
             \/ \E paid \in [Leg -> 1 .. MaxU64] : SeedVault(s, paid)
             \/ \E l \in Leg, n \in 1 .. MaxU64 : DepositLeader(s, l, n)
             \/ \E l \in Leg, n \in 1 .. MaxU64, w \in Wallets : Deposit(w, s, l, n)
      PROVE  \E n \in Nat, paid \in [Leg -> Nat] : n > 0 /\ EnterStep(s, paid, n)
  BY <1>2, EnterShape
<1>3. ASSUME NEW s \in Sectors,
             \/ \E n \in 1 .. MaxU64 : WithdrawLeader(s, n)
             \/ \E w \in Wallets, n \in 1 .. MaxU64 : Withdraw(w, s, n)
             \/ \E w \in Wallets : ForceWithdrawDepositor(w, s)
             \/ ForceWithdrawLeader(s)
      PROVE  EvictStep(s) \/ \E n \in Nat : n > 0 /\ ExitStep(s, n)
  BY <1>3, ExitShape
<1>4. QED
  BY <1>1, <1>2, <1>3 DEF Next, SwapStep, TreasuryStep

------------------------------------------------------------------------------
(* Backing: shares and atoms vanish together. Inductive with the types.     *)

\* What a purchase does to one vault, and that it does nothing to any other.
LEMMA EnterEffect ==
    ASSUME TypeOK, NEW s \in Sectors, NEW n \in Nat, n > 0, NEW paid \in [Leg -> Nat],
           EnterStep(s, paid, n)
    PROVE  /\ total'[s] = TotalAfterFee(s) + n /\ total'[s] \in Nat /\ total'[s] > 0
           /\ TotalAfterFee(s) \in Nat /\ TotalAfterFee(s) + n <= MaxU64
           /\ \A l \in Leg : atoms'[l][s] = atoms[l][s] + paid[l]
           /\ vault'[s].leader = vault[s].leader /\ vault'[s].hwm = MarkAfterFee(s)
           /\ vault'[s].frozen = vault[s].frozen /\ vault'[s].tombstoned = vault[s].tombstoned
           /\ vault'[s].floor = vault[s].floor
           /\ \A x \in Sectors : x # s => /\ total'[x] = total[x] /\ vault'[x] = vault[x]
                                          /\ leaderShares'[x] = leaderShares[x]
                                          /\ position'[x] = position[x]
                                          /\ \A l \in Leg : atoms'[l][x] = atoms[l][x]
<1>1. TakeIn(s, paid, n)
  BY DEF EnterStep
<1>2. TotalAfterFee(s) \in Nat
  BY FeeOfVault, SizeAssumption, U64Assumption
<1>3. /\ total' = [total EXCEPT ![s] = TotalAfterFee(s) + n] /\ TotalAfterFee(s) + n <= MaxU64
      /\ vault' = SettingsAfter(s, FALSE)
      /\ \A l \in Leg : atoms'[l] = [atoms[l] EXCEPT ![s] = atoms[l][s] + paid[l]]
  BY <1>1 DEF TakeIn, TypeOK
<1>4. /\ vault'[s].leader = vault[s].leader /\ vault'[s].hwm = MarkAfterFee(s)
      /\ vault'[s].frozen = vault[s].frozen /\ vault'[s].tombstoned = vault[s].tombstoned
      /\ vault'[s].floor = vault[s].floor
      /\ \A x \in Sectors : x # s => vault'[x] = vault[x]
  BY <1>3 DEF SettingsAfter, LeaderAfter, TypeOK, VaultSettings
<1>5. total'[s] = TotalAfterFee(s) + n /\ \A x \in Sectors : x # s => total'[x] = total[x]
  BY <1>3 DEF TypeOK
<1>6. \A l \in Leg : /\ atoms'[l][s] = atoms[l][s] + paid[l]
                     /\ \A x \in Sectors : x # s => atoms'[l][x] = atoms[l][x]
  <2>1. \A l \in Leg : atoms[l] \in [Sectors -> Nat]
    BY DEF TypeOK
  <2>2. QED
    BY <1>3, <2>1
<1>7. \A x \in Sectors : x # s => /\ leaderShares'[x] = leaderShares[x]
                                  /\ position'[x] = position[x]
  <2>1. CASE LeaderEnters(s, n)
    BY <2>1 DEF LeaderEnters, TypeOK
  <2>2. ASSUME NEW w \in Wallets, OutsiderEnters(w, s, n)
        PROVE  \A x \in Sectors : x # s => /\ leaderShares'[x] = leaderShares[x]
                                           /\ position'[x] = position[x]
    BY <2>2 DEF OutsiderEnters, TypeOK
  <2>3. QED
    BY <2>1, <2>2 DEF EnterStep
<1>8. total'[s] \in Nat /\ total'[s] > 0
  BY <1>2, <1>5
<1>9. QED
  BY <1>2, <1>3, <1>4, <1>5, <1>6, <1>7, <1>8

\* What a withdrawal does to one vault, and that it does nothing to any other.
LEMMA ExitEffect ==
    ASSUME TypeOK, NEW s \in Sectors, NEW n \in Nat, n > 0, ExitStep(s, n)
    PROVE  /\ total'[s] = TotalAfterFee(s) - n /\ total'[s] \in Nat
           /\ TotalAfterFee(s) \in Nat /\ TotalAfterFee(s) > 0
           /\ \A l \in Leg : /\ atoms'[l][s] = atoms[l][s] - SliceOf(n, TotalAfterFee(s), atoms[l][s])
                             /\ SliceOf(n, TotalAfterFee(s), atoms[l][s]) \in 0 .. atoms[l][s]
           /\ vault'[s].leader = (IF total'[s] = 0 THEN NoWallet ELSE vault[s].leader)
           /\ vault'[s].hwm = MarkAfterFee(s)
           /\ vault'[s].frozen = vault[s].frozen /\ vault'[s].tombstoned = vault[s].tombstoned
           /\ vault'[s].floor = vault[s].floor
           /\ SlabAfter(s, total'[s] = 0)
           /\ \A x \in Sectors : x # s => /\ total'[x] = total[x] /\ vault'[x] = vault[x]
                                          /\ leaderShares'[x] = leaderShares[x]
                                          /\ position'[x] = position[x]
                                          /\ \A l \in Leg : atoms'[l][x] = atoms[l][x]
<1> DEFINE left    == TotalAfterFee(s) - n
           emptied == Emptied(left)
<1>1. PayOut(s, Slice(s, n), n) /\ total[s] > 0 /\ n <= TotalAfterFee(s)
  BY DEF ExitStep
<1>2. TotalAfterFee(s) \in Nat /\ TotalAfterFee(s) > 0 /\ n \in 0 .. TotalAfterFee(s)
  BY <1>1, FeeOfVault, SizeAssumption, U64Assumption
<1>3. /\ total' = [total EXCEPT ![s] = left]
      /\ vault' = SettingsAfter(s, emptied)
      /\ SlabAfter(s, emptied)
  BY <1>1 DEF PayOut
<1>4. \A l \in Leg : atoms'[l] = [atoms[l] EXCEPT ![s] = atoms[l][s] - Slice(s, n)[l]]
  BY <1>1 DEF PayOut, TypeOK
<1>5. ASSUME NEW l \in Leg
      PROVE  /\ Slice(s, n)[l] = SliceOf(n, TotalAfterFee(s), atoms[l][s])
             /\ SliceOf(n, TotalAfterFee(s), atoms[l][s]) \in 0 .. atoms[l][s]
  <2>1. atoms[l][s] \in Nat
    BY DEF TypeOK
  <2>2. QED
    BY <1>2, <2>1, SliceFits DEF Slice
<1>6. total'[s] = left /\ \A x \in Sectors : x # s => total'[x] = total[x]
  BY <1>3 DEF TypeOK
<1>7. emptied <=> total'[s] = 0
  BY <1>6 DEF Emptied
<1> HIDE DEF emptied
<1>8. /\ vault'[s].leader = LeaderAfter(s, emptied) /\ vault'[s].hwm = MarkAfterFee(s)
      /\ vault'[s].frozen = vault[s].frozen /\ vault'[s].tombstoned = vault[s].tombstoned
      /\ vault'[s].floor = vault[s].floor
      /\ \A x \in Sectors : x # s => vault'[x] = vault[x]
  BY <1>3 DEF SettingsAfter, TypeOK, VaultSettings
<1>9. \A l \in Leg : /\ atoms'[l][s] = atoms[l][s] - Slice(s, n)[l]
                     /\ \A x \in Sectors : x # s => atoms'[l][x] = atoms[l][x]
  <2>1. \A l \in Leg : atoms[l] \in [Sectors -> Nat]
    BY DEF TypeOK
  <2>2. QED
    BY <1>4, <2>1
<1>10. \A x \in Sectors : x # s => /\ leaderShares'[x] = leaderShares[x]
                                   /\ position'[x] = position[x]
  BY DEF ExitStep, LeaderLeaves, OutsiderLeaves, TypeOK
<1>11. SlabAfter(s, total'[s] = 0)
  <2>1. emptied = (total'[s] = 0)
    BY <1>7 DEF emptied, Emptied
  <2>2. QED
    BY <1>3, <2>1
<1>12. vault'[s].leader = (IF total'[s] = 0 THEN NoWallet ELSE vault[s].leader)
  BY <1>7, <1>8 DEF LeaderAfter
<1>13. QED
  BY <1>2, <1>5, <1>6, <1>8, <1>9, <1>10, <1>11, <1>12

\* What create_vault does to the sector it is given, and that it does nothing to any other.
LEMMA CreateEffect ==
    ASSUME TypeOK, NEW w \in Wallets, NEW fee \in PerfFees, NEW allow \in BOOLEAN,
           CreateVault(w, fee, allow)
    PROVE  /\ NextSector \in Sectors
           /\ vault'[NextSector].leader = w /\ w # NoWallet /\ vault'[NextSector].hwm = QOne
           /\ vault'[NextSector].tombstoned = FALSE
           /\ total'[NextSector] = 0 /\ leaderShares'[NextSector] = 0
           /\ \A l \in Leg : /\ atoms'[l][NextSector] = 0
                             /\ atoms'[l] = [atoms[l] EXCEPT ![NextSector] = 0]
           /\ list' = [list EXCEPT ![NextSector] = "active"]
           /\ \A x \in Sectors :
                 x # NextSector => /\ total'[x] = total[x] /\ vault'[x] = vault[x]
                                   /\ leaderShares'[x] = leaderShares[x]
                                   /\ \A l \in Leg : atoms'[l][x] = atoms[l][x]
<1> DEFINE s == NextSector
<1>1. s \in Sectors
  BY NextSectorType DEF CreateVault
<1>2. /\ vault' = [vault EXCEPT ![s] = [ZeroedVault EXCEPT !.leader = w, !.perfFee = fee,
                      !.floor = DefaultFloor, !.hwm = QOne, !.allow = allow]]
      /\ total' = [total EXCEPT ![s] = 0] /\ leaderShares' = [leaderShares EXCEPT ![s] = 0]
      /\ \A l \in Leg : atoms'[l] = [atoms[l] EXCEPT ![s] = 0]
      /\ list' = [list EXCEPT ![s] = "active"]
  BY DEF CreateVault
<1> HIDE DEF s
<1>3. /\ vault'[s] = [ZeroedVault EXCEPT !.leader = w, !.perfFee = fee,
                        !.floor = DefaultFloor, !.hwm = QOne, !.allow = allow]
      /\ \A x \in Sectors : x # s => vault'[x] = vault[x]
  BY <1>1, <1>2 DEF TypeOK
<1>4. /\ vault'[s].leader = w /\ vault'[s].hwm = QOne /\ vault'[s].tombstoned = FALSE
  BY <1>3 DEF ZeroedVault
<1>5. w # NoWallet
  BY WalletAssumption
<1>6. /\ total'[s] = 0 /\ leaderShares'[s] = 0 /\ \A l \in Leg : atoms'[l][s] = 0
      /\ \A x \in Sectors : x # s => /\ total'[x] = total[x]
                                     /\ leaderShares'[x] = leaderShares[x]
                                     /\ \A l \in Leg : atoms'[l][x] = atoms[l][x]
  <2>1. \A l \in Leg : atoms[l] \in [Sectors -> Nat]
    BY DEF TypeOK
  <2>2. /\ \A l \in Leg : /\ atoms'[l][s] = 0
                         /\ \A x \in Sectors : x # s => atoms'[l][x] = atoms[l][x]
    BY <1>1, <1>2, <2>1
  <2>3. QED
    BY <1>1, <1>2, <2>2 DEF TypeOK
<1>7. QED
  BY <1>1, <1>2, <1>3, <1>4, <1>5, <1>6 DEF s

\* A swap that takes atoms off a vault puts some on its other leg; the vaults it leaves
\* alone keep theirs, and no vault's shares or settings move.
LEMMA SwapEffect ==
    ASSUME TypeOK, SwapStep
    PROVE  /\ UNCHANGED <<vault, slabVars, shareVars, ata, open>>
           /\ open /\ BothTreasuries
           /\ \A s \in Sectors :
                 \/ \A l \in Leg : atoms'[l][s] = atoms[l][s]
                 \/ /\ \E l \in Leg : atoms[l][s] > 0
                    /\ \E l \in Leg : atoms'[l][s] > 0
<1>1. PICK out \in Leg, outs \in [Sectors -> 0 .. MaxFill], ins \in [Sectors -> 0 .. MaxFill],
           fee \in 0 .. MaxFill * MaxSectors, residue \in 0 .. MaxResidue :
             Swap(out, outs, ins, fee, residue)
  BY DEF SwapStep
<1>2. UNCHANGED <<vault, slabVars, shareVars, ata, open>> /\ open /\ BothTreasuries
  BY <1>1 DEF Swap
<1> DEFINE in == OtherLeg(out)
<1>3. in \in Leg /\ in # out /\ \A l \in Leg : l = in \/ l = out
  BY DEF Leg, OtherLeg
<1>4. FillsOK(out, outs, ins)
  BY <1>1 DEF Swap
<1>5. atoms' = [atoms EXCEPT ![in]  = [s \in Sectors |-> atoms[in][s] + ins[s]],
                             ![out] = [s \in Sectors |-> atoms[out][s] - outs[s]]]
  BY <1>1, <1>3 DEF Swap, TypeOK
<1> HIDE DEF in
<1>6. \A s \in Sectors : /\ atoms'[in][s] = atoms[in][s] + ins[s]
                         /\ atoms'[out][s] = atoms[out][s] - outs[s]
  BY <1>3, <1>5 DEF TypeOK
<1>7. ASSUME NEW s \in Sectors
      PROVE  \/ \A l \in Leg : atoms'[l][s] = atoms[l][s]
             \/ /\ \E l \in Leg : atoms[l][s] > 0
                /\ \E l \in Leg : atoms'[l][s] > 0
  <2>1. atoms[in][s] \in Nat /\ atoms[out][s] \in Nat
    BY <1>3 DEF TypeOK
  <2>2. /\ outs[s] \in Nat /\ ins[s] \in Nat /\ outs[s] <= atoms[out][s]
        /\ (outs[s] > 0) <=> (ins[s] > 0)
    BY <1>4, SizeAssumption, U64Assumption DEF FillsOK
  <2>3. CASE outs[s] = 0
    <3>1. ins[s] = 0
      BY <2>2, <2>3
    <3>2. atoms'[in][s] = atoms[in][s] /\ atoms'[out][s] = atoms[out][s]
      BY <1>6, <2>1, <2>3, <3>1
    <3>3. QED
      BY <1>3, <3>2
  <2>4. CASE outs[s] > 0
    <3>1. atoms[out][s] > 0 /\ ins[s] > 0
      BY <2>1, <2>2, <2>4
    <3>2. atoms'[in][s] > 0
      BY <1>6, <2>1, <2>2, <3>1
    <3>3. QED
      BY <1>3, <3>1, <3>2
  <2>5. QED
    BY <2>2, <2>3, <2>4
<1>8. QED
  BY <1>2, <1>7

\* Every instruction keeps shares and inventory together.
LEMMA BackedStep == TypeOK /\ SharesAreBacked /\ [Next]_vars => SharesAreBacked'
<1> SUFFICES ASSUME TypeOK, SharesAreBacked, [Next]_vars, NEW x \in Sectors
             PROVE  total'[x] = 0 <=> \A l \in Leg : atoms'[l][x] = 0
  BY DEF SharesAreBacked
<1>1. /\ total[x] = 0 <=> \A l \in Leg : atoms[l][x] = 0
      /\ total[x] \in Nat /\ \A l \in Leg : atoms[l][x] \in Nat
  BY SizeAssumption, U64Assumption DEF SharesAreBacked, TypeOK
<1>2. ASSUME total'[x] = total[x], \A l \in Leg : atoms'[l][x] = atoms[l][x]
      PROVE  total'[x] = 0 <=> \A l \in Leg : atoms'[l][x] = 0
  BY <1>1, <1>2
<1>3. ASSUME NEW w \in Wallets, NEW fee \in PerfFees, NEW allow \in BOOLEAN,
             CreateVault(w, fee, allow)
      PROVE  total'[x] = 0 <=> \A l \in Leg : atoms'[l][x] = 0
  <2>1. CASE x = NextSector
    BY <1>3, <2>1, CreateEffect
  <2>2. CASE x # NextSector
    BY <1>2, <1>3, <2>2, CreateEffect
  <2>3. QED
    BY <2>1, <2>2
<1>4. ASSUME NEW s \in Sectors, NEW n \in Nat, n > 0, NEW paid \in [Leg -> Nat],
             EnterStep(s, paid, n)
      PROVE  total'[x] = 0 <=> \A l \in Leg : atoms'[l][x] = 0
  <2>1. CASE x = s
    <3>1. total'[x] > 0 /\ total'[x] \in Nat
      BY <1>4, <2>1, EnterEffect
    <3>2. PICK l \in Leg : atoms[l][s] + paid[l] > 0
      BY <1>4 DEF EnterStep
    <3>3. atoms'[l][x] > 0
      BY <1>4, <2>1, <3>2, EnterEffect
    <3>4. QED
      BY <3>1, <3>3
  <2>2. CASE x # s
    BY <1>2, <1>4, <2>2, EnterEffect
  <2>3. QED
    BY <2>1, <2>2
<1>5. ASSUME NEW s \in Sectors, NEW n \in Nat, n > 0, ExitStep(s, n)
      PROVE  total'[x] = 0 <=> \A l \in Leg : atoms'[l][x] = 0
  <2>1. CASE x # s
    BY <1>2, <1>5, <2>1, ExitEffect
  <2>2. CASE x = s
    <3> DEFINE T == TotalAfterFee(s)
    <3>1. /\ total'[x] = T - n /\ total'[x] \in Nat /\ T \in Nat /\ T > 0
          /\ \A l \in Leg : /\ atoms'[l][x] = atoms[l][x] - SliceOf(n, T, atoms[l][x])
                            /\ SliceOf(n, T, atoms[l][x]) \in 0 .. atoms[l][x]
      BY <1>5, <2>2, ExitEffect
    <3> HIDE DEF T
    <3>2. CASE n = T
      <4>1. \A l \in Leg : SliceOf(n, T, atoms[l][x]) = atoms[l][x]
        BY <1>1, <3>1, <3>2, SliceOfAll
      <4>2. total'[x] = 0 /\ \A l \in Leg : atoms'[l][x] = 0
        BY <1>1, <3>1, <3>2, <4>1
      <4>3. QED
        BY <4>2
    <3>3. CASE n # T
      <4>1. n < T /\ total'[x] > 0
        BY <1>5, <3>1, <3>3
      <4>2. total[x] > 0
        BY <1>5, <2>2 DEF ExitStep
      <4>3. PICK l \in Leg : atoms[l][x] > 0
        BY <1>1, <4>2
      <4>4. SliceOf(n, T, atoms[l][x]) < atoms[l][x]
        BY <1>1, <3>1, <4>1, <4>3, SliceLeaves
      <4>5. atoms'[l][x] > 0
        BY <1>1, <3>1, <4>4
      <4>6. QED
        BY <4>1, <4>5
    <3>4. QED
      BY <3>2, <3>3
  <2>3. QED
    BY <2>1, <2>2
<1>6. CASE SwapStep
  <2>1. total'[x] = total[x]
    BY <1>6, SwapEffect DEF shareVars
  <2>2. CASE \A l \in Leg : atoms'[l][x] = atoms[l][x]
    BY <1>2, <2>1, <2>2
  <2>3. CASE /\ \E l \in Leg : atoms[l][x] > 0
             /\ \E l \in Leg : atoms'[l][x] > 0
    BY <1>1, <2>1, <2>3
  <2>4. QED
    BY <1>6, <2>2, <2>3, SwapEffect
<1>7. ASSUME UNCHANGED <<total, atoms>>
      PROVE  total'[x] = 0 <=> \A l \in Leg : atoms'[l][x] = 0
  BY <1>2, <1>7
<1>8. ASSUME NEW s \in Sectors,
             CloseVault(s) \/ EvictStep(s) \/ \E r \in VaultSettings : SettingsStep(s, r)
      PROVE  UNCHANGED <<total, atoms>>
  BY <1>8 DEF CloseVault, EvictStep, SettingsStep, SetVault, shareVars
<1>9. ASSUME CloseMarket \/ UNCHANGED vars \/ \E l \in Leg : TreasuryStep(l)
      PROVE  UNCHANGED <<total, atoms>>
  BY <1>9 DEF CloseMarket, vars, shareVars, TreasuryStep, Donate, SweepResidual,
              CloseMarketTreasury, RecreateTreasury
<1>10. QED
  BY <1>3, <1>4, <1>5, <1>6, <1>7, <1>8, <1>9, NextShape

\* Nothing is stranded in a vault, and no share is worth nothing: in every reachable state
\* of any market a vault has shares exactly while it has atoms.
THEOREM BackingHolds == Spec => []SharesAreBacked
<1>1. Init => SharesAreBacked
  BY DEF Init, SharesAreBacked, Leg
<1>2. QED
  BY <1>1, BackedStep, TypeCorrect, PTL DEF Spec

------------------------------------------------------------------------------
(* The slab. The lists, the leader fields, the free stack and the active    *)
(* count agree; this is inductive without any premise on the marks. The     *)
(* free list as a sequence has to be known without repetition and to hold   *)
(* every free sector, or the next vault could be created on an occupied     *)
(* one; the count has to be exact, or its saturating decrement would not    *)
(* be a decrement.                                                          *)

\* The sectors on a list.
On(l) == {s \in Sectors : list[s] = l}

\* Lists and leader fields agree, and a tombstone is on the tombstone list.
SectorsMatch ==
    \A s \in Sectors :
        /\ list[s] = "none" <=> ~InSlab(s)
        /\ vault[s].leader = NoWallet <=> list[s] \in {"none", "free"}
        /\ Occupied(s) => (vault[s].tombstoned <=> list[s] = "tombstone")
\* The free stack holds the free sectors, each once, and no other.
FreeStackExact ==
    /\ \A i \in 1 .. Len(freeStack) : list[freeStack[i]] = "free"
    /\ \A i, j \in 1 .. Len(freeStack) : freeStack[i] = freeStack[j] => i = j
    /\ \A s \in Sectors : list[s] = "free" => \E i \in 1 .. Len(freeStack) : freeStack[i] = s
\* The count create_vault compares with the cap is the number of active vaults.
ActiveExact == activeCount = Cardinality(On("active"))

\* The inductive invariant of the slab.
SlabInv == SectorsMatch /\ FreeStackExact /\ ActiveExact

\* The three ways an instruction moves a sector: create_vault hands one out, close_vault
\* retires an active one, and an emptied or evicted vault's is released.
HandOut ==
    /\ activeCount < MaxVaults /\ CanAllocate
    /\ list' = [list EXCEPT ![NextSector] = "active"]
    /\ freeStack' = IF freeStack # <<>> THEN Tail(freeStack) ELSE freeStack
    /\ slabLen' = IF freeStack # <<>> THEN slabLen ELSE slabLen + 1
    /\ activeCount' = activeCount + 1
    /\ vault'[NextSector].leader # NoWallet /\ vault'[NextSector].tombstoned = FALSE
    /\ \A x \in Sectors : x # NextSector => vault'[x] = vault[x]
RetireSector(s) ==
    /\ Occupied(s) /\ list[s] = "active"
    /\ list' = [list EXCEPT ![s] = "tombstone"]
    /\ activeCount' = SatSub(activeCount, 1)
    /\ UNCHANGED <<freeStack, slabLen>>
    /\ vault'[s].leader = vault[s].leader /\ vault'[s].tombstoned = TRUE
    /\ \A x \in Sectors : x # s => vault'[x] = vault[x]
ReleaseSector(s) ==
    /\ Occupied(s)
    /\ list' = [list EXCEPT ![s] = "free"]
    /\ freeStack' = <<s>> \o freeStack
    /\ activeCount' = (IF list[s] = "active" THEN SatSub(activeCount, 1) ELSE activeCount)
    /\ UNCHANGED slabLen
    /\ vault'[s].leader = NoWallet
    /\ \A x \in Sectors : x # s => vault'[x] = vault[x]
\* All other instructions leave every sector where it is.
KeepSectors ==
    /\ UNCHANGED slabVars
    /\ \A x \in Sectors : /\ vault'[x].leader = vault[x].leader
                          /\ vault'[x].tombstoned = vault[x].tombstoned

\* Every step moves at most one sector, in one of these ways.
LEMMA SlabShape ==
    ASSUME TypeOK, [Next]_vars
    PROVE  HandOut \/ KeepSectors \/ \E s \in Sectors : RetireSector(s) \/ ReleaseSector(s)
<1>1. ASSUME NEW w \in Wallets, NEW fee \in PerfFees, NEW allow \in BOOLEAN,
             CreateVault(w, fee, allow)
      PROVE  HandOut
  BY <1>1, CreateEffect DEF CreateVault, HandOut
<1>2. ASSUME NEW s \in Sectors, CloseVault(s)
      PROVE  RetireSector(s)
  BY <1>2 DEF CloseVault, RetireSector, TypeOK, VaultSettings
<1>3. ASSUME NEW s \in Sectors, NEW r \in VaultSettings, SettingsStep(s, r)
      PROVE  KeepSectors
  BY <1>3 DEF SettingsStep, SetVault, KeepSectors, TypeOK
<1>4. ASSUME NEW s \in Sectors, NEW n \in Nat, n > 0, NEW paid \in [Leg -> Nat],
             EnterStep(s, paid, n)
      PROVE  KeepSectors
  <2>1. UNCHANGED slabVars
    BY <1>4 DEF EnterStep
  <2>2. \A x \in Sectors : /\ vault'[x].leader = vault[x].leader
                           /\ vault'[x].tombstoned = vault[x].tombstoned
    BY <1>4, EnterEffect
  <2>3. QED
    BY <2>1, <2>2 DEF KeepSectors
<1>5. ASSUME NEW s \in Sectors, NEW n \in Nat, n > 0, ExitStep(s, n)
      PROVE  KeepSectors \/ ReleaseSector(s)
  <2>1. /\ Occupied(s) /\ SlabAfter(s, total'[s] = 0)
        /\ vault'[s].leader = (IF total'[s] = 0 THEN NoWallet ELSE vault[s].leader)
        /\ vault'[s].tombstoned = vault[s].tombstoned
        /\ \A x \in Sectors : x # s => vault'[x] = vault[x]
    BY <1>5, ExitEffect DEF ExitStep
  <2>2. CASE total'[s] = 0
    BY <2>1, <2>2 DEF SlabAfter, ListAfter, FreeStackAfter, ActiveAfter, ReleaseSector
  <2>3. CASE total'[s] # 0
    BY <2>1, <2>3 DEF SlabAfter, ListAfter, FreeStackAfter, ActiveAfter, KeepSectors, slabVars
  <2>4. QED
    BY <2>2, <2>3
<1>6. ASSUME NEW s \in Sectors, EvictStep(s)
      PROVE  ReleaseSector(s)
  BY <1>6 DEF EvictStep, SlabAfter, ListAfter, FreeStackAfter, ActiveAfter, ReleaseSector,
              TypeOK, VaultSettings
<1>7. CASE SwapStep
  BY <1>7, SwapEffect DEF KeepSectors
<1>8. CASE CloseMarket \/ UNCHANGED vars \/ \E l \in Leg : TreasuryStep(l)
  BY <1>8 DEF CloseMarket, vars, TreasuryStep, Donate, SweepResidual, CloseMarketTreasury,
              RecreateTreasury, KeepSectors
<1>9. QED
  BY <1>1, <1>2, <1>3, <1>4, <1>5, <1>6, <1>7, <1>8, NextShape

\* How the number of active sectors follows the move of one.
LEMMA ActiveAfterOne ==
    ASSUME TypeOK, NEW s \in Sectors, NEW v, list' = [list EXCEPT ![s] = v]
    PROVE  /\ IsFiniteSet(On("active")) /\ Cardinality(On("active")) \in Nat
           /\ v = "active" /\ list[s] # "active" =>
                 Cardinality(On("active"))' = Cardinality(On("active")) + 1
           /\ v # "active" /\ list[s] = "active" =>
                 /\ Cardinality(On("active"))' = Cardinality(On("active")) - 1
                 /\ Cardinality(On("active")) > 0
           /\ v # "active" /\ list[s] # "active" =>
                 Cardinality(On("active"))' = Cardinality(On("active"))
<1> DEFINE A == On("active")
<1>1. IsFiniteSet(A) /\ Cardinality(A) \in Nat
  <2>1. A \in SUBSET Sectors
    BY DEF On
  <2>2. QED
    BY <2>1, SectorsFinite, FS_Subset, FS_CardinalityType
<1>2. \A x \in Sectors : list'[x] = (IF x = s THEN v ELSE list[x])
  BY DEF TypeOK
<1>3. CASE v = "active" /\ list[s] # "active"
  <2>1. A' = A \cup {s} /\ s \notin A
    BY <1>2, <1>3 DEF On
  <2>2. QED
    BY <1>1, <1>3, <2>1, FS_AddElement
<1>4. CASE v # "active" /\ list[s] = "active"
  <2>1. A' = A \ {s} /\ s \in A
    BY <1>2, <1>4 DEF On
  <2>2. Cardinality(A') = Cardinality(A) - 1
    BY <1>1, <2>1, FS_RemoveElement
  <2>3. Cardinality(A) # 0
    BY <1>1, <2>1, FS_EmptySet
  <2>4. QED
    BY <1>1, <1>4, <2>2, <2>3
<1>5. CASE v # "active" /\ list[s] # "active"
  <2>1. A' = A
    BY <1>2, <1>5 DEF On
  <2>2. QED
    BY <1>1, <1>5, <2>1
<1>6. CASE v = "active" /\ list[s] = "active"
  BY <1>1, <1>6
<1>7. QED
  BY <1>3, <1>4, <1>5, <1>6

\* The sector handed out is vacant: on the free list, or just beyond the slab.
LEMMA NextSectorVacant ==
    ASSUME TypeOK, SlabInv, CanAllocate
    PROVE  /\ NextSector \in Sectors
           /\ freeStack # <<>> => list[NextSector] = "free" /\ InSlab(NextSector)
           /\ freeStack = <<>> => list[NextSector] = "none" /\ NextSector = slabLen
           /\ vault[NextSector].leader = NoWallet
<1>1. NextSector \in Sectors
  BY NextSectorType
<1>2. \A i \in 1 .. Len(freeStack) : freeStack[i] \in Sectors
  BY DEF TypeOK
<1>3. CASE freeStack # <<>>
  <2>1. 1 \in 1 .. Len(freeStack) /\ NextSector = freeStack[1]
    BY <1>3 DEF TypeOK, NextSector
  <2>2. list[NextSector] = "free"
    BY <2>1 DEF SlabInv, FreeStackExact
  <2>3. QED
    BY <1>1, <1>3, <2>2 DEF SlabInv, SectorsMatch
<1>4. CASE freeStack = <<>>
  <2>1. NextSector = slabLen
    BY <1>4 DEF NextSector
  <2>2. list[NextSector] = "none"
    BY <1>1, <2>1, SizeAssumption, U64Assumption DEF SlabInv, SectorsMatch, InSlab, TypeOK
  <2>3. QED
    BY <1>1, <1>4, <2>1, <2>2 DEF SlabInv, SectorsMatch
<1>5. QED
  BY <1>3, <1>4

\* Handing a sector out keeps the lists in order.
LEMMA SlabHandOut ==
    ASSUME TypeOK, SlabInv, HandOut
    PROVE  SlabInv'
<1> DEFINE s == NextSector
<1>1. /\ s \in Sectors /\ vault[s].leader = NoWallet /\ list[s] \in {"free", "none"}
      /\ freeStack # <<>> => list[s] = "free" /\ InSlab(s)
      /\ freeStack = <<>> => list[s] = "none" /\ s = slabLen
  BY NextSectorVacant DEF HandOut
<1>2. /\ list' = [list EXCEPT ![s] = "active"]
      /\ vault'[s].leader # NoWallet /\ vault'[s].tombstoned = FALSE
      /\ \A x \in Sectors : x # s => vault'[x] = vault[x]
  BY DEF HandOut
<1>3. freeStack # <<>> => s = freeStack[1] /\ Len(freeStack) \in Nat /\ Len(freeStack) > 0
  BY DEF TypeOK, NextSector
<1> HIDE DEF s
<1>4. list'[s] = "active" /\ \A x \in Sectors : x # s => list'[x] = list[x]
  BY <1>1, <1>2 DEF TypeOK
<1>5. \A x \in Sectors : InSlab(x)' <=> InSlab(x) \/ x = s
  <2>1. CASE freeStack # <<>>
    BY <1>1, <2>1 DEF HandOut, InSlab
  <2>2. CASE freeStack = <<>>
    BY <1>1, <2>2 DEF HandOut, InSlab, TypeOK, Sectors
  <2>3. QED
    BY <2>1, <2>2
<1>6. SectorsMatch'
  BY <1>1, <1>2, <1>4, <1>5 DEF SlabInv, SectorsMatch, Occupied
<1>7. ActiveExact'
  <2>1. Cardinality(On("active"))' = Cardinality(On("active")) + 1
    BY <1>1, <1>2, ActiveAfterOne
  <2>2. QED
    BY <2>1 DEF SlabInv, ActiveExact, HandOut
<1>8. FreeStackExact'
  <2>1. CASE freeStack = <<>>
    <3>1. freeStack' = freeStack
      BY <2>1 DEF HandOut
    <3>2. Len(freeStack) = 0
      BY <2>1
    <3>3. \A x \in Sectors : list[x] # "free"
      BY <3>2 DEF SlabInv, FreeStackExact
    <3>4. QED
      BY <1>4, <3>1, <3>2, <3>3 DEF FreeStackExact
  <2>2. CASE freeStack # <<>>
    <3>1. freeStack' = Tail(freeStack)
      BY <2>2 DEF HandOut
    <3>2. /\ Len(freeStack') = Len(freeStack) - 1
          /\ \A i \in 1 .. Len(freeStack') : freeStack'[i] = freeStack[i + 1]
      BY <2>2, <3>1 DEF TypeOK
    <3>3. \A i \in 1 .. Len(freeStack) : freeStack[i] \in Sectors
      BY DEF TypeOK
    <3>4. ASSUME NEW i \in 1 .. Len(freeStack')
          PROVE  /\ i + 1 \in 1 .. Len(freeStack) /\ i + 1 # 1 /\ 1 \in 1 .. Len(freeStack)
                 /\ freeStack'[i] \in Sectors /\ freeStack'[i] # s
      <4>1. i + 1 \in 1 .. Len(freeStack) /\ i + 1 # 1 /\ 1 \in 1 .. Len(freeStack)
        BY <1>3, <2>2, <3>2
      <4>2. freeStack[i + 1] # freeStack[1]
        BY <4>1 DEF SlabInv, FreeStackExact
      <4>3. QED
        BY <1>3, <2>2, <3>2, <3>3, <4>1, <4>2
    <3>5. \A i \in 1 .. Len(freeStack') : list'[freeStack'[i]] = "free"
      BY <1>4, <3>2, <3>4 DEF SlabInv, FreeStackExact
    <3>6. ASSUME NEW i \in 1 .. Len(freeStack'), NEW j \in 1 .. Len(freeStack'),
                 freeStack'[i] = freeStack'[j]
          PROVE  i = j
      <4>1. freeStack[i + 1] = freeStack[j + 1]
        BY <3>2, <3>6
      <4>2. i + 1 = j + 1
        BY <3>4, <4>1 DEF SlabInv, FreeStackExact
      <4>3. QED
        BY <4>2
    <3>7. ASSUME NEW x \in Sectors, list'[x] = "free"
          PROVE  \E i \in 1 .. Len(freeStack') : freeStack'[i] = x
      <4>1. x # s /\ list[x] = "free"
        BY <1>4, <3>7
      <4>2. PICK k \in 1 .. Len(freeStack) : freeStack[k] = x
        BY <4>1 DEF SlabInv, FreeStackExact
      <4>3. k # 1
        BY <1>3, <2>2, <4>1, <4>2
      <4>4. k - 1 \in 1 .. Len(freeStack')
        BY <1>3, <2>2, <3>2, <4>3
      <4>5. freeStack'[k - 1] = freeStack[(k - 1) + 1] /\ (k - 1) + 1 = k
        BY <3>2, <4>4
      <4>6. freeStack'[k - 1] = x
        BY <4>2, <4>5
      <4>7. QED
        BY <4>4, <4>6
    <3>8. QED
      BY <3>5, <3>6, <3>7 DEF FreeStackExact
  <2>3. QED
    BY <2>1, <2>2
<1>9. QED
  BY <1>6, <1>7, <1>8 DEF SlabInv

\* Retiring an active sector keeps the lists in order.
LEMMA SlabRetire ==
    ASSUME TypeOK, SlabInv, NEW s \in Sectors, RetireSector(s)
    PROVE  SlabInv'
<1>1. /\ list' = [list EXCEPT ![s] = "tombstone"] /\ list[s] = "active"
      /\ UNCHANGED <<freeStack, slabLen>> /\ activeCount' = SatSub(activeCount, 1)
      /\ vault'[s].leader = vault[s].leader /\ vault'[s].tombstoned = TRUE
      /\ \A x \in Sectors : x # s => vault'[x] = vault[x]
  BY DEF RetireSector
<1>2. list'[s] = "tombstone" /\ \A x \in Sectors : x # s => list'[x] = list[x]
  BY <1>1 DEF TypeOK
<1>3. SectorsMatch'
  BY <1>1, <1>2 DEF SlabInv, SectorsMatch, Occupied, InSlab
<1>4. FreeStackExact'
  <2>1. \A i \in 1 .. Len(freeStack) : freeStack[i] \in Sectors
    BY DEF TypeOK
  <2>2. \A i \in 1 .. Len(freeStack) : freeStack[i] # s
    BY <1>1 DEF SlabInv, FreeStackExact
  <2>3. QED
    BY <1>1, <1>2, <2>1, <2>2 DEF SlabInv, FreeStackExact
<1>5. ActiveExact'
  <2>1. /\ Cardinality(On("active"))' = Cardinality(On("active")) - 1
        /\ Cardinality(On("active")) > 0 /\ Cardinality(On("active")) \in Nat
    BY <1>1, ActiveAfterOne
  <2>2. QED
    BY <1>1, <2>1 DEF SlabInv, ActiveExact, SatSub
<1>6. QED
  BY <1>3, <1>4, <1>5 DEF SlabInv

\* Releasing an occupied sector keeps the lists in order: it was not on the free list.
LEMMA SlabRelease ==
    ASSUME TypeOK, SlabInv, NEW s \in Sectors, ReleaseSector(s)
    PROVE  SlabInv'
<1>1. /\ list' = [list EXCEPT ![s] = "free"] /\ freeStack' = <<s>> \o freeStack
      /\ UNCHANGED slabLen /\ Occupied(s) /\ vault'[s].leader = NoWallet
      /\ \A x \in Sectors : x # s => vault'[x] = vault[x]
  BY DEF ReleaseSector
<1>2. list'[s] = "free" /\ \A x \in Sectors : x # s => list'[x] = list[x]
  BY <1>1 DEF TypeOK
<1>3. list[s] \in {"active", "tombstone"}
  BY <1>1 DEF SlabInv, SectorsMatch, Occupied, TypeOK
<1>4. SectorsMatch'
  BY <1>1, <1>2 DEF SlabInv, SectorsMatch, Occupied, InSlab
<1>5. ActiveExact'
  <2>0. list' = [list EXCEPT ![s] = "free"] /\ "free" # "active"
    BY <1>1
  <2>1. CASE list[s] = "active"
    <3>1. /\ Cardinality(On("active"))' = Cardinality(On("active")) - 1
          /\ Cardinality(On("active")) > 0 /\ Cardinality(On("active")) \in Nat
      <4> DEFINE c == Cardinality(On("active"))
      <4>1. "free" # "active" /\ list[s] = "active" => c' = c - 1 /\ c > 0
        BY <2>0, ActiveAfterOne
      <4>2. c \in Nat
        BY <2>0, ActiveAfterOne
      <4>3. QED
        BY <2>0, <2>1, <4>1, <4>2
    <3>2. QED
      BY <2>1, <3>1 DEF SlabInv, ActiveExact, SatSub, ReleaseSector
  <2>2. CASE list[s] # "active"
    <3>1. Cardinality(On("active"))' = Cardinality(On("active"))
      BY <2>0, <2>2, ActiveAfterOne
    <3>2. QED
      BY <2>2, <3>1 DEF SlabInv, ActiveExact, ReleaseSector
  <2>3. QED
    BY <2>1, <2>2
<1>6. FreeStackExact'
  <2>1. /\ Len(freeStack) \in Nat /\ Len(freeStack') = Len(freeStack) + 1
        /\ freeStack'[1] = s
        /\ \A i \in 2 .. Len(freeStack') : freeStack'[i] = freeStack[i - 1]
    BY <1>1 DEF TypeOK
  <2>2. \A i \in 1 .. Len(freeStack) : /\ freeStack[i] \in Sectors /\ freeStack[i] # s
                                       /\ list[freeStack[i]] = "free"
    BY <1>3 DEF SlabInv, FreeStackExact, TypeOK
  <2>3. ASSUME NEW i \in 2 .. Len(freeStack')
        PROVE  i - 1 \in 1 .. Len(freeStack) /\ freeStack'[i] # s /\ freeStack'[i] \in Sectors
    <3>1. i - 1 \in 1 .. Len(freeStack)
      BY <2>1
    <3>2. QED
      BY <2>1, <2>2, <3>1
  <2>4. \A i \in 1 .. Len(freeStack') : i = 1 \/ i \in 2 .. Len(freeStack')
    BY <2>1
  <2>5. \A i \in 1 .. Len(freeStack') : list'[freeStack'[i]] = "free"
    BY <1>2, <2>1, <2>2, <2>3, <2>4
  <2>6. ASSUME NEW i \in 1 .. Len(freeStack'), NEW j \in 1 .. Len(freeStack'),
               freeStack'[i] = freeStack'[j]
        PROVE  i = j
    <3>1. CASE i = 1 \/ j = 1
      BY <2>1, <2>3, <2>4, <2>6, <3>1
    <3>2. CASE i # 1 /\ j # 1
      <4>1. i \in 2 .. Len(freeStack') /\ j \in 2 .. Len(freeStack')
        BY <2>4, <3>2
      <4>2. freeStack[i - 1] = freeStack[j - 1]
        BY <2>1, <2>6, <4>1
      <4>3. i - 1 = j - 1
        BY <2>3, <4>1, <4>2 DEF SlabInv, FreeStackExact
      <4>4. QED
        BY <4>3
    <3>3. QED
      BY <3>1, <3>2
  <2>7. ASSUME NEW x \in Sectors, list'[x] = "free"
        PROVE  \E i \in 1 .. Len(freeStack') : freeStack'[i] = x
    <3>1. CASE x = s
      <4>1. 1 \in 1 .. Len(freeStack')
        BY <2>1
      <4>2. QED
        BY <2>1, <3>1, <4>1
    <3>2. CASE x # s
      <4>1. PICK k \in 1 .. Len(freeStack) : freeStack[k] = x
        BY <1>2, <2>7, <3>2 DEF SlabInv, FreeStackExact
      <4>2. k + 1 \in 2 .. Len(freeStack') /\ k + 1 \in 1 .. Len(freeStack') /\ (k + 1) - 1 = k
        BY <2>1
      <4>3. freeStack'[k + 1] = x
        BY <2>1, <4>1, <4>2
      <4>4. QED
        BY <4>2, <4>3
    <3>3. QED
      BY <3>1, <3>2
  <2>8. QED
    BY <2>5, <2>6, <2>7 DEF FreeStackExact
<1>7. QED
  BY <1>4, <1>5, <1>6 DEF SlabInv

\* Every instruction keeps the lists in order.
LEMMA SlabInvStep == TypeOK /\ SlabInv /\ [Next]_vars => SlabInv'
<1> SUFFICES ASSUME TypeOK, SlabInv, [Next]_vars
             PROVE  SlabInv'
  OBVIOUS
<1>1. ASSUME KeepSectors
      PROVE  SlabInv'
  <2>1. SectorsMatch'
    BY <1>1 DEF KeepSectors, SlabInv, SectorsMatch, Occupied, InSlab, slabVars
  <2>2. FreeStackExact' /\ ActiveExact'
    BY <1>1 DEF KeepSectors, SlabInv, FreeStackExact, ActiveExact, On, slabVars
  <2>3. QED
    BY <2>1, <2>2 DEF SlabInv
<1>2. QED
  BY <1>1, SlabShape, SlabHandOut, SlabRetire, SlabRelease

\* The empty slab is in order.
LEMMA SlabInvInit == Init => SlabInv
<1> SUFFICES ASSUME Init
             PROVE  SlabInv
  OBVIOUS
<1>1. SectorsMatch
  BY DEF Init, SectorsMatch, InSlab, Occupied, ZeroedVault, Sectors
<1>2. FreeStackExact
  BY DEF Init, FreeStackExact
<1>3. ActiveExact
  <2>1. On("active") = {}
    BY DEF Init, On
  <2>2. QED
    BY <2>1, FS_EmptySet DEF Init, ActiveExact
<1>4. QED
  BY <1>1, <1>2, <1>3 DEF SlabInv

\* In every reachable state of a market of any size the lists, the free stack, the active
\* count and the leader fields are in order.
LEMMA SlabInOrder == Spec => []SlabInv
<1>1. QED
  BY SlabInvInit, SlabInvStep, TypeCorrect, PTL DEF Spec

\* Free sectors are as many as the free list is long, and are its elements.
LEMMA ListsFromSlab == TypeOK /\ SlabInv => ListsMatchVaults
<1> SUFFICES ASSUME TypeOK, SlabInv
             PROVE  ListsMatchVaults
  OBVIOUS
<1> DEFINE D == DOMAIN freeStack
           F == {x \in Sectors : list[x] = "free"}
<1>1. D = 1 .. Len(freeStack) /\ \A i \in D : freeStack[i] \in Sectors
  BY DEF TypeOK
<1>2. /\ \A i \in D : list[freeStack[i]] = "free"
      /\ \A i, j \in D : freeStack[i] = freeStack[j] => i = j
      /\ \A x \in Sectors : list[x] = "free" => \E i \in D : freeStack[i] = x
  BY <1>1 DEF SlabInv, FreeStackExact
<1>3. \A x \in Sectors : /\ Occupied(x) <=> list[x] \in {"active", "tombstone"}
                         /\ list[x] = "free" <=> InSlab(x) /\ ~Occupied(x)
                         /\ Occupied(x) => (vault[x].tombstoned <=> list[x] = "tombstone")
  BY DEF SlabInv, SectorsMatch, Occupied, TypeOK
<1>4. {freeStack[i] : i \in D} = {x \in Sectors : InSlab(x) /\ ~Occupied(x)}
  BY <1>1, <1>2, <1>3
<1>5. Cardinality(D) = Cardinality(F)
  <2>1. freeStack \in Bijection(D, F)
    BY <1>1, <1>2 DEF Bijection, Injection, Surjection, IsInjective, TypeOK
  <2>2. IsFiniteSet(F)
    <3>1. F \in SUBSET Sectors
      OBVIOUS
    <3>2. QED
      BY <3>1, SectorsFinite, FS_Subset
  <2>3. IsFiniteSet(D)
    <3>1. Len(freeStack) \in Int /\ 1 \in Int
      BY DEF TypeOK
    <3>2. QED
      BY <1>1, <3>1, FS_Interval
  <2>4. QED
    BY <2>1, <2>3, FS_Bijection DEF ExistsBijection
<1>6. activeCount = Cardinality({x \in Sectors : list[x] = "active"})
  BY DEF SlabInv, ActiveExact, On
<1>7. QED
  BY <1>3, <1>4, <1>5, <1>6 DEF ListsMatchVaults

\* The market's initial state is the slab's.
LEMMA SlabInitMaps == Init => Slab!Init
  BY DEF Init, Slab!Init, Sectors, Slab!Sectors

\* Every instruction is a step of the slab, or leaves it alone.
LEMMA SlabStepMaps == TypeOK /\ SlabInv /\ [Next]_vars => [Slab!Next]_(Slab!vars)
<1> SUFFICES ASSUME TypeOK, SlabInv, [Next]_vars
             PROVE  [Slab!Next]_(Slab!vars)
  OBVIOUS
<1>1. Slab!Sectors = Sectors
  BY DEF Sectors, Slab!Sectors
<1>2. activeCount = Cardinality(Slab!On("active"))
  <2>1. On("active") = Slab!On("active")
    BY <1>1 DEF On, Slab!On
  <2>2. QED
    BY <2>1 DEF SlabInv, ActiveExact
<1>3. CASE HandOut
  <2>1. Cardinality(Slab!On("active")) < MaxVaults
    BY <1>2, <1>3 DEF HandOut
  <2>2. CASE freeStack # <<>>
    <3>1. /\ list' = [list EXCEPT ![Head(freeStack)] = "active"]
          /\ freeStack' = Tail(freeStack) /\ slabLen' = slabLen
      BY <1>3, <2>2 DEF HandOut, NextSector
    <3>2. Slab!Reuse
      BY <2>1, <2>2, <3>1 DEF Slab!Reuse, Cardinality, Slab!Cardinality
    <3>3. QED
      BY <3>2 DEF Slab!Next
  <2>3. CASE freeStack = <<>>
    <3>1. /\ slabLen < MaxSectors /\ list' = [list EXCEPT ![slabLen] = "active"]
          /\ freeStack' = freeStack /\ slabLen' = slabLen + 1
      BY <1>3, <2>3 DEF HandOut, CanAllocate, NextSector
    <3>2. QED
      BY <2>1, <2>3, <3>1 DEF Slab!Next, Slab!Grow, Cardinality, Slab!Cardinality
  <2>4. QED
    BY <2>2, <2>3
<1>4. ASSUME NEW s \in Sectors, RetireSector(s)
      PROVE  [Slab!Next]_(Slab!vars)
  <2>1. Slab!Retire(s)
    BY <1>4 DEF RetireSector, Slab!Retire
  <2>2. QED
    BY <1>1, <2>1 DEF Slab!Next
<1>5. ASSUME NEW s \in Sectors, ReleaseSector(s)
      PROVE  [Slab!Next]_(Slab!vars)
  <2>1. list[s] \in {"active", "tombstone"}
    BY <1>5 DEF ReleaseSector, SlabInv, SectorsMatch, Occupied, TypeOK
  <2>2. Slab!Release(s)
    BY <1>5, <2>1 DEF ReleaseSector, Slab!Release
  <2>3. QED
    BY <1>1, <2>2 DEF Slab!Next
<1>6. CASE KeepSectors
  BY <1>6 DEF KeepSectors, slabVars, Slab!vars
<1>7. QED
  BY <1>3, <1>4, <1>5, <1>6, SlabShape

\* Refinement: the market moves its sectors as the abstract slab does. No instruction, in
\* any order, frees a sector twice, revives a tombstone, hands out a sector that is not
\* the last one freed, or passes the cap on active vaults.
THEOREM SlabIsImplemented == Spec => ImplementsSlab
<1>1. Init => Slab!Init
  BY SlabInitMaps
<1>2. TypeOK /\ SlabInv /\ [Next]_vars => [Slab!Next]_(Slab!vars)
  BY SlabStepMaps
<1>3. QED
  BY <1>1, <1>2, TypeCorrect, SlabInOrder, PTL DEF Spec, ImplementsSlab, Slab!Spec

------------------------------------------------------------------------------
(* What a reused sector holds. The sector of a vacant vault has no shares,  *)
(* which is the share invariant's; what else it could hold follows: no      *)
(* leader shares and no position, because the total is their sum, and no    *)
(* atoms, because shares and atoms vanish together.                         *)

\* A vacant sector is clean, given what is known of shares and inventory.
LEMMA VacantClean == TypeOK /\ ShareInv /\ SharesAreBacked => VacantSectorsAreClean
<1> SUFFICES ASSUME TypeOK, ShareInv, SharesAreBacked,
                    NEW s \in Sectors, vault[s].leader = NoWallet
             PROVE  /\ total[s] = 0 /\ leaderShares[s] = 0
                    /\ \A w \in Wallets : position[s][w] = 0
                    /\ \A l \in Leg : atoms[l][s] = 0
  BY DEF VacantSectorsAreClean
<1>1. total[s] = 0
  BY DEF ShareInv, VacantHaveNoShares
<1>2. position[s] \in [Wallets -> Nat] /\ leaderShares[s] \in Nat
  BY SizeAssumption, U64Assumption DEF TypeOK
<1>3. SumOf(position[s]) \in Nat
  BY <1>2, FiniteAssumption, SumType
<1>4. total[s] = leaderShares[s] + SumOf(position[s])
  BY DEF ShareInv, SharesConserved
<1>5. leaderShares[s] = 0 /\ SumOf(position[s]) = 0
  BY <1>1, <1>2, <1>3, <1>4
<1>6. \A w \in Wallets : position[s][w] = 0
  BY <1>2, <1>5, FiniteAssumption, SumZero
<1>7. \A l \in Leg : atoms[l][s] = 0
  BY <1>1 DEF SharesAreBacked
<1>8. QED
  BY <1>1, <1>5, <1>6, <1>7

\* The share invariant holds as long as no mark is cut off.
LEMMA SharesInOrder == Spec /\ []MarksInRange => []ShareInv
<1>1. QED
  BY ShareInvInit, ShareInvStep, TypeCorrect, CustodyHolds, PTL DEF Spec

\* Sector reuse: in every run in which no stored mark is cut off, the lists, the leader
\* fields and the contents of the sectors agree on which sectors are vacant, and a vacant
\* sector carries nothing over to the next vault.
THEOREM SectorsStayAccounted == Spec /\ []MarksInRange => []SectorsAreAccounted
<1>1. TypeOK /\ SlabInv /\ ShareInv /\ SharesAreBacked => SectorsAreAccounted
  BY ListsFromSlab, VacantClean DEF SectorsAreAccounted
<1>2. QED
  BY <1>1, TypeCorrect, SlabInOrder, SharesInOrder, BackingHolds, PTL

------------------------------------------------------------------------------
(* The count of positions. Exact without any premise: an entry opens the    *)
(* account exactly when it was empty, an exit closes it exactly when it     *)
(* empties it, and nothing else, the reuse of a sector included, touches    *)
(* positions or count.                                                      *)

\* The position accounts that hold shares.
Held(p) == {x \in Sectors \X Wallets : p[x[1]][x[2]] > 0}

\* How the number of positions held follows the change of one.
LEMMA HeldAfterOne ==
    ASSUME TypeOK, NEW s \in Sectors, NEW w \in Wallets, NEW v \in Nat,
           position' = [position EXCEPT ![s][w] = v]
    PROVE  /\ Cardinality(Held(position)) \in Nat
           /\ position[s][w] = 0 /\ v > 0 =>
                 Cardinality(Held(position')) = Cardinality(Held(position)) + 1
           /\ position[s][w] > 0 /\ v > 0 =>
                 Cardinality(Held(position')) = Cardinality(Held(position))
           /\ position[s][w] > 0 /\ v = 0 =>
                 /\ Cardinality(Held(position')) = Cardinality(Held(position)) - 1
                 /\ Cardinality(Held(position)) > 0
<1> DEFINE H == Held(position)
           K == Held(position')
           p == <<s, w>>
<1>1. IsFiniteSet(H) /\ Cardinality(H) \in Nat
  <2>1. IsFiniteSet(Sectors \X Wallets)
    BY SectorsFinite, FiniteAssumption, FS_Product
  <2>2. H \in SUBSET (Sectors \X Wallets)
    BY DEF Held
  <2>3. QED
    BY <2>1, <2>2, FS_Subset, FS_CardinalityType
<1>2. /\ position'[s][w] = v
      /\ \A a \in Sectors, b \in Wallets : <<a, b>> # p => position'[a][b] = position[a][b]
  BY DEF TypeOK
<1>3. \A x \in Sectors \X Wallets : x = <<x[1], x[2]>> /\ x[1] \in Sectors /\ x[2] \in Wallets
  OBVIOUS
<1>4. p \in Sectors \X Wallets /\ p[1] = s /\ p[2] = w
  OBVIOUS
<1>5. \A x \in Sectors \X Wallets : x # p => (x \in H <=> x \in K)
  BY <1>2, <1>3 DEF Held
<1>6. (p \in H <=> position[s][w] > 0) /\ (p \in K <=> v > 0)
  BY <1>2, <1>4 DEF Held
<1>7. H \subseteq Sectors \X Wallets /\ K \subseteq Sectors \X Wallets
  BY DEF Held
<1> HIDE DEF H, K, p
<1>8. CASE position[s][w] = 0 /\ v > 0
  <2>1. K = H \cup {p} /\ p \notin H
    BY <1>4, <1>5, <1>6, <1>7, <1>8
  <2>2. Cardinality(K) = Cardinality(H) + 1
    BY <1>1, <2>1, FS_AddElement
  <2>3. QED
    BY <1>1, <1>8, <2>2 DEF H, K
<1>9. CASE position[s][w] > 0 /\ v > 0
  <2>1. K = H
    BY <1>4, <1>5, <1>6, <1>7, <1>9
  <2>2. QED
    BY <1>1, <1>9, <2>1 DEF H, K
<1>10. CASE position[s][w] > 0 /\ v = 0
  <2>1. K = H \ {p} /\ p \in H
    BY <1>4, <1>5, <1>6, <1>7, <1>10
  <2>2. Cardinality(K) = Cardinality(H) - 1
    BY <1>1, <2>1, FS_RemoveElement
  <2>3. Cardinality(H) > 0
    BY <1>1, <2>1, FS_EmptySet
  <2>4. QED
    BY <1>1, <1>10, <2>2, <2>3 DEF H, K
<1>11. QED
  BY <1>1, <1>8, <1>9, <1>10 DEF H

\* Every instruction keeps the count exact.
LEMMA OutstandingStep == TypeOK /\ OutstandingExact /\ [Next]_vars => OutstandingExact'
<1> SUFFICES ASSUME TypeOK, OutstandingExact, [Next]_vars
             PROVE  outstanding' = Cardinality(Held(position'))
  BY DEF OutstandingExact, Held
<1>1. outstanding = Cardinality(Held(position)) /\ outstanding \in Nat
  BY DEF OutstandingExact, Held, TypeOK
<1>2. ASSUME UNCHANGED <<position, outstanding>>
      PROVE  outstanding' = Cardinality(Held(position'))
  BY <1>1, <1>2
<1>3. ASSUME NEW s \in Sectors, NEW n \in Nat, n > 0, NEW paid \in [Leg -> Nat],
             EnterStep(s, paid, n)
      PROVE  outstanding' = Cardinality(Held(position'))
  <2>1. CASE LeaderEnters(s, n)
    BY <1>2, <2>1 DEF LeaderEnters
  <2>2. ASSUME NEW w \in Wallets, OutsiderEnters(w, s, n)
        PROVE  outstanding' = Cardinality(Held(position'))
    <3> DEFINE v == position[s][w] + n
    <3>1. /\ position' = [position EXCEPT ![s][w] = v]
          /\ outstanding' = (IF position[s][w] = 0 THEN outstanding + 1 ELSE outstanding)
      BY <2>2 DEF OutsiderEnters, OutstandingAfterDeposit
    <3>2. position[s][w] \in Nat /\ v \in Nat /\ v > 0
      BY <1>3, SizeAssumption, U64Assumption DEF TypeOK
    <3> HIDE DEF v
    <3>3. CASE position[s][w] = 0
      BY <1>1, <3>1, <3>2, <3>3, HeldAfterOne
    <3>4. CASE position[s][w] > 0
      BY <1>1, <3>1, <3>2, <3>4, HeldAfterOne
    <3>5. QED
      BY <3>2, <3>3, <3>4
  <2>3. QED
    BY <1>3, <2>1, <2>2 DEF EnterStep
<1>4. ASSUME NEW s \in Sectors, NEW n \in Nat, n > 0, ExitStep(s, n)
      PROVE  outstanding' = Cardinality(Held(position'))
  <2>1. CASE LeaderLeaves(s, n)
    BY <1>2, <2>1 DEF LeaderLeaves
  <2>2. ASSUME NEW w \in Wallets, OutsiderLeaves(w, s, n)
        PROVE  outstanding' = Cardinality(Held(position'))
    <3> DEFINE v == position[s][w] - n
    <3>1. /\ position' = [position EXCEPT ![s][w] = v]
          /\ outstanding' = (IF position[s][w] = n THEN SatSub(outstanding, 1) ELSE outstanding)
      BY <2>2 DEF OutsiderLeaves, OutstandingAfterExit
    <3>2. /\ position[s][w] \in Nat /\ position[s][w] > 0 /\ v \in Nat
          /\ position[s][w] = n <=> v = 0
      BY <1>4, <2>2, SizeAssumption, U64Assumption DEF OutsiderLeaves, TypeOK
    <3> HIDE DEF v
    <3>3. CASE v = 0
      <4>1. /\ Cardinality(Held(position')) = Cardinality(Held(position)) - 1
            /\ Cardinality(Held(position)) > 0
        BY <3>1, <3>2, <3>3, HeldAfterOne
      <4>2. QED
        BY <1>1, <3>1, <3>2, <3>3, <4>1 DEF SatSub
    <3>4. CASE v > 0
      <4>1. position[s][w] # n
        BY <3>2, <3>4
      <4>2. outstanding' = outstanding
        BY <3>1, <4>1
      <4>3. Cardinality(Held(position')) = Cardinality(Held(position))
        BY <3>1, <3>2, <3>4, HeldAfterOne
      <4>4. QED
        BY <1>1, <4>2, <4>3
    <3>5. QED
      BY <3>2, <3>3, <3>4
  <2>3. QED
    BY <1>4, <2>1, <2>2 DEF ExitStep
<1>5. ASSUME NEW s \in Sectors,
             CloseVault(s) \/ EvictStep(s) \/ \E r \in VaultSettings : SettingsStep(s, r)
      PROVE  UNCHANGED <<position, outstanding>>
  BY <1>5 DEF CloseVault, EvictStep, SettingsStep, SetVault, shareVars
<1>6. ASSUME NEW w \in Wallets, NEW fee \in PerfFees, NEW allow \in BOOLEAN,
             CreateVault(w, fee, allow)
      PROVE  UNCHANGED <<position, outstanding>>
  BY <1>6 DEF CreateVault
<1>7. ASSUME SwapStep
      PROVE  UNCHANGED <<position, outstanding>>
  BY <1>7, SwapEffect DEF shareVars
<1>8. ASSUME CloseMarket \/ UNCHANGED vars \/ \E l \in Leg : TreasuryStep(l)
      PROVE  UNCHANGED <<position, outstanding>>
  BY <1>8 DEF CloseMarket, vars, shareVars, TreasuryStep, Donate, SweepResidual,
              CloseMarketTreasury, RecreateTreasury
<1>9. QED
  BY <1>2, <1>3, <1>4, <1>5, <1>6, <1>7, <1>8, NextShape

\* The position count: whatever the order of entries, partial exits, re-entries and forced
\* exits, and however sectors are reused, close_market's counter is the number of position
\* accounts that hold shares.
THEOREM PositionsAreCounted == Spec => []OutstandingExact
<1>1. Init => OutstandingExact
  <2> SUFFICES ASSUME Init
               PROVE  OutstandingExact
    OBVIOUS
  <2>1. {x \in Sectors \X Wallets : position[x[1]][x[2]] > 0} = {}
    BY DEF Init
  <2>2. QED
    BY <2>1, FS_EmptySet DEF Init, OutstandingExact
<1>2. QED
  BY <1>1, OutstandingStep, TypeCorrect, PTL DEF Spec

------------------------------------------------------------------------------
(* Successors. That a new vault's leader holds no position needs the sector *)
(* to be clean when it is handed out; later only outsiders are credited.    *)

\* Every instruction keeps leaders without a position and unseeded marks at one.
LEMMA SuccessorsStep ==
    ASSUME TypeOK, SlabInv, VacantSectorsAreClean, SuccessorsStartFresh, [Next]_vars
    PROVE  SuccessorsStartFresh'
<1> DEFINE Fresh(x) == LeaderIsNoDepositor(x) /\ UnseededMarkIsOne(x)
<1> SUFFICES ASSUME NEW x \in Sectors, Occupied(x)'
             PROVE  Fresh(x)'
  BY DEF SuccessorsStartFresh
<1>1. Occupied(x) => Fresh(x)
  BY DEF SuccessorsStartFresh
<1>2. /\ Occupied(x) <=> vault[x].leader # NoWallet
      /\ (Occupied(x) <=> vault[x].leader # NoWallet)'
  <2>1. SlabInv'
    BY SlabInvStep
  <2>2. QED
    BY <2>1 DEF SlabInv, SectorsMatch, Occupied
<1>3. ASSUME vault'[x].leader = vault[x].leader, vault'[x].hwm = vault[x].hwm,
             total'[x] = total[x], position'[x] = position[x]
      PROVE  Fresh(x)'
  BY <1>1, <1>2, <1>3 DEF LeaderIsNoDepositor, UnseededMarkIsOne
<1>4. ASSUME NEW w \in Wallets, NEW fee \in PerfFees, NEW allow \in BOOLEAN,
             CreateVault(w, fee, allow)
      PROVE  Fresh(x)'
  <2>1. position' = position
    BY <1>4 DEF CreateVault
  <2>2. CASE x = NextSector
    <3>1. vault[x].leader = NoWallet
      BY <1>4, <2>2, NextSectorVacant DEF CreateVault
    <3>2. position[x][w] = 0
      BY <3>1 DEF VacantSectorsAreClean
    <3>3. vault'[x].leader = w /\ vault'[x].hwm = QOne
      <4>1. vault'[NextSector].leader = w /\ vault'[NextSector].hwm = QOne
        BY <1>4, CreateEffect
      <4>2. QED
        BY <2>2, <4>1
    <3>4. QED
      BY <2>1, <3>2, <3>3 DEF LeaderIsNoDepositor, UnseededMarkIsOne
  <2>3. CASE x # NextSector
    <3>1. vault'[x] = vault[x] /\ total'[x] = total[x]
      BY <1>4, <2>3, CreateEffect
    <3>2. QED
      BY <1>3, <2>1, <3>1
  <2>4. QED
    BY <2>2, <2>3
<1>5. ASSUME NEW s \in Sectors, NEW n \in Nat, n > 0, NEW paid \in [Leg -> Nat],
             EnterStep(s, paid, n)
      PROVE  Fresh(x)'
  <2>1. CASE x # s
    <3>1. vault'[x] = vault[x] /\ total'[x] = total[x] /\ position'[x] = position[x]
      BY <1>5, <2>1, EnterEffect
    <3>2. QED
      BY <1>3, <3>1
  <2>2. CASE x = s
    <3>1. total'[x] > 0 /\ vault'[x].leader = vault[x].leader /\ total'[x] \in Nat
      BY <1>5, <2>2, EnterEffect
    <3>2. position[x][vault[x].leader] = 0
      BY <1>1, <1>2, <3>1 DEF LeaderIsNoDepositor
    <3>3. position'[x][vault[x].leader] = 0
      <4>1. CASE LeaderEnters(s, n)
        BY <3>2, <4>1 DEF LeaderEnters
      <4>2. ASSUME NEW w \in Wallets, OutsiderEnters(w, s, n)
            PROVE  position'[x][vault[x].leader] = 0
        <5>1. vault[x].leader # w /\ vault[x].leader \in Wallets
          BY <1>2, <2>2, <3>1, <4>2 DEF OutsiderEnters, Outsider, TypeOK, VaultSettings
        <5>2. position' = [position EXCEPT ![s][w] = position[s][w] + n]
          BY <4>2 DEF OutsiderEnters
        <5>3. QED
          BY <2>2, <3>2, <5>1, <5>2 DEF TypeOK
      <4>3. QED
        BY <1>5, <4>1, <4>2 DEF EnterStep
    <3>4. QED
      BY <3>1, <3>3 DEF LeaderIsNoDepositor, UnseededMarkIsOne
  <2>3. QED
    BY <2>1, <2>2
<1>6. ASSUME NEW s \in Sectors, NEW n \in Nat, n > 0, ExitStep(s, n)
      PROVE  Fresh(x)'
  <2>1. CASE x # s
    <3>1. vault'[x] = vault[x] /\ total'[x] = total[x] /\ position'[x] = position[x]
      BY <1>6, <2>1, ExitEffect
    <3>2. QED
      BY <1>3, <3>1
  <2>2. CASE x = s
    <3>1. total'[x] # 0 /\ vault'[x].leader = vault[x].leader
      BY <1>2, <1>6, <2>2, ExitEffect
    <3>2. position[x][vault[x].leader] = 0 /\ vault[x].leader \in Wallets
      BY <1>1, <1>2, <3>1 DEF LeaderIsNoDepositor, TypeOK, VaultSettings
    <3>3. position'[x][vault[x].leader] = 0
      <4>1. CASE LeaderLeaves(s, n)
        BY <3>2, <4>1 DEF LeaderLeaves
      <4>2. ASSUME NEW w \in Wallets, OutsiderLeaves(w, s, n)
            PROVE  position'[x][vault[x].leader] = 0
        <5>1. position[s][w] >= n /\ position[s][w] \in Nat
          BY <4>2, SizeAssumption, U64Assumption DEF OutsiderLeaves, TypeOK
        <5>2. vault[x].leader # w
          BY <1>6, <2>2, <3>2, <5>1
        <5>3. position' = [position EXCEPT ![s][w] = position[s][w] - n]
          BY <4>2 DEF OutsiderLeaves
        <5>4. QED
          BY <2>2, <3>2, <5>2, <5>3 DEF TypeOK
      <4>3. QED
        BY <1>6, <4>1, <4>2 DEF ExitStep
    <3>4. QED
      BY <3>1, <3>3 DEF LeaderIsNoDepositor, UnseededMarkIsOne
  <2>3. QED
    BY <2>1, <2>2
<1>7. ASSUME NEW s \in Sectors, CloseVault(s)
      PROVE  Fresh(x)'
  BY <1>3, <1>7 DEF CloseVault, TypeOK, VaultSettings, shareVars
<1>8. ASSUME NEW s \in Sectors, NEW r \in VaultSettings, SettingsStep(s, r)
      PROVE  Fresh(x)'
  BY <1>3, <1>8 DEF SettingsStep, SetVault, TypeOK, shareVars
<1>9. ASSUME NEW s \in Sectors, EvictStep(s)
      PROVE  Fresh(x)'
  <2>1. /\ vault' = [vault EXCEPT ![s].leader = NoWallet]
        /\ UNCHANGED <<total, position>>
    BY <1>9 DEF EvictStep, shareVars
  <2>2. CASE x = s
    BY <1>2, <2>1, <2>2 DEF TypeOK, VaultSettings
  <2>3. CASE x # s
    BY <1>3, <2>1, <2>3 DEF TypeOK
  <2>4. QED
    BY <2>2, <2>3
<1>10. ASSUME SwapStep \/ CloseMarket \/ UNCHANGED vars \/ \E l \in Leg : TreasuryStep(l)
       PROVE  Fresh(x)'
  <2>1. UNCHANGED <<vault, total, position>>
    BY <1>10, SwapEffect
       DEF CloseMarket, vars, shareVars, TreasuryStep, Donate, SweepResidual,
           CloseMarketTreasury, RecreateTreasury
  <2>2. QED
    BY <1>3, <2>1
<1>11. QED
  BY <1>4, <1>5, <1>6, <1>7, <1>8, <1>9, <1>10, NextShape

\* What the market remembers of positions: in every run in which no stored mark is cut
\* off, the count of position accounts is exact, no leader is a depositor of its own vault
\* though its sector may have had it as one before, and no vault starts from another's mark.
THEOREM PositionsStayAccounted == Spec /\ []MarksInRange => []PositionsAreAccounted
<1>1. Init => SuccessorsStartFresh
  BY DEF Init, SuccessorsStartFresh, Occupied, ZeroedVault
<1>2. /\ TypeOK /\ ShareInv /\ SharesAreBacked => VacantSectorsAreClean
      /\ TypeOK /\ SlabInv /\ VacantSectorsAreClean /\ SuccessorsStartFresh /\ [Next]_vars
           => SuccessorsStartFresh'
  BY VacantClean, SuccessorsStep
<1>3. OutstandingExact /\ SuccessorsStartFresh => PositionsAreAccounted
  BY DEF PositionsAreAccounted
<1>4. QED
  BY <1>1, <1>2, <1>3, TypeCorrect, SlabInOrder, SharesInOrder, BackingHolds,
     PositionsAreCounted, PTL DEF Spec

------------------------------------------------------------------------------
(* The end of the market.                                                   *)

\* A leg whose treasury is closed is in no vault, and a closed market has no shares.
ClosedLegsAreEmpty == \A l \in Leg : ~ata[l] => LegVaultSum(l) = 0
ClosedHasNoShares ==
    ~open => \A s \in Sectors : /\ total[s] = 0 /\ leaderShares[s] = 0
                                /\ \A w \in Wallets : position[s][w] = 0

\* No instruction raises a claim on a treasury that is not there: deposits, withdrawals
\* and swaps name both, creating a vault only zeroes a sector.
LEMMA ClosedLegsStep == TypeOK /\ ClosedLegsAreEmpty /\ [Next]_vars => ClosedLegsAreEmpty'
<1> SUFFICES ASSUME TypeOK, ClosedLegsAreEmpty, [Next]_vars, NEW l \in Leg, ~ata'[l]
             PROVE  LegVaultSum(l)' = 0
  BY DEF ClosedLegsAreEmpty
<1>1. ASSUME ata' = ata, BothTreasuries
      PROVE  FALSE
  BY <1>1 DEF BothTreasuries
<1>2. ASSUME ata' = ata, atoms' = atoms
      PROVE  LegVaultSum(l)' = 0
  BY <1>2 DEF ClosedLegsAreEmpty, LegVaultSum
<1>3. ASSUME NEW w \in Wallets, NEW fee \in PerfFees, NEW allow \in BOOLEAN,
             CreateVault(w, fee, allow)
      PROVE  LegVaultSum(l)' = 0
  <2>1. /\ NextSector \in Sectors /\ atoms'[l] = [atoms[l] EXCEPT ![NextSector] = 0]
        /\ atoms[l][NextSector] \in Nat
    <3>1. NextSector \in Sectors /\ atoms'[l] = [atoms[l] EXCEPT ![NextSector] = 0]
      BY <1>3, CreateEffect
    <3>2. QED
      BY <3>1 DEF TypeOK
  <2>2. ata' = ata
    BY <1>3 DEF CreateVault, moneyVars
  <2>3. LegVaultSum(l) = 0
    BY <2>2 DEF ClosedLegsAreEmpty
  <2>4. /\ LegVaultSum(l)' = LegVaultSum(l) - atoms[l][NextSector] + 0
        /\ atoms[l][NextSector] <= LegVaultSum(l)
    BY <2>1, SumAfterOne
  <2>5. QED
    BY <2>1, <2>3, <2>4
<1>4. ASSUME NEW s \in Sectors, NEW n \in Nat, NEW paid \in [Leg -> Nat], EnterStep(s, paid, n)
      PROVE  FALSE
  BY <1>1, <1>4 DEF EnterStep, TakeIn
<1>5. ASSUME NEW s \in Sectors, NEW n \in Nat, ExitStep(s, n)
      PROVE  FALSE
  BY <1>1, <1>5 DEF ExitStep, PayOut
<1>6. ASSUME SwapStep
      PROVE  FALSE
  BY <1>1, <1>6, SwapEffect
<1>7. ASSUME NEW s \in Sectors,
             CloseVault(s) \/ EvictStep(s) \/ \E r \in VaultSettings : SettingsStep(s, r)
      PROVE  LegVaultSum(l)' = 0
  BY <1>2, <1>7 DEF CloseVault, EvictStep, SettingsStep, SetVault, moneyVars
<1>8. ASSUME NEW k \in Leg, TreasuryStep(k)
      PROVE  LegVaultSum(l)' = 0
  <2>1. CASE Donate(k) \/ SweepResidual(k)
    BY <1>2, <2>1 DEF Donate, SweepResidual
  <2>2. CASE CloseMarketTreasury(k)
    <3>1. /\ LegVaultSum(k) = 0 /\ atoms' = atoms
          /\ ata' = [ata EXCEPT ![k] = FALSE]
      BY <2>2 DEF CloseMarketTreasury, CanCloseTreasury
    <3>2. l = k \/ ~ata[l]
      BY <3>1 DEF TypeOK
    <3>3. LegVaultSum(l) = 0
      BY <3>1, <3>2 DEF ClosedLegsAreEmpty
    <3>4. QED
      BY <3>1, <3>3 DEF LegVaultSum
  <2>3. CASE RecreateTreasury(k)
    <3>1. atoms' = atoms /\ ata' = [ata EXCEPT ![k] = TRUE]
      BY <2>3 DEF RecreateTreasury
    <3>2. ~ata[l]
      BY <3>1 DEF TypeOK
    <3>3. QED
      BY <3>1, <3>2 DEF ClosedLegsAreEmpty, LegVaultSum
  <2>4. QED
    BY <1>8, <2>1, <2>2, <2>3 DEF TreasuryStep
<1>9. CASE CloseMarket \/ UNCHANGED vars
  BY <1>2, <1>9 DEF CloseMarket, vars, moneyVars
<1>10. QED
  BY <1>3, <1>4, <1>5, <1>6, <1>7, <1>8, <1>9, NextShape

\* close_market finds no position and no treasury, hence no atom in any vault, hence no
\* share; and a closed market does nothing more.
LEMMA ClosedSharesStep ==
    (/\ TypeOK /\ SharesConserved /\ SharesAreBacked /\ OutstandingExact
     /\ ClosedLegsAreEmpty /\ ClosedHasNoShares /\ [Next]_vars)
      => ClosedHasNoShares'
<1> SUFFICES ASSUME TypeOK, SharesConserved, SharesAreBacked, OutstandingExact,
                    ClosedLegsAreEmpty, ClosedHasNoShares, [Next]_vars
             PROVE  ClosedHasNoShares'
  BY DEF ClosedHasNoShares
<1>1. CASE CloseMarket
  <2>1. UNCHANGED <<total, leaderShares, position>> /\ outstanding = 0 /\ \A l \in Leg : ~ata[l]
    BY <1>1 DEF CloseMarket, shareVars
  <2>2. ASSUME NEW s \in Sectors
        PROVE  /\ total[s] = 0 /\ leaderShares[s] = 0
               /\ \A w \in Wallets : position[s][w] = 0
    <3>1. ASSUME NEW l \in Leg
          PROVE  atoms[l][s] = 0
      <4>1. atoms[l] \in [Sectors -> Nat] /\ SumOf(atoms[l]) = 0
        BY <2>1 DEF ClosedLegsAreEmpty, LegVaultSum, TypeOK
      <4>2. QED
        BY <4>1, SectorsFinite, SumZero
    <3>2. total[s] = 0
      BY <3>1 DEF SharesAreBacked
    <3>3. position[s] \in [Wallets -> Nat] /\ leaderShares[s] \in Nat
      BY SizeAssumption, U64Assumption DEF TypeOK
    <3>4. SumOf(position[s]) \in Nat
      BY <3>3, FiniteAssumption, SumType
    <3>5. total[s] = leaderShares[s] + SumOf(position[s])
      BY DEF SharesConserved
    <3>6. leaderShares[s] = 0 /\ SumOf(position[s]) = 0
      BY <3>2, <3>3, <3>4, <3>5
    <3>7. \A w \in Wallets : position[s][w] = 0
      BY <3>3, <3>6, FiniteAssumption, SumZero
    <3>8. QED
      BY <3>2, <3>6, <3>7
  <2>3. QED
    BY <2>1, <2>2 DEF ClosedHasNoShares
<1>2. CASE UNCHANGED vars
  BY <1>2 DEF ClosedHasNoShares, vars, shareVars
<1>3. ASSUME ~CloseMarket, ~UNCHANGED vars
      PROVE  open'
  <2>1. ASSUME NEW w \in Wallets, NEW fee \in PerfFees, NEW allow \in BOOLEAN,
               CreateVault(w, fee, allow)
        PROVE  open'
    BY <2>1 DEF CreateVault
  <2>2. ASSUME NEW s \in Sectors, NEW n \in Nat, NEW paid \in [Leg -> Nat],
               EnterStep(s, paid, n)
        PROVE  open'
    BY <2>2 DEF EnterStep
  <2>3. ASSUME NEW s \in Sectors, NEW n \in Nat, ExitStep(s, n)
        PROVE  open'
    BY <2>3 DEF ExitStep
  <2>4. ASSUME NEW s \in Sectors, CloseVault(s) \/ EvictStep(s)
        PROVE  open'
    <3>1. CASE CloseVault(s)
      BY <3>1 DEF CloseVault
    <3>2. CASE EvictStep(s)
      BY <3>2 DEF EvictStep
    <3>3. QED
      BY <2>4, <3>1, <3>2
  <2>5. ASSUME NEW s \in Sectors, NEW r \in VaultSettings, SettingsStep(s, r)
        PROVE  open'
    BY <2>5 DEF SettingsStep, SetVault
  <2>6. ASSUME SwapStep \/ \E l \in Leg : TreasuryStep(l)
        PROVE  open'
    BY <2>6, SwapEffect DEF TreasuryStep, Donate, SweepResidual, CloseMarketTreasury,
                            RecreateTreasury
  <2>7. QED
    BY <1>3, <2>1, <2>2, <2>3, <2>4, <2>5, <2>6, NextShape
<1>4. QED
  BY <1>1, <1>2, <1>3 DEF ClosedHasNoShares

\* The end of a market: in every run in which no stored mark is cut off, a treasury is
\* closed under no claim and none arises while it is, and a closed market owes no share
\* to anybody.
THEOREM ClosedMarketsHavePaid == Spec /\ []MarksInRange => []ClosedMeansPaidOut
<1>1. Init => ClosedLegsAreEmpty /\ ClosedHasNoShares
  BY DEF Init, ClosedLegsAreEmpty, ClosedHasNoShares
<1>2. TypeOK /\ ClosedLegsAreEmpty /\ [Next]_vars => ClosedLegsAreEmpty'
  BY ClosedLegsStep
<1>3. (/\ TypeOK /\ SharesConserved /\ SharesAreBacked /\ OutstandingExact
       /\ ClosedLegsAreEmpty /\ ClosedHasNoShares /\ [Next]_vars)
        => ClosedHasNoShares'
  BY ClosedSharesStep
<1>4. ClosedLegsAreEmpty /\ ClosedHasNoShares => ClosedMeansPaidOut
  BY DEF ClosedLegsAreEmpty, ClosedHasNoShares, ClosedMeansPaidOut
<1>5. QED
  BY <1>1, <1>2, <1>3, <1>4, TypeCorrect, SharesAreConserved, BackingHolds,
     PositionsAreCounted, PTL DEF Spec

------------------------------------------------------------------------------
(* Getting out. Accrual multiplies three amounts in u128 and the program    *)
(* refuses when that overflows; what stands between a share and its slice   *)
(* is that and nothing else.                                                *)

\* No vault's fee overflows the width it is computed in.
FeesFit == \A s \in Sectors : FeeProductFits(s)

\* Two parts of a whole multiply to a quarter of its square at the most.
LEMMA PartsMultiply ==
    ASSUME NEW t \in Nat, NEW x \in Nat
    PROVE  4 * (t * x) <= (t + x) * (t + x)
<1>1. CASE t <= x
  <2>1. PICK u \in Nat : x = t + u
    BY <1>1
  <2>2. (t + x) * (t + x) = 4 * (t * x) + u * u
    BY <2>1
  <2>3. u * u \in Nat /\ t * x \in Nat
    BY <2>1, TimesType
  <2>4. QED
    BY <2>2, <2>3
<1>2. CASE x <= t
  <2>1. PICK u \in Nat : t = x + u
    BY <1>2
  <2>2. (t + x) * (t + x) = 4 * (t * x) + u * u
    BY <2>1
  <2>3. u * u \in Nat /\ t * x \in Nat
    BY <2>1, TimesType
  <2>4. QED
    BY <2>2, <2>3
<1>3. QED
  BY <1>1, <1>2

\* A fee fits as long as a quarter of the square of the vault's value, at the highest rate,
\* does: supply and gain add up to the value at the most.
LEMMA ModestFeesFit ==
    ASSUME TypeOK, MarksAtLeastOne, NEW s \in Sectors, vault[s].leader # NoWallet,
           LET L == ValueOf(atoms["base"][s], atoms["quote"][s]) IN PPM * (L * L) <= 4 * MaxU128
    PROVE  FeeProductFits(s)
<1> DEFINE L == ValueOf(atoms["base"][s], atoms["quote"][s])
           h == MarkOf(vault[s].hwm, total[s])
           t == total[s]
           r == vault[s].perfFee
<1>1. SUFFICES ASSUME L > h
               PROVE  r * t * (L - h) <= MaxU128
  BY DEF FeeProductFits
<1>2. t \in Nat /\ vault[s].hwm \in Nat /\ vault[s].hwm >= QOne /\ r \in 0 .. PPM
  BY SizeAssumption, U64Assumption DEF TypeOK, VaultSettings, MarksAtLeastOne
<1>3. atoms["base"][s] \in Nat /\ atoms["quote"][s] \in Nat
  BY DEF TypeOK, Leg
<1>4. L \in Nat
  BY <1>3, TimesType, IsqrtType DEF ValueOf
<1>5. h \in Nat /\ h >= t
  BY <1>2, MarkType
<1>6. PPM * (L * L) <= 4 * MaxU128
  OBVIOUS
<1> HIDE DEF L, h, t, r
<1> DEFINE x == L - t
           a == t * (L - h)
           c == t * x
           b == L * L
<1>7. x \in Nat /\ L - h \in Nat /\ L - h <= x /\ t + x = L
  BY <1>1, <1>2, <1>4, <1>5
<1>8. r \in Nat /\ PPM \in Nat /\ r <= PPM
  BY <1>2, PPMAssumption
<1> HIDE DEF x
<1>9. a \in Nat /\ c \in Nat /\ b \in Nat /\ a <= c
  <2>1. (L - h) * t <= x * t
    BY <1>2, <1>7, TimesMono
  <2>2. QED
    BY <1>2, <1>4, <1>7, <2>1, TimesType
<1>10. 4 * c <= b /\ PPM * b <= 4 * MaxU128
  <2>1. 4 * (t * x) <= (t + x) * (t + x)
    BY <1>2, <1>7, PartsMultiply
  <2>2. QED
    BY <1>6, <1>7, <2>1
<1>11. r * t * (L - h) = r * a
  BY <1>2, <1>4, <1>7, <1>8
<1> HIDE DEF a, b, c
<1>12. r * a <= PPM * c /\ r * a \in Nat /\ PPM * c \in Nat
  <2>1. r * a <= PPM * a
    BY <1>8, <1>9, TimesMono
  <2>2. a * PPM <= c * PPM
    BY <1>8, <1>9, TimesMono
  <2>3. PPM * a = a * PPM /\ PPM * c = c * PPM
    BY <1>8, <1>9
  <2>4. r * a \in Nat /\ PPM * a \in Nat /\ PPM * c \in Nat
    BY <1>8, <1>9, TimesType
  <2>5. QED
    BY <2>1, <2>2, <2>3, <2>4
<1>13. 4 * (PPM * c) <= 4 * MaxU128
  <2>1. 4 * c \in Nat
    BY <1>9
  <2>2. (4 * c) * PPM <= b * PPM
    BY <1>8, <1>9, <1>10, <2>1, TimesMono
  <2>3. (4 * c) * PPM = 4 * (PPM * c) /\ b * PPM = PPM * b
    BY <1>8, <1>9
  <2>4. PPM * b \in Nat
    BY <1>8, <1>9, TimesType
  <2>5. QED
    BY <1>10, <1>12, <2>2, <2>3, <2>4, SizeAssumption
<1>14. QED
  BY <1>11, <1>12, <1>13, SizeAssumption

\* Whoever holds shares is in an occupied sector, holds no more than its supply, and the
\* slice they burn for is in the treasury.
LEMMA SharesCanExit ==
    ASSUME TypeOK, Custody, SharesConserved, SlabInv, VacantSectorsAreClean, FeesFit
    PROVE  EveryShareCanExit
<1> SUFFICES ASSUME NEW s \in Sectors, NEW w \in Wallets, position[s][w] > 0
             PROVE  /\ Occupied(s) /\ FeeProductFits(s)
                    /\ position[s][w] <= TotalAfterFee(s)
                    /\ \A l \in Leg : Slice(s, position[s][w])[l] <= treasury[l]
  BY DEF EveryShareCanExit
<1> DEFINE p == position[s][w]
<1>1. Occupied(s)
  <2>1. position[s][w] # 0
    BY SizeAssumption, U64Assumption DEF TypeOK
  <2>2. vault[s].leader # NoWallet
    BY <2>1 DEF VacantSectorsAreClean
  <2>3. QED
    BY <2>2 DEF SlabInv, SectorsMatch, Occupied
<1>2. /\ p \in Nat /\ p <= TotalAfterFee(s)
      /\ TotalAfterFee(s) \in Nat /\ TotalAfterFee(s) > 0
  <2>1. p \in Nat /\ SumOf(position[s]) \in Nat /\ p <= SumOf(position[s])
    <3>1. 0 \in Nat
      OBVIOUS
    <3>2. QED
      BY <3>1, PositionAfterOne
  <2>2. total[s] \in Nat /\ leaderShares[s] \in Nat
    BY SizeAssumption, U64Assumption DEF TypeOK
  <2>3. total[s] = leaderShares[s] + SumOf(position[s])
    BY DEF SharesConserved
  <2>4. TotalAfterFee(s) \in Nat /\ TotalAfterFee(s) >= total[s]
    BY FeeOfVault, SizeAssumption, U64Assumption
  <2>5. QED
    BY <2>1, <2>2, <2>3, <2>4
<1>3. ASSUME NEW l \in Leg
      PROVE  Slice(s, p)[l] <= treasury[l]
  <2>1. Slice(s, p)[l] = SliceOf(p, TotalAfterFee(s), atoms[l][s])
    BY DEF Slice
  <2>2. atoms[l] \in [Sectors -> Nat]
    BY DEF TypeOK
  <2>3. /\ atoms[l][s] \in Nat /\ atoms[l][s] <= LegVaultSum(l) /\ LegVaultSum(l) \in Nat
    BY <2>2, SectorsFinite, SumExcept, SumType DEF LegVaultSum
  <2>4. SliceOf(p, TotalAfterFee(s), atoms[l][s]) \in 0 .. atoms[l][s]
    <3>1. p \in 0 .. TotalAfterFee(s) /\ atoms[l][s] \in Nat
      BY <1>2, <2>3
    <3> HIDE DEF p
    <3>2. QED
      BY <1>2, <3>1, SliceFits
  <2>5. /\ treasury[l] >= LegVaultSum(l) + accrued[l]
        /\ treasury[l] \in Nat /\ accrued[l] \in Nat
    BY SizeAssumption, U64Assumption DEF Custody, TypeOK
  <2>6. QED
    BY <2>1, <2>3, <2>4, <2>5
<1>4. QED
  BY <1>1, <1>2, <1>3 DEF FeesFit

\* Nothing is stranded: in every run in which no stored mark is cut off and no fee
\* overflows, every share can be burned for its slice while the treasuries exist, whatever
\* the flags, floors and fills before, and every atom in a vault belongs to a share.
THEOREM NothingStaysStranded ==
    Spec /\ []MarksInRange /\ []FeesFit => []NothingIsStranded
<1>1. TypeOK /\ ShareInv /\ SharesAreBacked => VacantSectorsAreClean
  BY VacantClean
<1>2. (/\ TypeOK /\ Custody /\ SharesConserved /\ SlabInv /\ VacantSectorsAreClean
       /\ FeesFit) => EveryShareCanExit
  BY SharesCanExit
<1>3. EveryShareCanExit /\ SharesAreBacked => NothingIsStranded
  BY DEF NothingIsStranded
<1>4. QED
  BY <1>1, <1>2, <1>3, TypeCorrect, CustodyHolds, SharesAreConserved, SharesInOrder,
     SlabInOrder, BackingHolds, PTL

------------------------------------------------------------------------------
(* What no step may do to those who stay.                                   *)

\* One vault's side of NoDilution.
NotDiluted(s) ==
    total[s] > 0 /\ total'[s] > 0 /\ HoldersChange(s) =>
        \A l \in Leg : atoms'[l][s] * TotalAfterFee(s) >= atoms[l][s] * total'[s]

\* Buying adds to each leg at least, burning takes off it at most, the bought or burned
\* part of it.
LEMMA DilutionStep == TypeOK /\ [Next]_vars => \A s \in Sectors : NotDiluted(s)
<1> SUFFICES ASSUME TypeOK, [Next]_vars, NEW x \in Sectors, total[x] > 0, total'[x] > 0,
                    HoldersChange(x), NEW l \in Leg
             PROVE  atoms'[l][x] * TotalAfterFee(x) >= atoms[l][x] * total'[x]
  BY DEF NotDiluted
<1>1. ASSUME leaderShares'[x] = leaderShares[x], position'[x] = position[x]
      PROVE  FALSE
  BY <1>1 DEF HoldersChange
<1>2. ASSUME UNCHANGED <<leaderShares, position>>
      PROVE  FALSE
  BY <1>1, <1>2
<1>3. ASSUME NEW w \in Wallets, NEW fee \in PerfFees, NEW allow \in BOOLEAN,
             CreateVault(w, fee, allow)
      PROVE  FALSE
  <2>1. x # NextSector
    <3>1. total'[NextSector] = 0
      BY <1>3, CreateEffect
    <3>2. QED
      BY <3>1
  <2>2. leaderShares'[x] = leaderShares[x]
    BY <1>3, <2>1, CreateEffect
  <2>3. position' = position
    BY <1>3 DEF CreateVault
  <2>4. QED
    BY <1>1, <2>2, <2>3
<1>4. atoms[l][x] \in Nat /\ total[x] \in Nat
  BY SizeAssumption, U64Assumption DEF TypeOK
<1>5. TotalAfterFee(x) \in Nat /\ TotalAfterFee(x) > 0
  <2>1. TotalAfterFee(x) \in Nat /\ TotalAfterFee(x) >= total[x]
    BY FeeOfVault, SizeAssumption, U64Assumption
  <2>2. QED
    BY <1>4, <2>1
<1>6. ASSUME NEW s \in Sectors, NEW n \in Nat, n > 0, NEW paid \in [Leg -> Nat],
             EnterStep(s, paid, n)
      PROVE  atoms'[l][x] * TotalAfterFee(x) >= atoms[l][x] * total'[x]
  <2>1. x = s
    BY <1>1, <1>6, EnterEffect
  <2>2. paid[l] = BasketCost(n, TotalAfterFee(x), atoms[l][x])
    BY <1>6, <2>1 DEF EnterStep, Cost
  <2>3. /\ total'[x] = TotalAfterFee(x) + n
        /\ atoms'[l][x] = atoms[l][x] + paid[l]
    BY <1>6, <2>1, EnterEffect
  <2>4. QED
    BY <1>4, <1>5, <1>6, <2>2, <2>3, BasketKeepsValue
<1>7. ASSUME NEW s \in Sectors, NEW n \in Nat, n > 0, ExitStep(s, n)
      PROVE  atoms'[l][x] * TotalAfterFee(x) >= atoms[l][x] * total'[x]
  <2>1. x = s
    BY <1>1, <1>7, ExitEffect
  <2>2. /\ total'[x] = TotalAfterFee(x) - n
        /\ atoms'[l][x] = atoms[l][x] - SliceOf(n, TotalAfterFee(x), atoms[l][x])
    BY <1>7, <2>1, ExitEffect
  <2>3. n \in 0 .. TotalAfterFee(x)
    BY <1>5, <1>7, <2>1 DEF ExitStep
  <2>4. QED
    BY <1>4, <1>5, <2>2, <2>3, SliceKeepsValue
<1>8. ASSUME NEW s \in Sectors, CloseVault(s) \/ EvictStep(s)
      PROVE  FALSE
  <2>1. CASE CloseVault(s)
    BY <1>2, <2>1 DEF CloseVault, shareVars
  <2>2. CASE EvictStep(s)
    BY <1>2, <2>2 DEF EvictStep, shareVars
  <2>3. QED
    BY <1>8, <2>1, <2>2
<1>9. ASSUME NEW s \in Sectors, NEW r \in VaultSettings, SettingsStep(s, r)
      PROVE  FALSE
  BY <1>2, <1>9 DEF SettingsStep, SetVault, shareVars
<1>10. ASSUME SwapStep \/ CloseMarket \/ UNCHANGED vars \/ \E k \in Leg : TreasuryStep(k)
       PROVE  FALSE
  BY <1>2, <1>10, SwapEffect
     DEF CloseMarket, vars, shareVars, TreasuryStep, Donate, SweepResidual,
         CloseMarketTreasury, RecreateTreasury
<1>11. QED
  BY <1>3, <1>6, <1>7, <1>8, <1>9, <1>10, NextShape

\* No dilution: whoever deposits or withdraws, and whatever fee the vault owes its leader
\* when they do, what a share of those who stay is worth does not shrink on either leg.
THEOREM NobodyIsDiluted == Spec => NoDilution
<1>1. TypeOK /\ [Next]_vars =>
        \A s \in Sectors :
          total[s] > 0 /\ total'[s] > 0 /\ HoldersChange(s) =>
              \A l \in Leg : atoms'[l][s] * TotalAfterFee(s) >= atoms[l][s] * total'[s]
  BY DilutionStep DEF NotDiluted
<1>2. QED
  BY <1>1, TypeCorrect, PTL DEF Spec, NoDilution

------------------------------------------------------------------------------
(* What binds a vault's leader.                                             *)

\* One vault's side of WindingDownOnlyShrinks and of FloorIsKept.
OnlyShrinks(s) ==
    Occupied(s) /\ WindingDown(s) =>
        /\ total'[s] <= total[s] /\ leaderShares'[s] <= leaderShares[s]
        /\ vault'[s].hwm = vault[s].hwm
\* Unless the admin evicts them, a leader who meets the floor still does.
KeepsFloor(s) ==
    \/ ForceWithdrawLeader(s)
    \/ Live(s) /\ Live(s)' /\ vault'[s].floor = vault[s].floor
       /\ MinLeaderShareOk(leaderShares[s], total[s], vault[s].floor)
       => MinLeaderShareOk(leaderShares'[s], total'[s], vault[s].floor)

\* A vault that winds down accrues nothing.
LEMMA WindingDownMintsNothing ==
    ASSUME TypeOK, NEW s \in Sectors, WindingDown(s)
    PROVE  /\ TotalAfterFee(s) = total[s] /\ LeaderAfterFee(s) = leaderShares[s]
           /\ MarkAfterFee(s) = vault[s].hwm
<1>1. total[s] \in 0 .. MaxU64 /\ leaderShares[s] \in 0 .. MaxU64
  BY DEF TypeOK
<1>2. Minted(s) = 0
  BY DEF Minted
<1>3. QED
  BY <1>1, <1>2, SizeAssumption, U64Assumption DEF TotalAfterFee, LeaderAfterFee, MarkAfterFee, SatAdd

\* The fee's mint keeps the leader above the floor, even where the additions saturate.
LEMMA FloorAfterFee ==
    ASSUME TypeOK, NEW s \in Sectors,
           MinLeaderShareOk(leaderShares[s], total[s], vault[s].floor)
    PROVE  MinLeaderShareOk(LeaderAfterFee(s), TotalAfterFee(s), vault[s].floor)
<1> DEFINE k == leaderShares[s]
           t == total[s]
           m == Minted(s)
           f == vault[s].floor
<1>1. k \in Nat /\ t \in Nat /\ k <= MaxU64 /\ t <= MaxU64
  BY SizeAssumption, U64Assumption DEF TypeOK
<1>2. m \in Nat
  BY FeeOfVault
<1>3. f \in 0 .. PPM
  BY DEF TypeOK, VaultSettings
<1>4. /\ LeaderAfterFee(s) = IF k + m > MaxU64 THEN MaxU64 ELSE k + m
      /\ TotalAfterFee(s) = IF t + m > MaxU64 THEN MaxU64 ELSE t + m
  BY DEF LeaderAfterFee, TotalAfterFee, SatAdd
<1>5. MinLeaderShareOk(k, t, f)
  OBVIOUS
<1> HIDE DEF k, t, m, f
<1>6. LeaderAfterFee(s) \in Nat /\ TotalAfterFee(s) \in Nat
  BY FeeOfVault, SizeAssumption, U64Assumption
<1>7. CASE k + m > MaxU64
  <2>1. LeaderAfterFee(s) = MaxU64 /\ TotalAfterFee(s) <= MaxU64 /\ MaxU64 \in Nat
    BY <1>1, <1>2, <1>4, <1>7, SizeAssumption, U64Assumption
  <2>2. MinLeaderShareOk(0, 0, f)
    <3>1. f \in Nat /\ PPM \in Nat
      BY <1>3, PPMAssumption
    <3>2. 0 * PPM = 0 /\ f * 0 = 0
      BY <3>1
    <3>3. QED
      BY <3>2 DEF MinLeaderShareOk
  <2>3. MinLeaderShareOk(0 + MaxU64, 0 + MaxU64, f)
    BY <1>3, <2>1, <2>2, FloorAfterMint
  <2>4. 0 + MaxU64 = MaxU64
    BY <2>1
  <2>5. MinLeaderShareOk(MaxU64, MaxU64, f)
    BY <2>3, <2>4
  <2>6. QED
    BY <1>3, <1>6, <2>1, <2>5, FloorMono DEF f
<1>8. CASE ~(k + m > MaxU64)
  <2>1. MinLeaderShareOk(k + m, t + m, f)
    BY <1>1, <1>2, <1>3, <1>5, FloorAfterMint
  <2>2. /\ LeaderAfterFee(s) = k + m /\ TotalAfterFee(s) <= t + m
        /\ k + m \in Nat /\ t + m \in Nat
    BY <1>1, <1>2, <1>4, <1>8, SizeAssumption, U64Assumption
  <2>3. QED
    BY <1>3, <1>6, <2>1, <2>2, FloorMono DEF f
<1>9. QED
  BY <1>7, <1>8

\* A deposit: nothing for a vault that winds down; the leader's own keeps them above the
\* floor, an outsider's is checked against it.
LEMMA EnterBinds ==
    ASSUME TypeOK, NEW s \in Sectors, NEW n \in Nat, n > 0, NEW paid \in [Leg -> Nat],
           EnterStep(s, paid, n)
    PROVE  OnlyShrinks(s) /\ KeepsFloor(s)
<1>1. Live(s)
  BY DEF EnterStep
<1>2. OnlyShrinks(s)
  BY <1>1 DEF OnlyShrinks, Live
<1>3. /\ total'[s] = TotalAfterFee(s) + n /\ TotalAfterFee(s) \in Nat
      /\ LeaderAfterFee(s) \in Nat
  BY EnterEffect, FeeOfVault, SizeAssumption, U64Assumption
<1>4. vault[s].floor \in 0 .. PPM /\ leaderShares \in [Sectors -> 0 .. MaxU64]
  BY DEF TypeOK, VaultSettings
<1>5. ASSUME MinLeaderShareOk(leaderShares[s], total[s], vault[s].floor)
      PROVE  MinLeaderShareOk(leaderShares'[s], total'[s], vault[s].floor)
  <2>1. CASE LeaderEnters(s, n)
    <3>1. leaderShares'[s] = LeaderAfterFee(s) + n
      BY <1>4, <2>1 DEF LeaderEnters
    <3>2. MinLeaderShareOk(LeaderAfterFee(s), TotalAfterFee(s), vault[s].floor)
      BY <1>5, FloorAfterFee
    <3>3. MinLeaderShareOk(LeaderAfterFee(s) + n, TotalAfterFee(s) + n, vault[s].floor)
      BY <1>3, <1>4, <3>2, FloorAfterMint
    <3>4. QED
      BY <1>3, <3>1, <3>3
  <2>2. ASSUME NEW w \in Wallets, OutsiderEnters(w, s, n)
        PROVE  MinLeaderShareOk(leaderShares'[s], total'[s], vault[s].floor)
    <3>1. leaderShares'[s] = LeaderAfterFee(s)
      BY <1>4, <2>2 DEF OutsiderEnters
    <3>2. QED
      BY <1>3, <2>2, <3>1 DEF OutsiderEnters, DepositKeepsFloor
  <2>3. QED
    BY <2>1, <2>2 DEF EnterStep
<1>6. QED
  BY <1>2, <1>5 DEF KeepsFloor

\* A withdrawal: of a vault that winds down it takes what it burns; the leader's own is
\* checked against the floor unless the admin forces it, another's only shrinks the supply.
LEMMA ExitBinds ==
    ASSUME TypeOK, NEW s \in Sectors, NEW n \in Nat, n > 0, ExitStep(s, n)
    PROVE  OnlyShrinks(s) /\ KeepsFloor(s)
<1>1. /\ total'[s] = TotalAfterFee(s) - n /\ TotalAfterFee(s) \in Nat /\ total'[s] \in Nat
      /\ vault'[s].hwm = MarkAfterFee(s)
      /\ vault'[s].leader = (IF total'[s] = 0 THEN NoWallet ELSE vault[s].leader)
  BY ExitEffect
<1>2. LeaderAfterFee(s) \in Nat
  BY FeeOfVault, SizeAssumption, U64Assumption
<1>3. /\ vault[s].floor \in 0 .. PPM /\ leaderShares \in [Sectors -> 0 .. MaxU64]
      /\ leaderShares[s] \in Nat /\ total[s] \in Nat
  BY SizeAssumption, U64Assumption DEF TypeOK, VaultSettings
<1>4. /\ leaderShares'[s] = LeaderAfterFee(s) - n \/ leaderShares'[s] = LeaderAfterFee(s)
      /\ leaderShares'[s] <= LeaderAfterFee(s)
  <2>1. CASE LeaderLeaves(s, n)
    BY <1>2, <1>3, <2>1 DEF LeaderLeaves
  <2>2. CASE \E w \in Wallets : OutsiderLeaves(w, s, n)
    BY <1>2, <1>3, <2>2 DEF OutsiderLeaves
  <2>3. QED
    BY <2>1, <2>2 DEF ExitStep
<1>5. OnlyShrinks(s)
  <2>1. ASSUME WindingDown(s)
        PROVE  /\ total'[s] <= total[s] /\ leaderShares'[s] <= leaderShares[s]
               /\ vault'[s].hwm = vault[s].hwm
    <3>1. /\ TotalAfterFee(s) = total[s] /\ LeaderAfterFee(s) = leaderShares[s]
          /\ MarkAfterFee(s) = vault[s].hwm
      BY <2>1, WindingDownMintsNothing
    <3>2. QED
      BY <1>1, <1>3, <1>4, <3>1
  <2>2. QED
    BY <2>1 DEF OnlyShrinks
<1>6. ASSUME ~ForceWithdrawLeader(s), Live(s), Live(s)',
             MinLeaderShareOk(leaderShares[s], total[s], vault[s].floor)
      PROVE  MinLeaderShareOk(leaderShares'[s], total'[s], vault[s].floor)
  <2>1. CASE LeaderLeaves(s, n)
    <3>1. leaderShares'[s] = LeaderAfterFee(s) - n
      BY <1>3, <2>1 DEF LeaderLeaves
    <3>2. total'[s] # 0
      BY <1>1, <1>6 DEF Live, Occupied
    <3>3. WithdrawKeepsFloor(s, n) \/ \E w \in Wallets : OutsiderLeaves(w, s, n)
      BY <1>6 DEF ExitStep
    <3>4. CASE WithdrawKeepsFloor(s, n)
      BY <1>1, <1>6, <3>1, <3>2, <3>4 DEF WithdrawKeepsFloor, Live
    <3>5. CASE \E w \in Wallets : OutsiderLeaves(w, s, n)
      <4>1. leaderShares'[s] = LeaderAfterFee(s)
        BY <1>3, <3>5 DEF OutsiderLeaves
      <4>2. QED
        BY <1>2, <3>1, <4>1
    <3>6. QED
      BY <3>3, <3>4, <3>5
  <2>2. CASE \E w \in Wallets : OutsiderLeaves(w, s, n)
    <3>1. leaderShares'[s] = LeaderAfterFee(s)
      BY <1>3, <2>2 DEF OutsiderLeaves
    <3>2. MinLeaderShareOk(LeaderAfterFee(s), TotalAfterFee(s), vault[s].floor)
      BY <1>6, FloorAfterFee
    <3>3. total'[s] <= TotalAfterFee(s) /\ LeaderAfterFee(s) <= LeaderAfterFee(s)
      BY <1>1, <1>2
    <3>4. QED
      BY <1>1, <1>2, <1>3, <3>1, <3>2, <3>3, FloorMono
  <2>3. QED
    BY <2>1, <2>2 DEF ExitStep
<1>7. QED
  BY <1>5, <1>6 DEF KeepsFloor

\* Every instruction, on every vault.
LEMMA BoundStep ==
    TypeOK /\ SlabInv /\ [Next]_vars => \A s \in Sectors : OnlyShrinks(s) /\ KeepsFloor(s)
<1> SUFFICES ASSUME TypeOK, SlabInv, [Next]_vars, NEW x \in Sectors
             PROVE  OnlyShrinks(x) /\ KeepsFloor(x)
  BY DEF OnlyShrinks
<1>1. ASSUME leaderShares'[x] = leaderShares[x], total'[x] = total[x],
             vault'[x].hwm = vault[x].hwm
      PROVE  OnlyShrinks(x) /\ KeepsFloor(x)
  <2>1. leaderShares[x] \in Nat /\ total[x] \in Nat
    BY SizeAssumption, U64Assumption DEF TypeOK
  <2>2. QED
    BY <1>1, <2>1 DEF OnlyShrinks, KeepsFloor
<1>2. ASSUME NEW w \in Wallets, NEW fee \in PerfFees, NEW allow \in BOOLEAN,
             CreateVault(w, fee, allow)
      PROVE  OnlyShrinks(x) /\ KeepsFloor(x)
  <2>1. CASE x = NextSector
    <3>1. vault[x].leader = NoWallet
      BY <1>2, <2>1, NextSectorVacant DEF CreateVault
    <3>2. ~Occupied(x) /\ ~Live(x)
      BY <3>1 DEF Occupied, Live
    <3>3. QED
      BY <3>2 DEF OnlyShrinks, KeepsFloor
  <2>2. CASE x # NextSector
    <3>1. vault'[x] = vault[x] /\ total'[x] = total[x] /\ leaderShares'[x] = leaderShares[x]
      BY <1>2, <2>2, CreateEffect
    <3>2. QED
      BY <1>1, <3>1
  <2>3. QED
    BY <2>1, <2>2
<1>3. ASSUME NEW s \in Sectors, NEW n \in Nat, n > 0, NEW paid \in [Leg -> Nat],
             EnterStep(s, paid, n)
      PROVE  OnlyShrinks(x) /\ KeepsFloor(x)
  <2>1. CASE x = s
    BY <1>3, <2>1, EnterBinds
  <2>2. CASE x # s
    <3>1. vault'[x] = vault[x] /\ total'[x] = total[x] /\ leaderShares'[x] = leaderShares[x]
      BY <1>3, <2>2, EnterEffect
    <3>2. QED
      BY <1>1, <3>1
  <2>3. QED
    BY <2>1, <2>2
<1>4. ASSUME NEW s \in Sectors, NEW n \in Nat, n > 0, ExitStep(s, n)
      PROVE  OnlyShrinks(x) /\ KeepsFloor(x)
  <2>1. CASE x = s
    BY <1>4, <2>1, ExitBinds
  <2>2. CASE x # s
    <3>1. vault'[x] = vault[x] /\ total'[x] = total[x] /\ leaderShares'[x] = leaderShares[x]
      BY <1>4, <2>2, ExitEffect
    <3>2. QED
      BY <1>1, <3>1
  <2>3. QED
    BY <2>1, <2>2
<1>5. ASSUME NEW s \in Sectors, CloseVault(s)
      PROVE  OnlyShrinks(x) /\ KeepsFloor(x)
  <2>1. UNCHANGED <<total, leaderShares>> /\ vault' = [vault EXCEPT ![s].tombstoned = TRUE]
    BY <1>5 DEF CloseVault, shareVars
  <2>2. vault'[x].hwm = vault[x].hwm
    BY <2>1 DEF TypeOK, VaultSettings
  <2>3. QED
    BY <1>1, <2>1, <2>2
<1>6. ASSUME NEW s \in Sectors, EvictStep(s)
      PROVE  OnlyShrinks(x) /\ KeepsFloor(x)
  <2>1. UNCHANGED <<total, leaderShares>> /\ vault' = [vault EXCEPT ![s].leader = NoWallet]
    BY <1>6 DEF EvictStep, shareVars
  <2>2. vault'[x].hwm = vault[x].hwm
    BY <2>1 DEF TypeOK, VaultSettings
  <2>3. QED
    BY <1>1, <2>1, <2>2
<1>7. ASSUME NEW s \in Sectors, NEW r \in VaultSettings, SettingsStep(s, r)
      PROVE  OnlyShrinks(x) /\ KeepsFloor(x)
  <2>1. /\ UNCHANGED <<total, leaderShares>>
        /\ vault' = [vault EXCEPT ![s] = r] /\ r.hwm = vault[s].hwm
    BY <1>7 DEF SettingsStep, SetVault, shareVars
  <2>2. vault'[x].hwm = vault[x].hwm
    BY <2>1 DEF TypeOK
  <2>3. QED
    BY <1>1, <2>1, <2>2
<1>8. ASSUME SwapStep \/ CloseMarket \/ UNCHANGED vars \/ \E k \in Leg : TreasuryStep(k)
      PROVE  OnlyShrinks(x) /\ KeepsFloor(x)
  <2>1. UNCHANGED <<vault, total, leaderShares>>
    BY <1>8, SwapEffect
       DEF CloseMarket, vars, shareVars, TreasuryStep, Donate, SweepResidual,
           CloseMarketTreasury, RecreateTreasury
  <2>2. QED
    BY <1>1, <2>1
<1>9. QED
  BY <1>2, <1>3, <1>4, <1>5, <1>6, <1>7, <1>8, NextShape

\* What binds a leader, in every run and for every width: nothing is gained from a vault
\* once it winds down, and while it trades only the admin brings the leader's stake below
\* the floor, whatever fees are minted and wherever the additions saturate.
THEOREM LeadersAreBound == Spec => LeaderIsBound
<1>1. TypeOK /\ SlabInv /\ [Next]_vars =>
        \A s \in Sectors :
          Occupied(s) /\ WindingDown(s) =>
              /\ total'[s] <= total[s] /\ leaderShares'[s] <= leaderShares[s]
              /\ vault'[s].hwm = vault[s].hwm
  BY BoundStep DEF OnlyShrinks
<1>2. TypeOK /\ SlabInv /\ [Next]_vars =>
        \A s \in Sectors :
          \/ ForceWithdrawLeader(s)
          \/ Live(s) /\ Live(s)' /\ vault'[s].floor = vault[s].floor
             /\ MinLeaderShareOk(leaderShares[s], total[s], vault[s].floor)
             => MinLeaderShareOk(leaderShares'[s], total'[s], vault[s].floor)
  BY BoundStep DEF KeepsFloor
<1>3. QED
  BY <1>1, <1>2, TypeCorrect, SlabInOrder, PTL
     DEF Spec, LeaderIsBound, WindingDownOnlyShrinks, FloorIsKept
=============================================================================
